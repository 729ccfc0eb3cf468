------------------------------- MODULE HpvPool -------------------------------
(***************************************************************************)
(* How connections reach the event-loop threads of evb: HpvPool and        *)
(* HpvThread (evb/hpvPool.cpp) with the code of evb/evHpv.cpp that hands   *)
(* connections over (hpv_accept_cb, addServer), opens them (hpv_conn_cb)   *)
(* and closes them (hpv_conn_close).                                       *)
(*                                                                         *)
(* A dispatcher scans the threads for the smallest taskCount_, adds one to *)
(* it and sends a 16-byte command down that thread's socket pair.  Neither *)
(* the scan nor the updates of taskCount_ are locked or atomic, so every   *)
(* read and every write of a count is a step.                              *)
(*                                                                         *)
(* where[c] = "new"         not dispatched yet                             *)
(*            "counted"     counted in taskCount_, not yet sent            *)
(*            "sent"        in the socket pair of owner[c]                 *)
(*            "connecting"  a client connection on its way                 *)
(*            "open"        served by owner[c]                             *)
(*            "leaked"      nobody will ever touch it again                *)
(*            "closed"                                                     *)
(***************************************************************************)
EXTENDS Integers, Sequences, FiniteSets

CONSTANTS ThreadNum,  \* HpvCore creates a pool of 5
          Acceptor,   \* the thread of HpvCore::loop
          Users,      \* threads that call addServer
          Accepted,   \* connections that arrive at the listener
          Added,      \* connections made with addServer
          PipeSize,   \* commands a socket pair holds
          None

ASSUME HpvPoolAssumption ==
  /\ ThreadNum \in Nat \ {0}
  /\ PipeSize \in Nat
  /\ Acceptor \notin Users /\ IsFiniteSet(Users)
  /\ Accepted \cap Added = {}
  /\ IsFiniteSet(Accepted) /\ IsFiniteSet(Added)
  /\ None \notin Accepted \cup Added

VARIABLES built,       \* threads whose HpvThread constructor has returned
          listen,      \* listen[t]: what run() found in rdr_, or "unpaired"
                       \* when there is no socket pair
          taskCount_,
          pipe,        \* pipe[t]: commands sent to t and not received
          where, owner,
          disp,        \* disp[d]: where dispatcher d is in HpvPool::execute
          closing,     \* closing[t]: a close of t between its read and write
          raced        \* history: threads with an overwritten update

vars ==
  <<built, listen, taskCount_, pipe, where, owner, disp, closing, raced>>

Threads == 1 .. ThreadNum
Dispatchers == {Acceptor} \cup Users
Conns == Accepted \cup Added
IdleDisp ==
  [pc |-> "idle", conn |-> None, next |-> 0, min |-> 0, thd |-> 0, read |-> 0]

Init ==
  /\ built = 0
  /\ listen = [t \in Threads |-> "unborn"]
  /\ taskCount_ = [t \in Threads |-> 0]
  /\ pipe = [t \in Threads |-> <<>>]
  /\ where = [c \in Conns |-> "new"]
  /\ owner = [c \in Conns |-> 0]
  /\ disp = [d \in Dispatchers |-> IdleDisp]
  /\ closing = [t \in Threads |-> [conn |-> None, count |-> 0]]
  /\ raced = {}
-----------------------------------------------------------------------------
(* HpvPool::HpvPool and HpvThread::HpvThread *)

\* The constructor starts the thread first ...
Spawn(t) ==
  /\ t = built + 1
  /\ listen[t] = "unborn"
  /\ listen' = [listen EXCEPT ![t] = "starting"]
  /\ UNCHANGED <<built, taskCount_, pipe, where, owner, disp, closing, raced>>

\* ... and writes rdr_ and wdr_ after that, or neither when evutil_socketpair()
\* fails: the thread then waits on an arbitrary descriptor.
Construct(t) ==
  /\ t = built + 1
  /\ listen[t] # "unborn"
  /\ built' = t
  /\ listen' \in {listen, [listen EXCEPT ![t] = "unpaired"]}
  /\ UNCHANGED <<taskCount_, pipe, where, owner, disp, closing, raced>>

\* HpvThread::run() builds its event on rdr_, written or not.
Run(t) ==
  /\ listen[t] = "starting"
  /\ listen' = [listen EXCEPT ![t] = IF built >= t THEN "up" ELSE "deaf"]
  /\ UNCHANGED <<built, taskCount_, pipe, where, owner, disp, closing, raced>>
-----------------------------------------------------------------------------
(* HpvPool::execute and HpvThread::execute, in the dispatcher's thread *)

\* hpv_accept_cb and addServer make a connection and call execute.
Dispatch(d) ==
  /\ built = ThreadNum
  /\ disp[d].pc = "idle"
  /\ \E c \in IF d = Acceptor THEN Accepted ELSE Added :
       /\ where[c] = "new"
       /\ \A e \in Dispatchers : disp[e].conn # c
       /\ disp' = [disp EXCEPT ![d] =
                     [IdleDisp EXCEPT !.pc = "scan", !.conn = c, !.next = 1]]
  /\ UNCHANGED <<built, listen, taskCount_, pipe, where, owner, closing, raced>>

\* Mutant of Better: the comparison is turned round.
Worse(backlog, s) == s.thd = 0 \/ backlog > s.min

\* thd == NULL || backlog < min
Better(backlog, s) == s.thd = 0 \/ backlog < s.min

\* One turn of the loop over threads_.
Scan(d) ==
  /\ disp[d].pc = "scan"
  /\ LET s == disp[d]
         backlog == taskCount_[s.next]
         seen == IF Better(backlog, s)
                 THEN [s EXCEPT !.min = backlog, !.thd = s.next] ELSE s
     IN disp' = [disp EXCEPT ![d] =
                   IF s.next < ThreadNum THEN [seen EXCEPT !.next = @ + 1]
                   ELSE [seen EXCEPT !.pc = "count"]]
  /\ UNCHANGED <<built, listen, taskCount_, pipe, where, owner, closing, raced>>

\* taskCount_++ reads ...
CountRead(d) ==
  /\ disp[d].pc = "count"
  /\ disp' = [disp EXCEPT ![d] =
                [@ EXCEPT !.pc = "add", !.read = taskCount_[disp[d].thd]]]
  /\ UNCHANGED <<built, listen, taskCount_, pipe, where, owner, closing, raced>>

\* A write to taskCount_[t] of a value computed from the one read earlier.
Write(t, read, value) ==
  /\ taskCount_' = [taskCount_ EXCEPT ![t] = value]
  /\ raced' = IF taskCount_[t] = read THEN raced ELSE raced \cup {t}

\* ... and writes.
CountWrite(d) ==
  /\ disp[d].pc = "add"
  /\ LET t == disp[d].thd
         c == disp[d].conn
     IN /\ Write(t, disp[d].read, disp[d].read + 1)
        /\ where' = [where EXCEPT ![c] = "counted"]
        /\ owner' = [owner EXCEPT ![c] = t]
  /\ disp' = [disp EXCEPT ![d].pc = "send"]
  /\ UNCHANGED <<built, listen, pipe, closing>>

\* send(): a full socket buffer is only logged, the connection is forgotten; so
\* is one whose command goes to an arbitrary descriptor.
Send(d) ==
  /\ disp[d].pc = "send"
  /\ LET t == disp[d].thd
         c == disp[d].conn
     IN IF listen[t] # "unpaired" /\ Len(pipe[t]) < PipeSize
        THEN /\ pipe' = [pipe EXCEPT ![t] = Append(@, c)]
             /\ where' = [where EXCEPT ![c] = "sent"]
        ELSE /\ where' = [where EXCEPT ![c] = "leaked"]
             /\ UNCHANGED pipe
  /\ disp' = [disp EXCEPT ![d] = IdleDisp]
  /\ UNCHANGED <<built, listen, taskCount_, owner, closing, raced>>
-----------------------------------------------------------------------------
(* The event loop of thread t *)

\* Mutant of Free: the thread serves one connection at a time.
FreeOfConns(t) ==
  /\ listen[t] = "up" /\ closing[t].conn = None
  /\ \A c \in Conns : owner[c] = t => where[c] # "open"

\* The thread is in its event loop and not inside a callback.
Free(t) == listen[t] = "up" /\ closing[t].conn = None

\* Mutant of ReadCmd: the command stays in the socket.
PeekCmd(t) ==
  /\ Free(t)
  /\ pipe[t] # <<>>
  /\ where' = [where EXCEPT ![Head(pipe[t])] = "open"]
  /\ UNCHANGED <<built, listen, taskCount_, pipe, owner, disp, closing, raced>>

\* readCmd() receives one command and calls hpv_conn_cb(): an accepted
\* connection is served at once, an added one starts to connect, and without a
\* bufferevent it is forgotten.
ReadCmd(t) ==
  /\ Free(t)
  /\ pipe[t] # <<>>
  /\ LET c == Head(pipe[t]) IN
       \E s \in {"leaked", IF c \in Added THEN "connecting" ELSE "open"} :
         where' = [where EXCEPT ![c] = s]
  /\ pipe' = [pipe EXCEPT ![t] = Tail(@)]
  /\ UNCHANGED <<built, listen, taskCount_, owner, disp, closing, raced>>

\* The connect event of an added connection: CONNECTED serves it, ERROR (or an
\* error left in SO_ERROR) is only logged.
Connected(t) ==
  /\ Free(t)
  /\ \E c \in Added, s \in {"open", "leaked"} :
       /\ owner[c] = t /\ where[c] = "connecting"
       /\ where' = [where EXCEPT ![c] = s]
  /\ UNCHANGED <<built, listen, taskCount_, pipe, owner, disp, closing, raced>>

\* hpv_conn_close() reads taskCount() ...
CloseRead(t) ==
  /\ Free(t)
  /\ \E c \in Conns :
       /\ owner[c] = t /\ where[c] = "open"
       /\ closing' = [closing EXCEPT ![t] =
                        [conn |-> c, count |-> taskCount_[t]]]
  /\ UNCHANGED <<built, listen, taskCount_, pipe, where, owner, disp, raced>>

\* Mutant of CloseWrite: the count is left alone.
CloseUncounted(t) ==
  /\ closing[t].conn # None
  /\ where' = [where EXCEPT ![closing[t].conn] = "closed"]
  /\ closing' = [closing EXCEPT ![t] = [conn |-> None, count |-> 0]]
  /\ UNCHANGED <<built, listen, taskCount_, pipe, owner, disp, raced>>

\* ... and sets one less.
CloseWrite(t) ==
  /\ closing[t].conn # None
  /\ Write(t, closing[t].count, closing[t].count - 1)
  /\ where' = [where EXCEPT ![closing[t].conn] = "closed"]
  /\ closing' = [closing EXCEPT ![t] = [conn |-> None, count |-> 0]]
  /\ UNCHANGED <<built, listen, pipe, owner, disp>>

Execute(d) == Scan(d) \/ CountRead(d) \/ CountWrite(d) \/ Send(d)

Next ==
  \/ \E t \in Threads : Spawn(t) \/ Construct(t) \/ Run(t)
  \/ \E d \in Dispatchers : Dispatch(d) \/ Execute(d)
  \/ \E t \in Threads :
       ReadCmd(t) \/ Connected(t) \/ CloseRead(t) \/ CloseWrite(t)

Spec == Init /\ [][Next]_vars

\* Every thread is scheduled; connections may stay open as long as they like.
FairSpec ==
  /\ Spec
  /\ \A t \in Threads :
       /\ WF_vars(Spawn(t) \/ Construct(t)) /\ WF_vars(Run(t))
       /\ WF_vars(ReadCmd(t)) /\ WF_vars(CloseWrite(t))
  /\ \A d \in Dispatchers : WF_vars(Execute(d))
-----------------------------------------------------------------------------
\* Each variable keeps to its type.
TypeOK ==
  /\ built \in 0 .. ThreadNum
  /\ listen \in [Threads -> {"unborn", "starting", "up", "deaf", "unpaired"}]
  /\ taskCount_ \in [Threads -> Int]
  /\ pipe \in [Threads -> Seq(Conns)]
  /\ \A t \in Threads : Len(pipe[t]) <= PipeSize
  /\ where \in [Conns -> {"new", "counted", "sent", "connecting", "open",
                          "leaked", "closed"}]
  /\ owner \in [Conns -> 0 .. ThreadNum]
  /\ disp \in [Dispatchers ->
                 [pc : {"idle", "scan", "count", "add", "send"},
                  conn : Conns \cup {None}, next : 0 .. ThreadNum, min : Int,
                  thd : 0 .. ThreadNum, read : Int]]
  /\ closing \in [Threads -> [conn : Conns \cup {None}, count : Int]]
  /\ raced \subseteq Threads

\* A connection belongs to one thread: it waits at most once, in the socket of
\* its owner alone, and exactly as long as nobody has received it.
OneOwner ==
  /\ TypeOK
  /\ \A c \in Conns, t \in Threads :
       Cardinality({i \in 1 .. Len(pipe[t]) : pipe[t][i] = c})
         = IF where[c] = "sent" /\ owner[c] = t THEN 1 ELSE 0

\* The connections thread t was given and has not closed, leaked ones included.
Load(t) ==
  Cardinality({c \in Conns : owner[c] = t /\ where[c] # "closed"})

\* Unlocked as it is, taskCount_ is the thread's load unless two updates of it
\* overlapped: no path through dispatch, failure and close miscounts.
CountExactUnlessRaced ==
  \A t \in Threads \ raced : taskCount_[t] = Load(t)

\* Unlocked scans keep the threads balanced: while nothing was closed and no
\* update was lost, two threads differ by at most one connection for every
\* dispatcher that works from what it read earlier.
Balanced ==
  (raced = {} /\ \A c \in Conns : where[c] # "closed")
  => \A t, u \in Threads :
       taskCount_[t] - taskCount_[u] <= Cardinality(Dispatchers)

\* A command sent to a thread whose event is on the right socket is received.
SentIsReceived ==
  \A c \in Conns :
    (where[c] = "sent" /\ listen[owner[c]] # "deaf") ~> where[c] # "sent"
=============================================================================
