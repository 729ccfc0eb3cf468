------------------------------ MODULE RedisPool ------------------------------
(***************************************************************************)
(* The connection pool of predis/redis_pool.cpp: RedisPool, its reaper     *)
(* thread and RedisControlGuard.                                           *)
(*                                                                         *)
(* Idle connections wait in contextPool_, most recently returned first.    *)
(* GetControl, ReturnControl and Reep run under lock_ from end to end, the *)
(* network calls of CheckValid and connect included, so each is one        *)
(* action.  A connection on loan is in the guard that borrowed it.         *)
(***************************************************************************)
EXTENDS Integers, Sequences, FiniteSets, RedisControl

CONSTANTS Guards,       \* the RedisControlGuard objects alive at a time
          InitialSize,  \* initialSize_
          MaxSize,      \* maxSize_
          NoControl     \* a null redisControl_

ASSUME PoolAssumption ==
  /\ InitialSize \in Nat
  /\ MaxSize \in Nat
  /\ IsFiniteSet(Guards)
  /\ NoControl \notin Control

VARIABLES contextPool_, activeSize_, reepInx_,
          reaper,         \* Init() reached the start of ReepThd
          redisControl_,  \* redisControl_[g]: what guard g holds
          strayed,        \* history: a command ran outside the chosen database
          doubled         \* history: a guard asked while it held a connection

vars == <<contextPool_, activeSize_, reepInx_, reaper, redisControl_, strayed,
          doubled>>

Idle == Len(contextPool_)
Lent == {g \in Guards : redisControl_[g] # NoControl}
-----------------------------------------------------------------------------
\* RedisPool::Init(): a connection that does not answer PING is left out; the
\* first one that cannot be opened ends Init() before the reaper starts.
Init ==
  /\ \E n \in 0 .. InitialSize :
       /\ contextPool_ = [i \in 1 .. n |-> Connected]
       /\ reaper \in IF n < InitialSize THEN BOOLEAN ELSE {TRUE}
  /\ activeSize_ = 0
  /\ reepInx_ = 0
  /\ redisControl_ = [g \in Guards |-> NoControl]
  /\ strayed = FALSE
  /\ doubled = FALSE

\* Mutant of CanCreate: the check of maxSize_ is off by one.
CanCreateOneMore == activeSize_ <= MaxSize

CanCreate == activeSize_ < MaxSize

\* GetControlInner(), first part: idle connections are popped until one is
\* valid.  The n invalid ones before it are closed.
GetIdle(g) ==
  \E n \in 0 .. Idle - 1 :
    /\ \E c \in Succeeded(contextPool_[n + 1]) :
         redisControl_' = [redisControl_ EXCEPT ![g] = c]
    /\ contextPool_' = SubSeq(contextPool_, n + 2, Idle)
    /\ activeSize_' = activeSize_ + 1

\* Mutant of GetNew: idle connections are kept for later.
GetNewFirst(g) ==
  /\ CanCreate
  /\ redisControl_' = [redisControl_ EXCEPT ![g] = Connected]
  /\ activeSize_' = activeSize_ + 1
  /\ UNCHANGED contextPool_

\* Second part: none was valid, a new one is opened and answers PING.
GetNew(g) ==
  /\ CanCreate
  /\ redisControl_' = [redisControl_ EXCEPT ![g] = Connected]
  /\ contextPool_' = <<>>
  /\ activeSize_' = activeSize_ + 1

\* None was valid, and no new one may or can be opened: a null pointer.
GetNothing(g) ==
  /\ redisControl_' = [redisControl_ EXCEPT ![g] = NoControl]
  /\ contextPool_' = <<>>
  /\ UNCHANGED activeSize_

\* RedisControlGuard::GetControl() overwrites redisControl_: a connection
\* the guard held before is closed and never counted back.
GetControl(g) ==
  /\ GetIdle(g) \/ GetNew(g) \/ GetNothing(g)
  /\ doubled' = (doubled \/ g \in Lent)
  /\ UNCHANGED <<reepInx_, reaper, strayed>>

\* A command of the holder (GetValue, SetValue, Lpush, ...).
Use(g) ==
  /\ g \in Lent
  /\ \/ \E c \in Succeeded(redisControl_[g]) :
          /\ redisControl_' = [redisControl_ EXCEPT ![g] = c]
          /\ strayed' = (strayed \/ c.session = "fresh")
     \/ \E c \in Failed(redisControl_[g]) :
          /\ redisControl_' = [redisControl_ EXCEPT ![g] = c]
          /\ UNCHANGED strayed
  /\ UNCHANGED <<contextPool_, activeSize_, reepInx_, reaper, doubled>>

\* Mutant of ReturnControl: the loan is not counted back.
ReturnUncounted(g) ==
  /\ g \in Lent
  /\ contextPool_' = <<Stamped(redisControl_[g])>> \o contextPool_
  /\ redisControl_' = [redisControl_ EXCEPT ![g] = NoControl]
  /\ UNCHANGED <<activeSize_, reepInx_, reaper, strayed, doubled>>

\* ~RedisControlGuard() calls ReturnControl(): set_last_access, push_front.
ReturnControl(g) ==
  /\ g \in Lent
  /\ contextPool_' = <<Stamped(redisControl_[g])>> \o contextPool_
  /\ activeSize_' = activeSize_ - 1
  /\ redisControl_' = [redisControl_ EXCEPT ![g] = NoControl]
  /\ UNCHANGED <<reepInx_, reaper, strayed, doubled>>

Surplus == Idle > InitialSize

\* Mutant of MustClose: "or" became "and".
MustCloseBoth(valid, late) == ~valid /\ late

\* !CheckValid() || Timeout(now)
MustClose(valid, late) == ~valid \/ late

\* Reep(): of more than initialSize_ idle connections one is visited, the next
\* one in turn, and closed if it is invalid or was not used for long.
Reep ==
  /\ reaper
  /\ Surplus
  /\ LET inx == (reepInx_ % Idle) + 1
         visited == contextPool_[inx]
     IN \E valid \in BOOLEAN, late \in TimedOut(visited) :
        \E c \in IF valid THEN Succeeded(visited) ELSE Failed(visited) :
          contextPool_' =
            IF MustClose(valid, late)
            THEN SubSeq(contextPool_, 1, inx - 1)
                   \o SubSeq(contextPool_, inx + 1, Idle)
            ELSE [contextPool_ EXCEPT ![inx] = c]
  /\ reepInx_' = (reepInx_ + 1) % Idle
  /\ UNCHANGED <<activeSize_, reaper, redisControl_, strayed, doubled>>

\* A minute passes: what is idle becomes old.
Tick ==
  /\ contextPool_' =
       [i \in 1 .. Idle |->
          [contextPool_[i] EXCEPT !.stamp = IF @ = "unset" THEN @ ELSE "old"]]
  /\ UNCHANGED <<activeSize_, reepInx_, reaper, redisControl_, strayed, doubled>>

Next ==
  \/ \E g \in Guards : GetControl(g) \/ Use(g) \/ ReturnControl(g)
  \/ Reep
  \/ Tick

Spec == Init /\ [][Next]_vars

\* Time passes, the reaper thread runs, guards go out of scope.
FairSpec ==
  /\ Spec
  /\ WF_vars(Reep)
  /\ WF_vars(Tick)
  /\ \A g \in Guards : WF_vars(ReturnControl(g))
-----------------------------------------------------------------------------
\* Each variable keeps to its type; activeSize_ never becomes negative.
TypeOK ==
  /\ contextPool_ \in Seq(Control)
  /\ activeSize_ \in Nat
  /\ reepInx_ \in Nat
  /\ reaper \in BOOLEAN
  /\ redisControl_ \in [Guards -> Control \cup {NoControl}]
  /\ strayed \in BOOLEAN
  /\ doubled \in BOOLEAN

\* The pool never owns more connections than its larger size allows, idle and
\* lent ones together, although maxSize_ is only compared with activeSize_.
Larger == IF InitialSize > MaxSize THEN InitialSize ELSE MaxSize
PoolBounded == Idle + activeSize_ <= Larger

\* activeSize_ counts the loans: exactly, as long as no guard asked while it
\* held a connection; one that did only ever makes it too large.
LoansCounted ==
  /\ Cardinality(Lent) <= activeSize_
  /\ ~doubled => activeSize_ = Cardinality(Lent)

\* Reep() never decides on a last_access_ that nobody wrote: connections from
\* Init() are all lent or closed before the pool can hold a surplus.
ReepReadsInitialised ==
  Surplus => \A i \in 1 .. Idle : contextPool_[i].stamp # "unset"

\* Once nobody asks for connections any more, the reaper brings the pool back
\* to initialSize_ idle ones.
Quiet == <>[][\A g \in Guards : ~GetControl(g)]_vars
SurplusIsReaped == (reaper /\ Quiet) => <>[](Idle <= InitialSize)

\* connect() gives up on a connection whose SELECT fails, so a command should
\* never be carried out in another database than db_.
OnSelectedDb == ~strayed
=============================================================================
