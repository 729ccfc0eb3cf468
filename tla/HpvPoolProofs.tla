---------------------------- MODULE HpvPoolProofs ----------------------------
(***************************************************************************)
(* Who owns a connection, and what taskCount_ counts, for any number of    *)
(* threads, dispatchers and connections and sockets of any size.           *)
(***************************************************************************)
EXTENDS HpvPool, FiniteSetTheorems, TLAPS

Items(q) == {q[i] : i \in 1 .. Len(q)}
Once(q) == \A i, j \in 1 .. Len(q) : q[i] = q[j] => i = j

\* A dispatcher that is not idle has a connection, which nobody was given
\* before it counted it; past its scan it has found a thread.
DispOK ==
  \A d \in Dispatchers :
    /\ disp[d].pc = "idle" <=> disp[d].conn = None
    /\ disp[d].pc = "scan" => disp[d].next \in Threads
    /\ disp[d].pc \in {"scan", "count", "add"} => where[disp[d].conn] = "new"
    /\ disp[d].pc \in {"count", "add", "send"} => disp[d].thd \in Threads
    /\ disp[d].pc = "send" =>
         where[disp[d].conn] = "counted" /\ owner[disp[d].conn] = disp[d].thd

\* No two dispatchers have the same connection.
Apart ==
  \A d, e \in Dispatchers :
    disp[d].conn = disp[e].conn /\ disp[d].conn # None => d = e

\* A connection has an owner as soon as it was counted.
ConnOK == \A c \in Conns : where[c] = "new" <=> owner[c] = 0

\* A thread closes its own connections.
ClosingOK ==
  \A t \in Threads :
    closing[t].conn # None =>
      owner[closing[t].conn] = t /\ where[closing[t].conn] = "open"

\* The commands in a socket are those of the connections sent to its thread.
PipeOK ==
  \A t \in Threads :
    /\ Once(pipe[t])
    /\ \A c \in Conns :
         c \in Items(pipe[t]) <=> where[c] = "sent" /\ owner[c] = t

Loaded(t) == {c \in Conns : owner[c] = t /\ where[c] # "closed"}

IInv ==
  /\ TypeOK /\ DispOK /\ Apart /\ ConnOK /\ ClosingOK /\ PipeOK
  /\ CountExactUnlessRaced
-----------------------------------------------------------------------------
\* A connection added to a socket that does not hold it.
LEMMA AppendItems ==
  ASSUME NEW q \in Seq(Conns), NEW c \in Conns
  PROVE  /\ Items(Append(q, c)) = Items(q) \cup {c}
         /\ Once(q) /\ c \notin Items(q) => Once(Append(q, c))
<1> DEFINE a == Append(q, c)
<1>1. /\ Len(q) \in Nat /\ Len(a) = Len(q) + 1
      /\ \A i \in 1 .. Len(q) : a[i] = q[i]
      /\ a[Len(q) + 1] = c
  OBVIOUS
<1> HIDE DEF a
<1>2. /\ \A i \in 1 .. Len(a) : i \in 1 .. Len(q) \/ i = Len(q) + 1
      /\ \A i \in 1 .. Len(q) : i \in 1 .. Len(a)
      /\ Len(q) + 1 \in 1 .. Len(a)
  BY <1>1
<1>3. Items(a) = Items(q) \cup {c}
  BY <1>1, <1>2 DEF Items
<1>4. ASSUME Once(q), c \notin Items(q) PROVE Once(a)
  <2>1. \A k \in 1 .. Len(q) : q[k] # c
    BY <1>4 DEF Items
  <2>2. QED
    BY <1>1, <1>2, <1>4, <2>1 DEF Once
<1>5. QED
  BY <1>3, <1>4 DEF a

\* A socket without its first command.
LEMMA TailItems ==
  ASSUME NEW q \in Seq(Conns), q # <<>>, Once(q)
  PROVE  /\ Head(q) \in Items(q)
         /\ Items(Tail(q)) = Items(q) \ {Head(q)}
         /\ Once(Tail(q))
<1> DEFINE b == Tail(q)
<1>1. /\ Len(q) \in Nat /\ Len(q) >= 1
      /\ Head(q) = q[1]
      /\ Len(b) = Len(q) - 1
      /\ \A i \in 1 .. Len(q) - 1 : b[i] = q[i + 1]
  OBVIOUS
<1> HIDE DEF b
<1>2. \A i \in 1 .. Len(b) : i + 1 \in 1 .. Len(q) /\ i + 1 # 1 /\ b[i] = q[i + 1]
  BY <1>1
<1>3. \A k \in 1 .. Len(q) : k = 1 \/ (k - 1 \in 1 .. Len(b) /\ b[k - 1] = q[k])
  BY <1>1
<1>4. \A k \in 1 .. Len(q) : q[k] = q[1] => k = 1
  BY <1>1 DEF Once
<1>5. Items(b) = Items(q) \ {q[1]}
  <2>1. ASSUME NEW i \in 1 .. Len(b) PROVE b[i] \in Items(q) \ {q[1]}
    BY <1>2, <1>4 DEF Items
  <2>2. ASSUME NEW k \in 1 .. Len(q), q[k] # q[1] PROVE q[k] \in Items(b)
    BY <1>3, <2>2 DEF Items
  <2>3. QED
    BY <2>1, <2>2 DEF Items
<1>6. Once(b)
  <2> SUFFICES ASSUME NEW i \in 1 .. Len(b), NEW j \in 1 .. Len(b), b[i] = b[j]
               PROVE  i = j
    BY DEF Once
  <2>1. i + 1 = j + 1
    BY <1>2 DEF Once
  <2>2. QED
    BY <1>1, <2>1
<1>7. Head(q) \in Items(q)
  BY <1>1 DEF Items
<1>8. QED
  BY <1>1, <1>5, <1>6, <1>7 DEF b

\* The load of a thread is a number.
LEMMA LoadedFinite == \A t \in Threads : IsFiniteSet(Loaded(t))
<1> SUFFICES ASSUME NEW t \in Threads PROVE IsFiniteSet(Loaded(t))
  OBVIOUS
<1>1. IsFiniteSet(Conns)
  BY HpvPoolAssumption, FS_Union DEF Conns
<1>2. Loaded(t) \in SUBSET Conns
  BY DEF Loaded
<1>3. QED
  BY <1>1, <1>2, FS_Subset
-----------------------------------------------------------------------------
\* Before anything happens.
LEMMA IInvInit == Init => IInv
<1> SUFFICES ASSUME Init PROVE IInv
  OBVIOUS
<1>0. ThreadNum \in Nat \ {0} /\ PipeSize \in Nat /\ 0 \notin Threads
  BY HpvPoolAssumption DEF Threads
<1>1. TypeOK
  <2>1. built \in 0 .. ThreadNum /\ owner \in [Conns -> 0 .. ThreadNum]
    BY <1>0 DEF Init
  <2>2. /\ pipe \in [Threads -> Seq(Conns)]
        /\ \A t \in Threads : Len(pipe[t]) <= PipeSize
    BY <1>0 DEF Init
  <2>3. IdleDisp \in [pc : {"idle", "scan", "count", "add", "send"},
                      conn : Conns \cup {None}, next : 0 .. ThreadNum, min : Int,
                      thd : 0 .. ThreadNum, read : Int]
    BY <1>0 DEF IdleDisp
  <2>4. QED
    BY <2>1, <2>2, <2>3 DEF Init, TypeOK
<1>2. DispOK /\ Apart
  BY DEF Init, DispOK, Apart, IdleDisp
<1>3. ConnOK /\ ClosingOK
  BY DEF Init, ConnOK, ClosingOK
<1>4. PipeOK
  <2>1. \A t \in Threads : Len(pipe[t]) = 0
    BY DEF Init
  <2>2. \A i \in 1 .. 0 : FALSE
    OBVIOUS
  <2>3. QED
    BY <2>1, <2>2 DEF Init, PipeOK, Once, Items
<1>5. CountExactUnlessRaced
  <2>1. \A t \in Threads : Loaded(t) = {}
    BY <1>0 DEF Init, Loaded
  <2>2. QED
    BY <2>1, FS_EmptySet DEF Init, CountExactUnlessRaced, Load, Loaded
<1>6. QED
  BY <1>1, <1>2, <1>3, <1>4, <1>5 DEF IInv

\* Every step keeps the variables in their types.
LEMMA TypeNext == IInv /\ [Next]_vars => TypeOK'
<1> SUFFICES ASSUME IInv, [Next]_vars PROVE TypeOK'
  OBVIOUS
<1>0. TypeOK /\ DispOK /\ ClosingOK /\ PipeOK
  BY DEF IInv
<1>a. ThreadNum \in Nat \ {0} /\ PipeSize \in Nat /\ None \notin Conns
  BY HpvPoolAssumption DEF Conns
<1> DEFINE DispType == [pc : {"idle", "scan", "count", "add", "send"},
                        conn : Conns \cup {None}, next : 0 .. ThreadNum,
                        min : Int, thd : 0 .. ThreadNum, read : Int]
<1>1. CASE UNCHANGED vars
  BY <1>0, <1>1 DEF vars, TypeOK
<1>2. ASSUME NEW t \in Threads, Spawn(t) \/ Construct(t) \/ Run(t) PROVE TypeOK'
  <2>1. built' \in 0 .. ThreadNum
    <3>1. built' \in {built, t}
      BY <1>2 DEF Spawn, Construct, Run
    <3>2. t \in 0 .. ThreadNum /\ built \in 0 .. ThreadNum
      BY <1>0, <1>a DEF TypeOK, Threads
    <3>3. QED
      BY <3>1, <3>2
  <2>2. listen' \in [Threads -> {"unborn", "starting", "up", "deaf", "unpaired"}]
    BY <1>0, <1>2 DEF Spawn, Construct, Run, TypeOK
  <2>3. QED
    BY <1>0, <1>2, <2>1, <2>2 DEF Spawn, Construct, Run, TypeOK
<1>3. ASSUME NEW d \in Dispatchers, Dispatch(d) PROVE TypeOK'
  <2>1. PICK c \in Conns :
          disp' = [disp EXCEPT ![d] =
                     [IdleDisp EXCEPT !.pc = "scan", !.conn = c, !.next = 1]]
    BY <1>3 DEF Dispatch, Conns
  <2>2. 1 \in 0 .. ThreadNum /\ 0 \in 0 .. ThreadNum
    BY <1>a
  <2>3. disp' \in [Dispatchers -> DispType]
    <3>1. IdleDisp \in DispType
      BY <1>a DEF IdleDisp
    <3>2. [IdleDisp EXCEPT !.pc = "scan", !.conn = c, !.next = 1] \in DispType
      BY <2>2, <3>1
    <3> QED BY <1>0, <2>1, <3>2 DEF TypeOK
  <2>4. QED
    BY <1>0, <1>3, <2>3 DEF Dispatch, TypeOK
<1>4. ASSUME NEW d \in Dispatchers, Scan(d) PROVE TypeOK'
  <2> DEFINE s == disp[d]
             seen == IF Better(taskCount_[s.next], s)
                     THEN [s EXCEPT !.min = taskCount_[s.next], !.thd = s.next]
                     ELSE s
             done == IF s.next < ThreadNum THEN [seen EXCEPT !.next = @ + 1]
                     ELSE [seen EXCEPT !.pc = "count"]
  <2>1. s \in DispType /\ s.next \in Threads
    BY <1>0, <1>4 DEF TypeOK, DispOK, Scan
  <2>2. taskCount_[s.next] \in Int /\ s.next \in 0 .. ThreadNum
    BY <1>0, <2>1 DEF TypeOK
  <2>3. seen \in DispType /\ seen.next = s.next
    BY <2>1, <2>2
  <2>4. done \in DispType
    <3> HIDE DEF seen, s
    <3>1. s.next < ThreadNum => s.next + 1 \in 0 .. ThreadNum
      BY <1>a, <2>2
    <3>2. QED
      BY <2>3, <3>1
  <2>5. disp' = [disp EXCEPT ![d] = done]
    BY <1>4 DEF Scan
  <2>6. disp' \in [Dispatchers -> DispType]
    <3> HIDE DEF done
    <3>1. QED
      BY <1>0, <2>4, <2>5 DEF TypeOK
  <2>7. QED
    BY <1>0, <1>4, <2>6 DEF Scan, TypeOK
<1>5. ASSUME NEW d \in Dispatchers, CountRead(d) PROVE TypeOK'
  <2>1. disp[d].thd \in Threads
    BY <1>0, <1>5 DEF DispOK, CountRead
  <2>2. taskCount_[disp[d].thd] \in Int
    BY <1>0, <2>1 DEF TypeOK
  <2>3. disp' \in [Dispatchers -> DispType]
    BY <1>0, <1>5, <2>2 DEF CountRead, TypeOK
  <2>4. QED
    BY <1>0, <1>5, <2>3 DEF CountRead, TypeOK
<1>6. ASSUME NEW d \in Dispatchers, CountWrite(d) PROVE TypeOK'
  <2>1. /\ disp[d].thd \in Threads /\ disp[d].thd \in 0 .. ThreadNum
        /\ disp[d].read \in Int
    BY <1>0, <1>6 DEF DispOK, CountWrite, TypeOK
  <2>2. disp[d].read + 1 \in Int
    BY <2>1
  <2>3. taskCount_' \in [Threads -> Int] /\ raced' \subseteq Threads
    BY <1>0, <1>6, <2>1, <2>2 DEF CountWrite, Write, TypeOK
  <2>4. /\ where' \in [Conns -> {"new", "counted", "sent", "connecting", "open",
                                 "leaked", "closed"}]
        /\ owner' \in [Conns -> 0 .. ThreadNum]
    BY <1>0, <1>6, <2>1 DEF CountWrite, TypeOK
  <2>5. disp' \in [Dispatchers -> DispType]
    BY <1>0, <1>6 DEF CountWrite, TypeOK
  <2>6. QED
    BY <1>0, <1>6, <2>3, <2>4, <2>5 DEF CountWrite, TypeOK
<1>7. ASSUME NEW d \in Dispatchers, Send(d) PROVE TypeOK'
  <2> DEFINE t == disp[d].thd
             c == disp[d].conn
  <2>1. t \in Threads /\ c \in Conns
    BY <1>0, <1>7 DEF DispOK, Send, TypeOK
  <2>2. /\ where' \in [Conns -> {"new", "counted", "sent", "connecting", "open",
                                 "leaked", "closed"}]
        /\ disp' \in [Dispatchers -> DispType]
    <3>1. IdleDisp \in DispType
      BY <1>a DEF IdleDisp
    <3>2. QED
      BY <1>0, <1>7, <3>1 DEF Send, TypeOK
  <2>3. /\ pipe' \in [Threads -> Seq(Conns)]
        /\ \A u \in Threads : Len(pipe'[u]) <= PipeSize
    <3>1. CASE UNCHANGED pipe
      BY <1>0, <3>1 DEF TypeOK
    <3>2. CASE /\ listen[t] # "unpaired" /\ Len(pipe[t]) < PipeSize
               /\ pipe' = [pipe EXCEPT ![t] = Append(pipe[t], c)]
      <4>1. /\ Append(pipe[t], c) \in Seq(Conns)
            /\ Len(Append(pipe[t], c)) = Len(pipe[t]) + 1
            /\ Len(pipe[t]) \in Nat
        BY <1>0, <2>1 DEF TypeOK
      <4>2. Len(Append(pipe[t], c)) <= PipeSize
        BY <1>a, <3>2, <4>1
      <4>3. QED
        BY <1>0, <2>1, <3>2, <4>1, <4>2 DEF TypeOK
    <3>3. QED
      BY <1>7, <3>1, <3>2 DEF Send
  <2>4. QED
    BY <1>0, <1>7, <2>2, <2>3 DEF Send, TypeOK
<1>8. ASSUME NEW t \in Threads, ReadCmd(t) PROVE TypeOK'
  <2>1. /\ pipe[t] \in Seq(Conns) /\ pipe[t] # <<>>
        /\ Len(pipe[t]) <= PipeSize
    BY <1>0, <1>8 DEF ReadCmd, TypeOK
  <2>2. /\ Tail(pipe[t]) \in Seq(Conns)
        /\ Len(Tail(pipe[t])) = Len(pipe[t]) - 1 /\ Len(pipe[t]) \in Nat
    BY <2>1
  <2>3. Len(Tail(pipe[t])) <= PipeSize
    BY <1>a, <2>1, <2>2
  <2>4. /\ pipe' \in [Threads -> Seq(Conns)]
        /\ \A u \in Threads : Len(pipe'[u]) <= PipeSize
    BY <1>0, <1>8, <2>2, <2>3 DEF ReadCmd, TypeOK
  <2>5. where' \in [Conns -> {"new", "counted", "sent", "connecting", "open",
                              "leaked", "closed"}]
    BY <1>0, <1>8 DEF ReadCmd, TypeOK
  <2>6. QED
    BY <1>0, <1>8, <2>4, <2>5 DEF ReadCmd, TypeOK
<1>9. ASSUME NEW t \in Threads, Connected(t) PROVE TypeOK'
  BY <1>0, <1>9 DEF Connected, TypeOK
<1>10. ASSUME NEW t \in Threads, CloseRead(t) PROVE TypeOK'
  BY <1>0, <1>10 DEF CloseRead, TypeOK
<1>11. ASSUME NEW t \in Threads, CloseWrite(t) PROVE TypeOK'
  <2>1. closing[t].count \in Int
    BY <1>0 DEF TypeOK
  <2>2. closing[t].count - 1 \in Int
    BY <2>1
  <2>3. taskCount_' \in [Threads -> Int] /\ raced' \subseteq Threads
    BY <1>0, <1>11, <2>2 DEF CloseWrite, Write, TypeOK
  <2>4. where' \in [Conns -> {"new", "counted", "sent", "connecting", "open",
                              "leaked", "closed"}]
    BY <1>0, <1>11 DEF CloseWrite, TypeOK
  <2>5. closing' \in [Threads -> [conn : Conns \cup {None}, count : Int]]
    BY <1>0, <1>11 DEF CloseWrite, TypeOK
  <2>6. QED
    BY <1>0, <1>11, <2>3, <2>4, <2>5 DEF CloseWrite, TypeOK
<1>12. QED
  BY <1>1, <1>2, <1>3, <1>4, <1>5, <1>6, <1>7, <1>8, <1>9, <1>10, <1>11
     DEF Next, Execute
-----------------------------------------------------------------------------
\* Where connections are, without the count of them.
Placed == DispOK /\ Apart /\ ConnOK /\ ClosingOK /\ PipeOK

\* A turn of the scan ends on a thread; it moves no connection.
LEMMA ScanPlaced ==
  ASSUME IInv, NEW d \in Dispatchers, Scan(d) PROVE Placed'
<1>0. TypeOK /\ DispOK /\ Apart
  BY DEF IInv
<1>a. ThreadNum \in Nat \ {0}
  BY HpvPoolAssumption
<1>1. UNCHANGED <<where, owner, pipe, closing>>
  BY DEF Scan
<1>2. /\ disp[d].pc = "scan" /\ disp[d].conn # None
      /\ where[disp[d].conn] = "new"
      /\ disp[d].next \in Threads
      /\ disp[d].thd \in 0 .. ThreadNum
  BY <1>0 DEF DispOK, Scan, TypeOK
<1> DEFINE s == disp[d]
           seen == IF Better(taskCount_[s.next], s)
                   THEN [s EXCEPT !.min = taskCount_[s.next], !.thd = s.next]
                   ELSE s
           done == IF s.next < ThreadNum THEN [seen EXCEPT !.next = @ + 1]
                   ELSE [seen EXCEPT !.pc = "count"]
<1>3. /\ s \in [pc : {"idle", "scan", "count", "add", "send"},
                conn : Conns \cup {None}, next : 0 .. ThreadNum, min : Int,
                thd : 0 .. ThreadNum, read : Int]
      /\ disp' = [disp EXCEPT ![d] = done]
      /\ disp'[d] = done /\ \A e \in Dispatchers \ {d} : disp'[e] = disp[e]
  BY <1>0 DEF Scan, TypeOK
<1>4. /\ seen.conn = s.conn /\ seen.pc = "scan" /\ seen.next = s.next
      /\ seen.thd \in Threads
      /\ seen = [pc |-> seen.pc, conn |-> seen.conn, next |-> seen.next,
                 min |-> seen.min, thd |-> seen.thd, read |-> seen.read]
  <2>1. CASE Better(taskCount_[s.next], s)
    BY <1>2, <1>3, <2>1
  <2>2. CASE ~Better(taskCount_[s.next], s)
    <3>1. s.thd # 0
      BY <2>2 DEF Better
    <3>2. s.thd \in Threads
      BY <1>a, <1>2, <3>1 DEF Threads
    <3>3. QED
      BY <1>2, <1>3, <2>2, <3>2
  <2>3. QED
    BY <2>1, <2>2
<1>5. /\ done.conn = s.conn
      /\ \/ done.pc = "scan" /\ done.next \in Threads
         \/ done.pc = "count" /\ done.thd \in Threads
  <2> HIDE DEF seen, s
  <2>1. CASE s.next < ThreadNum
    <3>1. s.next + 1 \in Threads
      BY <1>a, <1>2, <2>1 DEF s, Threads
    <3>2. QED
      BY <1>4, <2>1, <3>1
  <2>2. CASE ~(s.next < ThreadNum)
    BY <1>4, <2>2
  <2>3. QED
    BY <2>1, <2>2
<1>6. /\ disp'[d].conn = disp[d].conn
      /\ \/ disp'[d].pc = "scan" /\ disp'[d].next \in Threads
         \/ disp'[d].pc = "count" /\ disp'[d].thd \in Threads
  BY <1>3, <1>5
<1>7. DispOK'
  BY <1>0, <1>1, <1>2, <1>3, <1>6 DEF DispOK
<1>8. Apart'
  BY <1>0, <1>3, <1>6 DEF Apart
<1>9. QED
  BY <1>1, <1>7, <1>8 DEF IInv, Placed, ConnOK, ClosingOK, PipeOK

\* Counting a connection gives it its only owner.
LEMMA CountWritePlaced ==
  ASSUME IInv, NEW d \in Dispatchers, CountWrite(d) PROVE Placed'
<1> DEFINE c == disp[d].conn
           t == disp[d].thd
<1>0. TypeOK /\ DispOK /\ Apart /\ ConnOK /\ ClosingOK /\ PipeOK
  BY DEF IInv
<1>a. None \notin Conns /\ 0 \notin Threads
  BY HpvPoolAssumption DEF Conns, Threads
<1>1. c \in Conns /\ t \in Threads /\ where[c] = "new"
  BY <1>0 DEF CountWrite, DispOK, TypeOK
<1>2. /\ where' = [where EXCEPT ![c] = "counted"]
      /\ owner' = [owner EXCEPT ![c] = t]
      /\ UNCHANGED <<pipe, closing>>
  BY DEF CountWrite
<1>3. /\ where'[c] = "counted" /\ owner'[c] = t
      /\ \A x \in Conns \ {c} : where'[x] = where[x] /\ owner'[x] = owner[x]
  BY <1>0, <1>1, <1>2 DEF TypeOK
<1>4. /\ disp'[d].pc = "send" /\ disp'[d].conn = c /\ disp'[d].thd = t
      /\ \A e \in Dispatchers \ {d} : disp'[e] = disp[e] /\ disp[e].conn # c
  BY <1>0, <1>1, <1>a DEF CountWrite, TypeOK, Apart
<1>5. DispOK'
  <2>1. \A e \in Dispatchers : disp[e].conn \in Conns \cup {None}
    BY <1>0 DEF TypeOK
  <2>2. QED
    BY <1>0, <1>1, <1>3, <1>4, <1>a, <2>1 DEF DispOK
<1>6. Apart'
  BY <1>0, <1>4 DEF Apart
<1>7. ConnOK'
  BY <1>0, <1>1, <1>3, <1>a DEF ConnOK
<1>8. ClosingOK'
  <2>1. \A u \in Threads : closing[u].conn \in Conns \cup {None}
    BY <1>0 DEF TypeOK
  <2>2. QED
    BY <1>0, <1>1, <1>2, <1>3, <2>1 DEF ClosingOK
<1>9. PipeOK'
  BY <1>0, <1>1, <1>2, <1>3 DEF PipeOK
<1>10. QED
  BY <1>5, <1>6, <1>7, <1>8, <1>9 DEF Placed

\* A command goes to the owner of its connection, or nowhere.
LEMMA SendPlaced ==
  ASSUME IInv, NEW d \in Dispatchers, Send(d) PROVE Placed'
<1> DEFINE c == disp[d].conn
           t == disp[d].thd
<1>0. TypeOK /\ DispOK /\ Apart /\ ConnOK /\ ClosingOK /\ PipeOK
  BY DEF IInv
<1>a. None \notin Conns
  BY HpvPoolAssumption DEF Conns
<1>1. c \in Conns /\ t \in Threads /\ where[c] = "counted" /\ owner[c] = t
  BY <1>0 DEF Send, DispOK, TypeOK
<1>2. UNCHANGED <<owner, closing>>
  BY DEF Send
<1>3. /\ disp'[d] = IdleDisp
      /\ \A e \in Dispatchers \ {d} : disp'[e] = disp[e] /\ disp[e].conn # c
  BY <1>0, <1>1, <1>a DEF Send, TypeOK, Apart
<1>4. /\ where'[c] \in {"sent", "leaked"}
      /\ \A x \in Conns \ {c} : where'[x] = where[x]
  BY <1>0, <1>1 DEF Send, TypeOK
<1>5. DispOK'
  <2>1. \A e \in Dispatchers : disp[e].conn \in Conns \cup {None}
    BY <1>0 DEF TypeOK
  <2>2. QED
    BY <1>0, <1>2, <1>3, <1>4, <1>a, <2>1 DEF DispOK, IdleDisp
<1>6. Apart'
  BY <1>0, <1>3 DEF Apart, IdleDisp
<1>7. ConnOK'
  BY <1>0, <1>1, <1>2, <1>4 DEF ConnOK
<1>8. ClosingOK'
  <2>1. \A u \in Threads : closing[u].conn \in Conns \cup {None}
    BY <1>0 DEF TypeOK
  <2>2. QED
    BY <1>0, <1>1, <1>2, <1>4, <2>1 DEF ClosingOK
<1>9. PipeOK'
  <2>1. CASE listen[t] # "unpaired" /\ Len(pipe[t]) < PipeSize
    <3>1. /\ where'[c] = "sent"
          /\ pipe'[t] = Append(pipe[t], c)
          /\ \A u \in Threads \ {t} : pipe'[u] = pipe[u]
      BY <1>0, <1>1, <2>1 DEF Send, TypeOK
    <3>2. pipe[t] \in Seq(Conns) /\ Once(pipe[t]) /\ c \notin Items(pipe[t])
      BY <1>0, <1>1 DEF TypeOK, PipeOK
    <3>3. Items(pipe'[t]) = Items(pipe[t]) \cup {c} /\ Once(pipe'[t])
      BY <1>1, <3>1, <3>2, AppendItems
    <3>4. \A u \in Threads \ {t}, x \in Conns :
            x \in Items(pipe[u]) <=> where'[x] = "sent" /\ owner'[x] = u
      BY <1>0, <1>1, <1>2, <1>4 DEF PipeOK
    <3>5. \A x \in Conns :
            x \in Items(pipe'[t]) <=> where'[x] = "sent" /\ owner'[x] = t
      <4> HIDE DEF c, t
      <4>1. QED
        BY <1>0, <1>1, <1>2, <1>4, <3>1, <3>3 DEF PipeOK
    <3>6. QED
      BY <1>0, <3>1, <3>3, <3>4, <3>5 DEF PipeOK
  <2>2. CASE ~(listen[t] # "unpaired" /\ Len(pipe[t]) < PipeSize)
    <3>1. where'[c] = "leaked" /\ pipe' = pipe
      BY <1>0, <1>1, <2>2 DEF Send, TypeOK
    <3>2. QED
      BY <1>0, <1>1, <1>2, <1>4, <3>1 DEF PipeOK
  <2>3. QED
    BY <2>1, <2>2
<1>10. QED
  BY <1>5, <1>6, <1>7, <1>8, <1>9 DEF Placed

\* A received command leaves the socket for good.
LEMMA ReadCmdPlaced ==
  ASSUME IInv, NEW t \in Threads, ReadCmd(t) PROVE Placed'
<1> DEFINE c == Head(pipe[t])
<1>0. TypeOK /\ DispOK /\ Apart /\ ConnOK /\ ClosingOK /\ PipeOK
  BY DEF IInv
<1>1. pipe[t] \in Seq(Conns) /\ pipe[t] # <<>> /\ Once(pipe[t])
  BY <1>0 DEF ReadCmd, TypeOK, PipeOK
<1>2. /\ c \in Items(pipe[t])
      /\ Items(Tail(pipe[t])) = Items(pipe[t]) \ {c}
      /\ Once(Tail(pipe[t]))
  BY <1>1, TailItems
<1>3. c \in Conns /\ where[c] = "sent" /\ owner[c] = t
  <2>1. c \in Conns
    BY <1>1
  <2>2. QED
    BY <1>0, <1>2, <2>1 DEF PipeOK
<1>4. /\ where'[c] \in {"leaked", "connecting", "open"}
      /\ \A x \in Conns \ {c} : where'[x] = where[x]
  BY <1>0, <1>3 DEF ReadCmd, TypeOK
<1>5. /\ pipe'[t] = Tail(pipe[t])
      /\ \A u \in Threads \ {t} : pipe'[u] = pipe[u]
      /\ UNCHANGED <<owner, disp, closing>>
  BY <1>0 DEF ReadCmd, TypeOK
<1>6. DispOK' /\ Apart'
  <2>1. \A e \in Dispatchers : disp[e].conn # c \/ disp[e].pc = "idle"
    BY <1>0, <1>3 DEF DispOK, TypeOK
  <2>2. \A e \in Dispatchers : disp[e].conn \in Conns \/ disp[e].pc = "idle"
    BY <1>0 DEF TypeOK, DispOK
  <2>3. DispOK'
    BY <1>0, <1>4, <1>5, <2>1, <2>2 DEF DispOK
  <2>4. QED
    BY <1>0, <1>5, <2>3 DEF Apart
<1>7. ConnOK'
  BY <1>0, <1>3, <1>4, <1>5 DEF ConnOK
<1>8. ClosingOK'
  <2>1. \A u \in Threads : closing[u].conn \in Conns \cup {None}
    BY <1>0 DEF TypeOK
  <2>2. QED
    BY <1>0, <1>3, <1>4, <1>5, <2>1 DEF ClosingOK
<1>9. PipeOK'
  <2> HIDE DEF c
  <2>1. QED
    BY <1>0, <1>2, <1>3, <1>4, <1>5 DEF PipeOK
<1>10. QED
  BY <1>6, <1>7, <1>8, <1>9 DEF Placed

\* A connect event is about a connection in no socket.
LEMMA ConnectedPlaced ==
  ASSUME IInv, NEW t \in Threads, Connected(t) PROVE Placed'
<1>0. TypeOK /\ DispOK /\ Apart /\ ConnOK /\ ClosingOK /\ PipeOK
  BY DEF IInv
<1>1. UNCHANGED <<owner, pipe, disp, closing>>
  BY DEF Connected
<1>2. PICK c \in Conns :
        /\ where[c] = "connecting" /\ where'[c] \in {"open", "leaked"}
        /\ \A x \in Conns \ {c} : where'[x] = where[x]
  BY <1>0 DEF Connected, TypeOK, Conns
<1>3. DispOK' /\ Apart'
  <2>1. \A e \in Dispatchers :
          disp[e].pc = "idle" \/ (disp[e].conn \in Conns /\ disp[e].conn # c)
    BY <1>0, <1>2 DEF DispOK, TypeOK
  <2>2. DispOK'
    BY <1>0, <1>1, <1>2, <2>1 DEF DispOK
  <2>3. QED
    BY <1>0, <1>1, <2>2 DEF Apart
<1>4. ConnOK'
  BY <1>0, <1>1, <1>2 DEF ConnOK
<1>5. ClosingOK'
  <2>1. \A u \in Threads : closing[u].conn \in Conns \cup {None}
    BY <1>0 DEF TypeOK
  <2>2. QED
    BY <1>0, <1>1, <1>2, <2>1 DEF ClosingOK
<1>6. PipeOK'
  BY <1>0, <1>1, <1>2 DEF PipeOK
<1>7. QED
  BY <1>3, <1>4, <1>5, <1>6 DEF Placed

\* A closed connection was in no socket and with no dispatcher.
LEMMA CloseWritePlaced ==
  ASSUME IInv, NEW t \in Threads, CloseWrite(t) PROVE Placed'
<1> DEFINE c == closing[t].conn
<1>0. TypeOK /\ DispOK /\ Apart /\ ConnOK /\ ClosingOK /\ PipeOK
  BY DEF IInv
<1>1. UNCHANGED <<owner, pipe, disp>>
  BY DEF CloseWrite
<1>2. c \in Conns /\ where[c] = "open" /\ owner[c] = t
  BY <1>0 DEF CloseWrite, ClosingOK, TypeOK
<1>3. /\ where'[c] = "closed"
      /\ \A x \in Conns \ {c} : where'[x] = where[x]
  BY <1>0, <1>2 DEF CloseWrite, TypeOK
<1>4. /\ closing'[t].conn = None
      /\ \A u \in Threads \ {t} : closing'[u] = closing[u]
  BY <1>0 DEF CloseWrite, TypeOK
<1>5. DispOK' /\ Apart'
  <2>1. \A e \in Dispatchers :
          disp[e].pc = "idle" \/ (disp[e].conn \in Conns /\ disp[e].conn # c)
    BY <1>0, <1>2 DEF DispOK, TypeOK
  <2>2. DispOK'
    BY <1>0, <1>1, <1>3, <2>1 DEF DispOK
  <2>3. QED
    BY <1>0, <1>1, <2>2 DEF Apart
<1>6. ConnOK'
  BY <1>0, <1>1, <1>2, <1>3 DEF ConnOK
<1>7. ClosingOK'
  <2>1. \A u \in Threads : closing[u].conn \in Conns \cup {None}
    BY <1>0 DEF TypeOK
  <2>2. QED
    BY <1>0, <1>1, <1>2, <1>3, <1>4, <2>1 DEF ClosingOK
<1>8. PipeOK'
  BY <1>0, <1>1, <1>2, <1>3 DEF PipeOK
<1>9. QED
  BY <1>5, <1>6, <1>7, <1>8 DEF Placed

\* Every step keeps connections where they belong.
LEMMA PlacedNext == IInv /\ [Next]_vars => Placed'
<1> SUFFICES ASSUME IInv, [Next]_vars PROVE Placed'
  OBVIOUS
<1>0. TypeOK /\ DispOK /\ Apart /\ ConnOK /\ ClosingOK /\ PipeOK
  BY DEF IInv
<1>1. CASE UNCHANGED <<where, owner, pipe, disp, closing>>
  BY <1>0, <1>1 DEF Placed, DispOK, Apart, ConnOK, ClosingOK, PipeOK
<1>2. ASSUME NEW d \in Dispatchers, Dispatch(d) PROVE Placed'
  <2>1. UNCHANGED <<where, owner, pipe, closing>>
    BY <1>2 DEF Dispatch
  <2>2. PICK c \in Conns :
          /\ where[c] = "new" /\ \A e \in Dispatchers : disp[e].conn # c
          /\ disp' = [disp EXCEPT ![d] =
                        [IdleDisp EXCEPT !.pc = "scan", !.conn = c, !.next = 1]]
    BY <1>2 DEF Dispatch, Conns
  <2>3. /\ disp'[d].pc = "scan" /\ disp'[d].conn = c /\ disp'[d].next = 1
        /\ \A e \in Dispatchers \ {d} : disp'[e] = disp[e]
    BY <1>0, <2>2 DEF TypeOK, IdleDisp
  <2>4. 1 \in Threads /\ c # None
    BY HpvPoolAssumption DEF Threads, Conns
  <2>5. DispOK'
    BY <1>0, <2>1, <2>2, <2>3, <2>4 DEF DispOK
  <2>6. Apart'
    BY <1>0, <2>2, <2>3 DEF Apart
  <2>7. QED
    BY <1>0, <2>1, <2>5, <2>6 DEF Placed, ConnOK, ClosingOK, PipeOK
<1>3. ASSUME NEW d \in Dispatchers, CountRead(d) PROVE Placed'
  <2>1. UNCHANGED <<where, owner, pipe, closing>>
    BY <1>3 DEF CountRead
  <2>2. /\ disp[d].pc = "count" /\ disp'[d].pc = "add"
        /\ disp'[d].conn = disp[d].conn /\ disp'[d].thd = disp[d].thd
        /\ \A e \in Dispatchers \ {d} : disp'[e] = disp[e]
    BY <1>0, <1>3 DEF CountRead, TypeOK
  <2>3. DispOK'
    BY <1>0, <2>1, <2>2 DEF DispOK
  <2>4. Apart'
    BY <1>0, <2>2 DEF Apart
  <2>5. QED
    BY <1>0, <2>1, <2>3, <2>4 DEF Placed, ConnOK, ClosingOK, PipeOK
<1>4. ASSUME NEW t \in Threads, CloseRead(t) PROVE Placed'
  <2>1. UNCHANGED <<where, owner, pipe, disp>>
    BY <1>4 DEF CloseRead
  <2>2. ClosingOK'
    <3>1. PICK c \in Conns :
            /\ owner[c] = t /\ where[c] = "open"
            /\ closing' = [closing EXCEPT ![t] =
                             [conn |-> c, count |-> taskCount_[t]]]
      BY <1>4 DEF CloseRead
    <3>2. /\ closing'[t].conn = c
          /\ \A u \in Threads \ {t} : closing'[u] = closing[u]
      BY <1>0, <3>1 DEF TypeOK
    <3>3. QED
      BY <1>0, <2>1, <3>1, <3>2 DEF ClosingOK
  <2>3. QED
    BY <1>0, <2>1, <2>2 DEF Placed, DispOK, Apart, ConnOK, PipeOK
<1>5. ASSUME NEW t \in Threads, Spawn(t) \/ Construct(t) \/ Run(t) PROVE Placed'
  BY <1>1, <1>5 DEF Spawn, Construct, Run
<1>6. CASE UNCHANGED vars
  BY <1>1, <1>6 DEF vars
<1>7. QED
  BY <1>2, <1>3, <1>4, <1>5, <1>6, ScanPlaced, CountWritePlaced, SendPlaced,
     ReadCmdPlaced, ConnectedPlaced, CloseWritePlaced DEF Next, Execute
-----------------------------------------------------------------------------
\* A step that gives no connection an owner and closes none leaves every load.
LEMMA LoadKept ==
  ASSUME CountExactUnlessRaced, UNCHANGED <<taskCount_, raced, owner>>,
         \A c \in Conns : where'[c] = "closed" <=> where[c] = "closed"
  PROVE  CountExactUnlessRaced'
<1>1. \A t \in Threads : Load(t)' = Load(t)
  BY DEF Load
<1>2. QED
  BY <1>1 DEF CountExactUnlessRaced

\* A counted connection is one more for its thread and for no other.
LEMMA CountWriteCounts ==
  ASSUME IInv, NEW d \in Dispatchers, CountWrite(d) PROVE CountExactUnlessRaced'
<1> DEFINE c == disp[d].conn
           t == disp[d].thd
<1>0. TypeOK /\ DispOK /\ ConnOK /\ CountExactUnlessRaced
  BY DEF IInv
<1>1. c \in Conns /\ t \in Threads /\ where[c] = "new" /\ owner[c] = 0
  BY <1>0 DEF CountWrite, DispOK, TypeOK, ConnOK
<1>2. /\ where'[c] = "counted" /\ owner'[c] = t
      /\ \A x \in Conns \ {c} : where'[x] = where[x] /\ owner'[x] = owner[x]
  BY <1>0, <1>1 DEF CountWrite, TypeOK
<1>3. c \notin Loaded(t) /\ 0 \notin Threads
  BY <1>1 DEF Loaded, Threads
<1>4. \A u \in Threads : u = t => Loaded(u)' = Loaded(u) \cup {c}
  BY <1>1, <1>2 DEF Loaded
<1>5. \A u \in Threads \ {t} : Loaded(u)' = Loaded(u)
  BY <1>1, <1>2, <1>3 DEF Loaded
<1>6. /\ taskCount_' = [taskCount_ EXCEPT ![t] = disp[d].read + 1]
      /\ raced' = IF taskCount_[t] = disp[d].read THEN raced ELSE raced \cup {t}
  BY DEF CountWrite, Write
<1> SUFFICES ASSUME NEW u \in Threads \ raced'
             PROVE  taskCount_'[u] = Cardinality(Loaded(u)')
  BY DEF CountExactUnlessRaced, Load, Loaded
<1>7. u \in Threads /\ u \notin raced /\ taskCount_[u] = Cardinality(Loaded(u))
  BY <1>0, <1>6 DEF CountExactUnlessRaced, Load, Loaded
<1>8. CASE u = t
  <2>1. taskCount_[t] = disp[d].read
    BY <1>6, <1>8
  <2>2. taskCount_'[t] = taskCount_[t] + 1
    BY <1>0, <1>1, <1>6, <2>1 DEF TypeOK
  <2>3. Cardinality(Loaded(u) \cup {c}) = Cardinality(Loaded(u)) + 1
    <3>1. c \notin Loaded(u) /\ IsFiniteSet(Loaded(u))
      BY <1>3, <1>7, <1>8, LoadedFinite
    <3>2. QED
      BY <3>1, FS_AddElement
  <2>4. QED
    BY <1>4, <1>7, <1>8, <2>2, <2>3
<1>9. CASE u # t
  <2>1. taskCount_'[u] = taskCount_[u]
    BY <1>0, <1>6, <1>7, <1>9 DEF TypeOK
  <2>2. QED
    BY <1>5, <1>7, <1>9, <2>1
<1>10. QED
  BY <1>8, <1>9

\* A closed connection is one less for its thread and for no other.
LEMMA CloseWriteCounts ==
  ASSUME IInv, NEW t \in Threads, CloseWrite(t) PROVE CountExactUnlessRaced'
<1> DEFINE c == closing[t].conn
<1>0. TypeOK /\ ClosingOK /\ CountExactUnlessRaced
  BY DEF IInv
<1>1. c \in Conns /\ where[c] = "open" /\ owner[c] = t
  BY <1>0 DEF CloseWrite, ClosingOK, TypeOK
<1>2. /\ where'[c] = "closed" /\ owner' = owner
      /\ \A x \in Conns \ {c} : where'[x] = where[x]
  BY <1>0, <1>1 DEF CloseWrite, TypeOK
<1>3. c \in Loaded(t)
  BY <1>1 DEF Loaded
<1>4. Loaded(t)' = Loaded(t) \ {c}
  BY <1>1, <1>2 DEF Loaded
<1>5. \A u \in Threads \ {t} : Loaded(u)' = Loaded(u)
  BY <1>1, <1>2 DEF Loaded
<1>6. /\ taskCount_' = [taskCount_ EXCEPT ![t] = closing[t].count - 1]
      /\ raced' = IF taskCount_[t] = closing[t].count THEN raced
                  ELSE raced \cup {t}
  BY DEF CloseWrite, Write
<1> SUFFICES ASSUME NEW u \in Threads \ raced'
             PROVE  taskCount_'[u] = Cardinality(Loaded(u)')
  BY DEF CountExactUnlessRaced, Load, Loaded
<1>7. u \in Threads /\ u \notin raced /\ taskCount_[u] = Cardinality(Loaded(u))
  BY <1>0, <1>6 DEF CountExactUnlessRaced, Load, Loaded
<1>8. CASE u = t
  <2>1. taskCount_[t] = closing[t].count
    BY <1>6, <1>8
  <2>2. taskCount_'[t] = taskCount_[t] - 1
    BY <1>0, <1>6, <2>1 DEF TypeOK
  <2>3. Cardinality(Loaded(t) \ {c}) = Cardinality(Loaded(t)) - 1
    BY <1>3, LoadedFinite, FS_RemoveElement
  <2>4. QED
    BY <1>4, <1>7, <1>8, <2>2, <2>3
<1>9. CASE u # t
  <2>1. taskCount_'[u] = taskCount_[u]
    BY <1>0, <1>6, <1>7, <1>9 DEF TypeOK
  <2>2. QED
    BY <1>5, <1>7, <1>9, <2>1
<1>10. QED
  BY <1>8, <1>9

\* Every step keeps the counts right.
LEMMA CountNext == IInv /\ [Next]_vars => CountExactUnlessRaced'
<1> SUFFICES ASSUME IInv, [Next]_vars PROVE CountExactUnlessRaced'
  OBVIOUS
<1>0. TypeOK /\ DispOK /\ PipeOK /\ CountExactUnlessRaced
  BY DEF IInv
<1>1. CASE UNCHANGED <<taskCount_, raced, owner, where>>
  BY <1>0, <1>1, LoadKept
<1>2. ASSUME NEW t \in Threads, Spawn(t) \/ Construct(t) \/ Run(t) \/ CloseRead(t)
      PROVE  CountExactUnlessRaced'
  BY <1>1, <1>2 DEF Spawn, Construct, Run, CloseRead
<1>3. ASSUME NEW d \in Dispatchers, Dispatch(d) \/ Scan(d) \/ CountRead(d)
      PROVE  CountExactUnlessRaced'
  BY <1>1, <1>3 DEF Dispatch, Scan, CountRead
<1>4. ASSUME NEW d \in Dispatchers, Send(d) PROVE CountExactUnlessRaced'
  <2>1. where[disp[d].conn] = "counted"
    BY <1>0, <1>4 DEF Send, DispOK
  <2>2. \A c \in Conns : where'[c] = "closed" <=> where[c] = "closed"
    BY <1>0, <1>4, <2>1 DEF Send, TypeOK
  <2>3. QED
    BY <1>0, <1>4, <2>2, LoadKept DEF Send
<1>5. ASSUME NEW t \in Threads, ReadCmd(t) PROVE CountExactUnlessRaced'
  <2>1. where[Head(pipe[t])] = "sent"
    <3>1. /\ pipe[t] \in Seq(Conns) /\ pipe[t] # <<>> /\ Once(pipe[t])
      BY <1>0, <1>5 DEF ReadCmd, TypeOK, PipeOK
    <3>2. Head(pipe[t]) \in Conns /\ Head(pipe[t]) \in Items(pipe[t])
      BY <3>1, TailItems
    <3>3. QED
      BY <1>0, <3>2 DEF PipeOK
  <2>2. \A c \in Conns : where'[c] = "closed" <=> where[c] = "closed"
    BY <1>0, <1>5, <2>1 DEF ReadCmd, TypeOK
  <2>3. QED
    BY <1>0, <1>5, <2>2, LoadKept DEF ReadCmd
<1>6. ASSUME NEW t \in Threads, Connected(t) PROVE CountExactUnlessRaced'
  <2>1. \A c \in Conns : where'[c] = "closed" <=> where[c] = "closed"
    BY <1>0, <1>6 DEF Connected, TypeOK
  <2>2. QED
    BY <1>0, <1>6, <2>1, LoadKept DEF Connected
<1>7. CASE UNCHANGED vars
  BY <1>1, <1>7 DEF vars
<1>8. QED
  BY <1>2, <1>3, <1>4, <1>5, <1>6, <1>7, CountWriteCounts, CloseWriteCounts
     DEF Next, Execute

LEMMA IInvAlways == Spec => []IInv
<1>1. IInv /\ [Next]_vars => IInv'
  BY TypeNext, PlacedNext, CountNext DEF IInv, Placed
<1>2. QED
  BY <1>1, IInvInit, PTL DEF Spec
-----------------------------------------------------------------------------
\* In every behaviour a connection waits at most once, in the socket of its
\* owner alone, and exactly as long as nobody has received it.
THEOREM OwnedOnce == Spec => []OneOwner
<1>1. IInv => OneOwner
  <2> SUFFICES ASSUME IInv, NEW c \in Conns, NEW t \in Threads
               PROVE  Cardinality({i \in 1 .. Len(pipe[t]) : pipe[t][i] = c})
                        = IF where[c] = "sent" /\ owner[c] = t THEN 1 ELSE 0
    BY DEF IInv, OneOwner
  <2> DEFINE at == {i \in 1 .. Len(pipe[t]) : pipe[t][i] = c}
  <2>1. /\ Once(pipe[t])
        /\ c \in Items(pipe[t]) <=> where[c] = "sent" /\ owner[c] = t
    BY DEF IInv, PipeOK
  <2>2. CASE c \in Items(pipe[t])
    <3>1. PICK i \in 1 .. Len(pipe[t]) : pipe[t][i] = c
      BY <2>2 DEF Items
    <3>2. at = {i}
      BY <2>1, <3>1 DEF Once
    <3>3. Cardinality(at) = 1
      BY <3>2, FS_Singleton
    <3>4. QED
      BY <2>1, <2>2, <3>3
  <2>3. CASE c \notin Items(pipe[t])
    <3>1. at = {}
      BY <2>3 DEF Items
    <3>2. Cardinality(at) = 0
      BY <3>1, FS_EmptySet
    <3>3. QED
      BY <2>1, <2>3, <3>2
  <2>4. QED
    BY <2>2, <2>3
<1>2. QED
  BY <1>1, IInvAlways, PTL

\* In every behaviour taskCount_ is the number of connections the thread has,
\* unless two unlocked updates of it overlapped.
THEOREM CountExact == Spec => []CountExactUnlessRaced
<1>1. IInv => CountExactUnlessRaced
  BY DEF IInv
<1>2. QED
  BY <1>1, IInvAlways, PTL
-----------------------------------------------------------------------------
\* While no update was lost and nothing is closed the counts only grow.
Growing == raced = {} /\ \A c \in Conns : where[c] # "closed"

\* What a dispatcher's scan found is still the smallest of what it has seen.
Smallest ==
  \A d \in Dispatchers :
    /\ disp[d].pc = "scan" /\ disp[d].thd = 0 => disp[d].next = 1
    /\ disp[d].pc = "scan" /\ disp[d].thd # 0 =>
         \A u \in Threads : u < disp[d].next => disp[d].min <= taskCount_[u]
    /\ disp[d].pc \in {"count", "add"} =>
         \A u \in Threads : disp[d].min <= taskCount_[u]

\* The dispatchers that are about to count thread t, having seen k or less.
Aiming(t, k) ==
  {d \in Dispatchers : /\ disp[d].pc \in {"scan", "count", "add"}
                       /\ disp[d].thd = t /\ disp[d].min <= k}

\* Counted or about to be, a thread has at most one connection per dispatcher
\* more than any other.
Leaning ==
  \A t, u \in Threads, k \in Int :
    k >= taskCount_[u] =>
      taskCount_[t] + Cardinality(Aiming(t, k)) <= k + Cardinality(Dispatchers)

BInv == Growing => Smallest /\ Leaning

\* There are finitely many dispatchers, so their subsets have a size.
LEMMA AimingFinite ==
  \A S \in SUBSET Dispatchers :
    /\ IsFiniteSet(S) /\ Cardinality(S) \in Nat
    /\ Cardinality(S) <= Cardinality(Dispatchers)
    /\ Cardinality(Dispatchers) \in Nat
<1>1. IsFiniteSet(Dispatchers)
  BY HpvPoolAssumption, FS_Singleton, FS_Union DEF Dispatchers
<1> QED BY <1>1, FS_Subset, FS_CardinalityType

\* Before anything happens.
LEMMA BInvInit == Init => BInv
<1> SUFFICES ASSUME Init PROVE Smallest /\ Leaning
  BY DEF BInv
<1>1. \A d \in Dispatchers : disp[d].pc = "idle"
  BY DEF Init, IdleDisp
<1>2. Smallest
  BY <1>1 DEF Smallest
<1>3. \A t \in Threads, k \in Int : Aiming(t, k) = {}
  BY <1>1 DEF Aiming
<1>4. Leaning
  <2> SUFFICES ASSUME NEW t \in Threads, NEW u \in Threads, NEW k \in Int,
                      k >= taskCount_[u]
               PROVE  taskCount_[t] + Cardinality(Aiming(t, k))
                        <= k + Cardinality(Dispatchers)
    BY DEF Leaning
  <2>1. taskCount_[t] = 0 /\ k >= 0
    BY DEF Init
  <2>2. Cardinality(Aiming(t, k)) = 0 /\ Cardinality(Dispatchers) \in Nat
    BY <1>3, FS_EmptySet, AimingFinite
  <2> QED BY <2>1, <2>2
<1> QED BY <1>2, <1>4

\* A step that changes neither a count nor what a scan has found.
LEMMA BInvStays ==
  ASSUME TypeOK, BInv, UNCHANGED taskCount_, Growing' => Growing,
         \A d \in Dispatchers :
           \/ disp'[d].pc \notin {"scan", "count", "add"}
           \/ /\ \/ disp'[d].pc = disp[d].pc
                 \/ disp[d].pc = "count" /\ disp'[d].pc = "add"
              /\ disp'[d].thd = disp[d].thd /\ disp'[d].min = disp[d].min
              /\ disp'[d].next = disp[d].next
           \/ disp'[d].pc = "scan" /\ disp'[d].thd = 0 /\ disp'[d].next = 1
  PROVE  BInv'
<1> SUFFICES ASSUME Smallest, Leaning PROVE Smallest' /\ Leaning'
  BY DEF BInv
<1>0. taskCount_ \in [Threads -> Int]
  BY DEF TypeOK
<1>1. Smallest'
  BY DEF Smallest
<1>2. \A t \in Threads, k \in Int : Aiming(t, k)' \subseteq Aiming(t, k)
  <2>1. 0 \notin Threads
    BY DEF Threads
  <2> QED BY <2>1 DEF Aiming
<1>3. Leaning'
  <2> SUFFICES ASSUME NEW t \in Threads, NEW u \in Threads, NEW k \in Int,
                      k >= taskCount_[u]
               PROVE  taskCount_[t] + Cardinality(Aiming(t, k)')
                        <= k + Cardinality(Dispatchers)
    BY DEF Leaning
  <2>1. taskCount_[t] + Cardinality(Aiming(t, k)) <= k + Cardinality(Dispatchers)
    BY DEF Leaning
  <2>2. /\ Cardinality(Aiming(t, k)) \in Nat
        /\ Cardinality(Aiming(t, k)') <= Cardinality(Aiming(t, k))
        /\ Cardinality(Aiming(t, k)') \in Nat
    <3>1. IsFiniteSet(Aiming(t, k))
      BY AimingFinite DEF Aiming
    <3> QED BY <1>2, <3>1, FS_Subset, FS_CardinalityType
  <2>3. taskCount_[t] \in Int /\ Cardinality(Dispatchers) \in Nat
    BY <1>0, AimingFinite
  <2> QED BY <2>1, <2>2, <2>3
<1> QED BY <1>1, <1>3

\* A turn of the scan: the dispatcher aims at the thread it found, if that is
\* a new one, with no more than the others aim at the others.
LEMMA ScanBalanced ==
  ASSUME IInv, BInv, NEW d \in Dispatchers, Scan(d)
  PROVE  BInv'
<1>1. UNCHANGED <<taskCount_, raced, where>>
  BY DEF Scan
<1> SUFFICES ASSUME Smallest, Leaning PROVE Smallest' /\ Leaning'
  BY <1>1 DEF BInv, Growing
<1>0. TypeOK /\ DispOK /\ taskCount_ \in [Threads -> Int]
  BY DEF IInv, TypeOK
<1>a. ThreadNum \in Nat \ {0}
  BY HpvPoolAssumption
<1> DEFINE s == disp[d]
           n == taskCount_[s.next]
           seen == IF Better(n, s)
                   THEN [s EXCEPT !.min = n, !.thd = s.next] ELSE s
           done == IF s.next < ThreadNum THEN [seen EXCEPT !.next = @ + 1]
                   ELSE [seen EXCEPT !.pc = "count"]
           Type == [pc : {"idle", "scan", "count", "add", "send"},
                    conn : Conns \cup {None}, next : 0 .. ThreadNum, min : Int,
                    thd : 0 .. ThreadNum, read : Int]
<1>2. s \in Type /\ s.pc = "scan" /\ s.next \in Threads /\ n \in Int
  BY <1>0 DEF TypeOK, DispOK, Scan
<1>3. disp'[d] = done /\ \A e \in Dispatchers \ {d} : disp'[e] = disp[e]
  BY <1>0 DEF Scan, TypeOK
<1> DEFINE m == IF Better(n, s) THEN n ELSE s.min
           h == IF Better(n, s) THEN s.next ELSE s.thd
<1>4. seen \in Type /\ seen.min = m /\ seen.thd = h /\ seen.next = s.next
      /\ seen.pc = "scan"
  <2>1. s.next \in 0 .. ThreadNum
    BY <1>2
  <2> QED BY <1>2, <2>1
<1>5. /\ done.min = m /\ done.thd = h
      /\ done.pc \in {"scan", "count"}
      /\ done.pc = "scan" => done.next = s.next + 1
      /\ done.pc = "count" => ~(s.next < ThreadNum)
  <2> HIDE DEF seen, m, h, s
  <2> QED BY <1>4
<1>6. h # 0 /\ m \in Int
  BY <1>a, <1>2 DEF Threads, Better
<1>7. \A u \in Threads : u < s.next + 1 => m <= taskCount_[u]
  <2> SUFFICES ASSUME NEW u \in Threads, u < s.next + 1
               PROVE  m <= taskCount_[u]
    OBVIOUS
  <2>1. u < s.next \/ u = s.next
    BY <1>2 DEF Threads
  <2>2. taskCount_[u] \in Int /\ s.min \in Int
    BY <1>0, <1>2
  <2>3. u < s.next => s.thd # 0 /\ s.min <= taskCount_[u]
    <3> SUFFICES ASSUME u < s.next PROVE s.thd # 0 /\ s.min <= taskCount_[u]
      OBVIOUS
    <3>1. s.thd = 0 => s.next = 1
      BY <1>2 DEF Smallest
    <3>2. s.next # 1
      BY DEF Threads
    <3> QED BY <1>2, <3>1, <3>2 DEF Smallest
  <2>4. CASE Better(n, s)
    <3>1. m = n
      BY <2>4
    <3>2. s.thd # 0 => n < s.min
      BY <2>4 DEF Better
    <3> HIDE DEF m, s, n
    <3> QED BY <1>2, <2>1, <2>2, <2>3, <3>1, <3>2 DEF n
  <2>5. CASE ~Better(n, s)
    <3>1. m = s.min /\ ~(n < s.min)
      BY <2>5 DEF Better
    <3> HIDE DEF m, s, n
    <3> QED BY <1>2, <2>1, <2>2, <2>3, <3>1 DEF n
  <2> QED BY <2>4, <2>5
<1> HIDE DEF s, n, seen, done, m, h, Type
<1>8. Smallest'
  <2>1. ASSUME done.pc = "scan"
        PROVE  done.thd # 0 /\ \A u \in Threads : u < done.next => done.min <= taskCount_[u]
    BY <1>5, <1>6, <1>7, <2>1
  <2>2. ASSUME done.pc = "count"
        PROVE  \A u \in Threads : done.min <= taskCount_[u]
    <3>1. \A u \in Threads : u < s.next + 1
      BY <1>2, <1>5, <1>a, <2>2 DEF Threads
    <3> QED BY <1>5, <1>7, <3>1
  <2> QED BY <1>1, <1>3, <1>5, <2>1, <2>2 DEF Smallest
<1>9. Leaning'
  <2> SUFFICES ASSUME NEW t \in Threads, NEW u \in Threads, NEW k \in Int,
                      k >= taskCount_[u]
               PROVE  taskCount_[t] + Cardinality(Aiming(t, k)')
                        <= k + Cardinality(Dispatchers)
    BY <1>1 DEF Leaning
  <2>0. taskCount_[t] \in Int /\ Cardinality(Dispatchers) \in Nat
    BY <1>0, AimingFinite
  <2>1. Aiming(t, k)' \subseteq Dispatchers
    BY DEF Aiming
  <2>2. Cardinality(Aiming(t, k)') \in Nat
        /\ Cardinality(Aiming(t, k)') <= Cardinality(Dispatchers)
    BY <2>1, AimingFinite
  <2>3. CASE taskCount_[t] <= k
    BY <2>0, <2>2, <2>3
  <2>4. CASE taskCount_[t] > k
    <3>1. Aiming(t, k)' \subseteq Aiming(t, k)
      <4> SUFFICES ASSUME done.thd = t, done.min <= k
                   PROVE  s.thd = t /\ s.min <= k
        BY <1>2, <1>3 DEF Aiming, s
      <4>1. ~Better(n, s)
        <5> SUFFICES ASSUME Better(n, s) PROVE FALSE
          OBVIOUS
        <5>1. m = n /\ h = s.next
          BY DEF m, h
        <5>2. taskCount_[t] <= k
          BY <1>5, <5>1 DEF n
        <5> QED BY <2>0, <2>4, <5>2
      <4> QED BY <1>5, <4>1 DEF m, h
    <3>2. taskCount_[t] + Cardinality(Aiming(t, k))
            <= k + Cardinality(Dispatchers)
      BY DEF Leaning
    <3>3. /\ Cardinality(Aiming(t, k)) \in Nat
          /\ Cardinality(Aiming(t, k)') <= Cardinality(Aiming(t, k))
      <4>1. IsFiniteSet(Aiming(t, k))
        BY AimingFinite DEF Aiming
      <4> QED BY <3>1, <4>1, FS_Subset, FS_CardinalityType
    <3> QED BY <2>0, <2>2, <3>2, <3>3
  <2> QED BY <2>0, <2>3, <2>4
<1> QED BY <1>8, <1>9

\* A dispatcher counts: the thread has one connection more and one dispatcher
\* less aims at it.
LEMMA CountWriteBalanced ==
  ASSUME IInv, BInv, NEW d \in Dispatchers, CountWrite(d), Growing'
  PROVE  Smallest' /\ Leaning'
<1> DEFINE t == disp[d].thd
           c == disp[d].conn
<1>0. TypeOK /\ DispOK /\ taskCount_ \in [Threads -> Int]
  BY DEF IInv, TypeOK
<1>1. /\ disp[d].pc = "add" /\ t \in Threads /\ c \in Conns
      /\ where[c] = "new"
  BY <1>0 DEF CountWrite, DispOK, TypeOK
<1>2. /\ raced = {} /\ taskCount_[t] = disp[d].read
      /\ taskCount_' = [taskCount_ EXCEPT ![t] = disp[d].read + 1]
  BY DEF CountWrite, Write, Growing
<1>3. \A x \in Conns : where[x] # "closed"
  BY <1>0, <1>1 DEF CountWrite, Growing, TypeOK
<1>4. Smallest /\ Leaning
  BY <1>2, <1>3 DEF BInv, Growing
<1>5. \A u \in Threads :
        /\ taskCount_[u] \in Int
        /\ taskCount_'[u] = IF u = t THEN taskCount_[u] + 1 ELSE taskCount_[u]
  BY <1>0, <1>1, <1>2
<1>6. /\ disp'[d].pc = "send"
      /\ \A e \in Dispatchers \ {d} : disp'[e] = disp[e]
  BY <1>0 DEF CountWrite, TypeOK
<1>7. \A e \in Dispatchers : disp[e].min \in Int
  BY <1>0 DEF TypeOK
<1>8. Smallest'
  BY <1>4, <1>5, <1>6, <1>7 DEF Smallest
<1>9. Leaning'
  <2> SUFFICES ASSUME NEW v \in Threads, NEW u \in Threads, NEW k \in Int,
                      k >= taskCount_'[u]
               PROVE  taskCount_'[v] + Cardinality(Aiming(v, k)')
                        <= k + Cardinality(Dispatchers)
    BY DEF Leaning
  <2>1. k >= taskCount_[u]
    BY <1>5
  <2>2. taskCount_[v] + Cardinality(Aiming(v, k)) <= k + Cardinality(Dispatchers)
    BY <1>4, <2>1 DEF Leaning
  <2>3. /\ IsFiniteSet(Aiming(v, k)) /\ Cardinality(Aiming(v, k)) \in Nat
        /\ Cardinality(Dispatchers) \in Nat
    BY AimingFinite DEF Aiming
  <2>4. Aiming(v, k)' = Aiming(v, k) \ {d}
    BY <1>6 DEF Aiming
  <2>5. d \in Aiming(t, k)
    <3>1. disp[d].min <= taskCount_[u]
      BY <1>1, <1>4 DEF Smallest
    <3>2. disp[d].min <= k
      BY <1>5, <1>7, <2>1, <3>1
    <3> QED BY <1>1, <3>2 DEF Aiming
  <2>6. CASE v = t
    <3>1. Cardinality(Aiming(v, k)') = Cardinality(Aiming(v, k)) - 1
      BY <2>3, <2>4, <2>5, <2>6, FS_RemoveElement
    <3> QED BY <1>5, <2>2, <2>3, <2>6, <3>1
  <2>7. CASE v # t
    <3>1. Cardinality(Aiming(v, k)') <= Cardinality(Aiming(v, k))
          /\ Cardinality(Aiming(v, k)') \in Nat
      BY <2>3, <2>4, FS_Subset, FS_CardinalityType
    <3> QED BY <1>5, <2>2, <2>3, <2>7, <3>1
  <2> QED BY <2>6, <2>7
<1> QED BY <1>8, <1>9

\* Every step keeps the threads balanced.
LEMMA BInvNext == IInv /\ BInv /\ [Next]_vars => BInv'
<1> SUFFICES ASSUME IInv, BInv, [Next]_vars PROVE BInv'
  OBVIOUS
<1>0. TypeOK /\ DispOK /\ ClosingOK
  BY DEF IInv
<1>1. CASE UNCHANGED <<taskCount_, disp, raced>>
           /\ (\A c \in Conns : where[c] = "closed" => where'[c] = "closed")
  <2>1. Growing' => Growing
    BY <1>1 DEF Growing
  <2>2. \A d \in Dispatchers :
          /\ disp'[d].pc = disp[d].pc /\ disp'[d].thd = disp[d].thd
          /\ disp'[d].min = disp[d].min /\ disp'[d].next = disp[d].next
    BY <1>1
  <2> QED BY <1>0, <1>1, <2>1, <2>2, BInvStays
<1>2. CASE UNCHANGED vars
  BY <1>1, <1>2 DEF vars
<1>3. ASSUME NEW t \in Threads, Spawn(t) \/ Construct(t) \/ Run(t) \/ CloseRead(t)
      PROVE  BInv'
  BY <1>1, <1>3 DEF Spawn, Construct, Run, CloseRead
<1>4. ASSUME NEW t \in Threads, ReadCmd(t) \/ Connected(t) PROVE BInv'
  <2>1. UNCHANGED <<taskCount_, disp, raced>>
    BY <1>4 DEF ReadCmd, Connected
  <2>2. \A c \in Conns : where[c] = "closed" => where'[c] = "closed"
    <3>1. CASE ReadCmd(t)
      <4>1. where[Head(pipe[t])] = "sent"
        <5>1. /\ pipe[t] \in Seq(Conns) /\ pipe[t] # <<>> /\ Once(pipe[t])
          BY <1>0, <3>1 DEF ReadCmd, TypeOK, PipeOK, IInv
        <5>2. Head(pipe[t]) \in Conns /\ Head(pipe[t]) \in Items(pipe[t])
          BY <5>1, TailItems
        <5> QED BY <5>2 DEF PipeOK, IInv
      <4> QED BY <1>0, <3>1, <4>1 DEF ReadCmd, TypeOK
    <3>2. CASE Connected(t)
      BY <1>0, <3>2 DEF Connected, TypeOK
    <3> QED BY <1>4, <3>1, <3>2
  <2> QED BY <1>1, <2>1, <2>2
<1>5. ASSUME NEW t \in Threads, CloseWrite(t) PROVE BInv'
  <2>1. closing[t].conn \in Conns /\ where'[closing[t].conn] = "closed"
    BY <1>0, <1>5 DEF CloseWrite, TypeOK
  <2> QED BY <2>1 DEF BInv, Growing
<1>6. ASSUME NEW d \in Dispatchers, Dispatch(d) PROVE BInv'
  <2>1. PICK c : disp' = [disp EXCEPT ![d] =
                   [IdleDisp EXCEPT !.pc = "scan", !.conn = c, !.next = 1]]
    BY <1>6 DEF Dispatch
  <2>2. /\ disp'[d].pc = "scan" /\ disp'[d].thd = 0 /\ disp'[d].next = 1
        /\ \A e \in Dispatchers \ {d} : disp'[e] = disp[e]
    BY <1>0, <2>1 DEF TypeOK, IdleDisp
  <2>3. UNCHANGED <<taskCount_, raced, where>>
    BY <1>6 DEF Dispatch
  <2>4. Growing' => Growing
    BY <2>3 DEF Growing
  <2> QED BY <1>0, <2>2, <2>3, <2>4, BInvStays
<1>7. ASSUME NEW d \in Dispatchers, CountRead(d) PROVE BInv'
  <2>1. /\ disp[d].pc = "count" /\ disp'[d].pc = "add"
        /\ disp'[d].thd = disp[d].thd /\ disp'[d].min = disp[d].min
        /\ disp'[d].next = disp[d].next
        /\ \A e \in Dispatchers \ {d} : disp'[e] = disp[e]
    BY <1>0, <1>7 DEF CountRead, TypeOK
  <2>2. UNCHANGED <<taskCount_, raced, where>>
    BY <1>7 DEF CountRead
  <2>3. Growing' => Growing
    BY <2>2 DEF Growing
  <2> QED BY <1>0, <2>1, <2>2, <2>3, BInvStays
<1>8. ASSUME NEW d \in Dispatchers, CountWrite(d) PROVE BInv'
  BY <1>8, CountWriteBalanced DEF BInv
<1>9. ASSUME NEW d \in Dispatchers, Send(d) PROVE BInv'
  <2>1. /\ disp'[d].pc = "idle"
        /\ \A e \in Dispatchers \ {d} : disp'[e] = disp[e]
    BY <1>0, <1>9 DEF Send, TypeOK, IdleDisp
  <2>2. where[disp[d].conn] = "counted"
    BY <1>0, <1>9 DEF Send, DispOK
  <2>3. \A c \in Conns : where[c] = "closed" => where'[c] = "closed"
    BY <1>0, <1>9, <2>2 DEF Send, TypeOK
  <2>4. UNCHANGED <<taskCount_, raced>>
    BY <1>9 DEF Send
  <2>5. Growing' => Growing
    BY <2>3, <2>4 DEF Growing
  <2> QED BY <1>0, <2>1, <2>4, <2>5, BInvStays
<1> QED
  BY <1>2, <1>3, <1>4, <1>5, <1>6, <1>7, <1>8, <1>9, ScanBalanced
     DEF Next, Execute

\* However the unlocked scans interleave, the counts of two threads differ by
\* at most one for each dispatcher, as long as no update is lost and nothing
\* is closed.
THEOREM StaysBalanced == Spec => []Balanced
<1>1. IInv /\ BInv => Balanced
  <2> SUFFICES ASSUME TypeOK, Leaning, NEW t \in Threads, NEW u \in Threads
               PROVE  taskCount_[t] - taskCount_[u] <= Cardinality(Dispatchers)
    BY DEF IInv, BInv, Growing, Balanced
  <2>1. taskCount_[t] \in Int /\ taskCount_[u] \in Int
    BY DEF TypeOK
  <2> DEFINE k == taskCount_[u]
  <2>2. k >= taskCount_[u]
    BY <2>1
  <2>3. taskCount_[t] + Cardinality(Aiming(t, k)) <= k + Cardinality(Dispatchers)
    BY <2>1, <2>2 DEF Leaning
  <2>4. Cardinality(Aiming(t, k)) \in Nat /\ Cardinality(Dispatchers) \in Nat
    BY AimingFinite DEF Aiming
  <2> QED BY <2>1, <2>3, <2>4
<1> QED BY <1>1, BInvInit, BInvNext, IInvAlways, PTL DEF Spec
-----------------------------------------------------------------------------
\* A closed connection stays closed.
LEMMA ClosedForGood ==
  ASSUME IInv, [Next]_vars, NEW c \in Conns, where[c] = "closed"
  PROVE  where'[c] = "closed"
<1>1. TypeOK /\ DispOK /\ ClosingOK /\ PipeOK
  BY DEF IInv
<1>2. ASSUME NEW d \in Dispatchers, CountWrite(d) PROVE where'[c] = "closed"
  <2>1. where[disp[d].conn] = "new"
    BY <1>1, <1>2 DEF CountWrite, DispOK
  <2>2. QED
    BY <1>1, <1>2, <2>1 DEF CountWrite, TypeOK
<1>3. ASSUME NEW d \in Dispatchers, Send(d) PROVE where'[c] = "closed"
  <2>1. where[disp[d].conn] = "counted"
    BY <1>1, <1>3 DEF Send, DispOK
  <2>2. QED
    BY <1>1, <1>3, <2>1 DEF Send, TypeOK
<1>4. ASSUME NEW t \in Threads, ReadCmd(t) PROVE where'[c] = "closed"
  <2>1. pipe[t] \in Seq(Conns) /\ pipe[t] # <<>> /\ Once(pipe[t])
    BY <1>1, <1>4 DEF ReadCmd, TypeOK, PipeOK
  <2>2. Head(pipe[t]) \in Conns /\ Head(pipe[t]) \in Items(pipe[t])
    BY <2>1, TailItems
  <2>3. where[Head(pipe[t])] = "sent"
    BY <1>1, <2>2 DEF PipeOK
  <2>4. QED
    BY <1>1, <1>4, <2>3 DEF ReadCmd, TypeOK
<1>5. ASSUME NEW t \in Threads, Connected(t) \/ CloseWrite(t)
      PROVE  where'[c] = "closed"
  BY <1>1, <1>5 DEF Connected, CloseWrite, TypeOK
<1>6. CASE UNCHANGED where
  BY <1>6
<1>7. QED
  BY <1>2, <1>3, <1>4, <1>5, <1>6
     DEF Next, Execute, vars, Spawn, Construct, Run, Dispatch, Scan, CountRead,
         CloseRead

\* Until a connection is closed the acceptor alone writes taskCount_, and what
\* it read is still there when it writes.
AloneInv ==
  (\A c \in Conns : where[c] # "closed") =>
    /\ raced = {}
    /\ disp[Acceptor].pc = "add" =>
         disp[Acceptor].read = taskCount_[disp[Acceptor].thd]

\* Every step keeps that, if nobody calls addServer.
LEMMA AloneNext ==
  ASSUME Users = {}, IInv, AloneInv, [Next]_vars
  PROVE  AloneInv'
<1> SUFFICES ASSUME \A c \in Conns : where'[c] # "closed"
             PROVE  /\ raced' = {}
                    /\ disp'[Acceptor].pc = "add" =>
                         disp'[Acceptor].read = taskCount_'[disp'[Acceptor].thd]
  BY DEF AloneInv
<1> DEFINE Goal == /\ raced' = {}
                   /\ disp'[Acceptor].pc = "add" =>
                        disp'[Acceptor].read = taskCount_'[disp'[Acceptor].thd]
<1>1. TypeOK /\ DispOK
  BY DEF IInv
<1>2. /\ raced = {}
      /\ disp[Acceptor].pc = "add" =>
           disp[Acceptor].read = taskCount_[disp[Acceptor].thd]
  BY ClosedForGood DEF AloneInv
<1>3. \A d \in Dispatchers : d = Acceptor
  BY DEF Dispatchers
<1>4. CASE UNCHANGED <<raced, taskCount_, disp>>
  BY <1>2, <1>4
<1>5. ASSUME NEW d \in Dispatchers, Dispatch(d) PROVE Goal
  <2>1. /\ UNCHANGED <<raced, taskCount_>>
        /\ \E c : disp' = [disp EXCEPT ![d] =
                     [IdleDisp EXCEPT !.pc = "scan", !.conn = c, !.next = 1]]
    BY <1>5 DEF Dispatch
  <2>2. disp'[d].pc = "scan"
    BY <1>1, <2>1 DEF TypeOK, IdleDisp
  <2>3. QED
    BY <1>2, <1>3, <2>1, <2>2
<1>6. ASSUME NEW d \in Dispatchers, Scan(d) PROVE Goal
  <2>1. UNCHANGED <<raced, taskCount_>> /\ disp'[d].pc \in {"scan", "count"}
    BY <1>1, <1>6 DEF Scan, TypeOK
  <2>2. QED
    BY <1>2, <1>3, <2>1
<1>7. ASSUME NEW d \in Dispatchers, CountRead(d) PROVE Goal
  <2>1. /\ UNCHANGED <<raced, taskCount_>>
        /\ disp'[d].thd = disp[d].thd /\ disp'[d].read = taskCount_[disp[d].thd]
    BY <1>1, <1>7 DEF CountRead, TypeOK
  <2>2. QED
    BY <1>2, <1>3, <2>1
<1>8. ASSUME NEW d \in Dispatchers, CountWrite(d) PROVE Goal
  <2>1. disp[d].read = taskCount_[disp[d].thd]
    BY <1>2, <1>3, <1>8 DEF CountWrite
  <2>2. raced' = {}
    BY <1>2, <1>8, <2>1 DEF CountWrite, Write
  <2>3. disp'[d].pc = "send"
    BY <1>1, <1>8 DEF CountWrite, TypeOK
  <2>4. QED
    BY <1>3, <2>2, <2>3
<1>9. ASSUME NEW d \in Dispatchers, Send(d) PROVE Goal
  <2>1. UNCHANGED <<raced, taskCount_>> /\ disp'[d].pc = "idle"
    BY <1>1, <1>9 DEF Send, TypeOK, IdleDisp
  <2>2. QED
    BY <1>2, <1>3, <2>1
<1>10. ASSUME NEW t \in Threads, CloseWrite(t) PROVE FALSE
  BY <1>1, <1>10 DEF CloseWrite, TypeOK
<1>11. QED
  BY <1>4, <1>5, <1>6, <1>7, <1>8, <1>9, <1>10
     DEF Next, Execute, vars, Spawn, Construct, Run, ReadCmd, Connected, CloseRead

\* Without addServer, and until the first close, nothing goes wrong for want of
\* a lock: each taskCount_ is the thread's load, and the loads of two threads
\* differ by one at most.  It takes a second dispatcher or a close to lose an
\* update.
EvenUntilClosed ==
  (\A c \in Conns : where[c] # "closed") =>
    \A t, u \in Threads :
      taskCount_[t] = Load(t) /\ taskCount_[t] - taskCount_[u] <= 1

\* A pool whose only dispatcher is the acceptor spreads its connections evenly.
THEOREM AcceptorAloneIsEven ==
  ASSUME Users = {}
  PROVE  Spec => []EvenUntilClosed
<1>1. Init => AloneInv
  BY DEF Init, AloneInv, IdleDisp, Dispatchers
<1>2. AloneInv /\ Balanced /\ CountExactUnlessRaced => EvenUntilClosed
  <2>1. Cardinality(Dispatchers) = 1
    BY FS_Singleton DEF Dispatchers
  <2>2. QED
    BY <2>1 DEF AloneInv, Balanced, CountExactUnlessRaced, EvenUntilClosed
<1>3. QED
  BY <1>1, <1>2, AloneNext, IInvAlways, StaysBalanced, CountExact, PTL DEF Spec
-----------------------------------------------------------------------------
\* What can happen to a connection next.
Life ==
  {<<"new", "counted">>, <<"counted", "sent">>, <<"counted", "leaked">>,
   <<"sent", "open">>, <<"sent", "connecting">>, <<"sent", "leaked">>,
   <<"connecting", "open">>, <<"connecting", "leaked">>, <<"open", "closed">>}

\* A connection goes through its life once, and on one thread: none is counted,
\* sent or received twice, or taken up again after it was closed or forgotten,
\* and none ever changes hands, with or without lost updates.
OneLife ==
  [][\A c \in Conns :
       /\ where'[c] # where[c] => <<where[c], where'[c]>> \in Life
       /\ owner[c] # 0 => owner'[c] = owner[c]]_vars

\* Whatever dispatchers and threads do at the same time, a connection moves
\* forward, and stays with the thread it was given.
THEOREM LivesOnce == Spec => OneLife
<1> DEFINE Step == \A c \in Conns :
                     /\ where'[c] # where[c] => <<where[c], where'[c]>> \in Life
                     /\ owner[c] # 0 => owner'[c] = owner[c]
<1>1. IInv /\ [Next]_vars => [Step]_vars
  <2> SUFFICES ASSUME IInv, Next PROVE Step
    BY DEF vars
  <2>1. TypeOK /\ DispOK /\ ConnOK /\ ClosingOK /\ PipeOK
    BY DEF IInv
  <2>2. CASE UNCHANGED <<where, owner>>
    BY <2>2
  <2>3. ASSUME NEW d \in Dispatchers, CountWrite(d) PROVE Step
    <3>1. where[disp[d].conn] = "new" /\ owner[disp[d].conn] = 0
      <4>1. where[disp[d].conn] = "new" /\ disp[d].conn # None
        BY <2>1, <2>3 DEF CountWrite, DispOK
      <4>2. disp[d].conn \in Conns
        BY <2>1, <4>1 DEF TypeOK
      <4>3. QED
        BY <2>1, <4>1, <4>2 DEF ConnOK
    <3>2. QED
      BY <2>1, <2>3, <3>1 DEF CountWrite, TypeOK, Life
  <2>4. ASSUME NEW d \in Dispatchers, Send(d) PROVE Step
    <3>1. where[disp[d].conn] = "counted"
      BY <2>1, <2>4 DEF Send, DispOK
    <3>2. QED
      BY <2>1, <2>4, <3>1 DEF Send, TypeOK, Life
  <2>5. ASSUME NEW t \in Threads, ReadCmd(t) PROVE Step
    <3>1. pipe[t] \in Seq(Conns) /\ pipe[t] # <<>> /\ Once(pipe[t])
      BY <2>1, <2>5 DEF ReadCmd, TypeOK, PipeOK
    <3>2. Head(pipe[t]) \in Conns /\ Head(pipe[t]) \in Items(pipe[t])
      BY <3>1, TailItems
    <3>3. where[Head(pipe[t])] = "sent"
      BY <2>1, <3>2 DEF PipeOK
    <3>4. QED
      BY <2>1, <2>5, <3>3 DEF ReadCmd, TypeOK, Life
  <2>6. ASSUME NEW t \in Threads, Connected(t) PROVE Step
    BY <2>1, <2>6 DEF Connected, TypeOK, Life
  <2>7. ASSUME NEW t \in Threads, CloseWrite(t) PROVE Step
    <3>1. where[closing[t].conn] = "open"
      BY <2>1, <2>7 DEF CloseWrite, ClosingOK
    <3>2. QED
      BY <2>1, <2>7, <3>1 DEF CloseWrite, TypeOK, Life
  <2>8. QED
    BY <2>2, <2>3, <2>4, <2>5, <2>6, <2>7
       DEF Next, Execute, Spawn, Construct, Run, Dispatch, Scan, CountRead, CloseRead
<1>2. QED
  BY <1>1, IInvAlways, PTL DEF Spec, OneLife
=============================================================================
