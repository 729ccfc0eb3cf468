------------------------ MODULE ExecutorServiceProofs ------------------------
(***************************************************************************)
(* Invariants of ExecutorService for any number of workers and tasks and   *)
(* any queueSize_.                                                         *)
(***************************************************************************)
EXTENDS ExecutorService, FiniteSetTheorems, TLAPS

\* What popping the oldest half leaves is a queue of the same type.
LEMMA RestType ==
  ASSUME NEW S, NEW q \in Seq(S), Full(q)
  PROVE  /\ Rest(q) \in Seq(S)
         /\ Items(Oldest(q)) \subseteq S
         /\ Len(Rest(q)) = Len(q) - Half
         /\ Half \in Nat
<1>1. QueueSize \in Nat /\ Half \in Nat /\ Half <= Len(q)
  BY ExecutorAssumption DEF Full, Half
<1>2. \A i \in Half + 1 .. Len(q) : q[i] \in S
  BY <1>1
<1>3. QED
  BY <1>1, <1>2 DEF Rest, Oldest, Items

\* Waking a worker keeps every pc in its range.
LEMMA NotifyOneType ==
  ASSUME TypeOK, NotifyOne
  PROVE  /\ pc' \in [Workers -> {"ready", "waiting", "running"}]
         /\ \A w \in Workers : pc'[w] = "running" <=> pc[w] = "running"
BY DEF TypeOK, NotifyOne, Waiting

\* The type invariant holds in every behaviour.
THEOREM TypeCorrect == Spec => []TypeOK
<1>1. Init => TypeOK
  BY ExecutorAssumption DEF Init, TypeOK, Tasks
<1>2. TypeOK /\ [Next]_vars => TypeOK'
  <2> SUFFICES ASSUME TypeOK, [Next]_vars PROVE TypeOK'
    OBVIOUS
  <2>1. CASE UNCHANGED vars
    BY <2>1 DEF vars, TypeOK
  <2>2. ASSUME NEW f \in Funcs, ExecuteFunc(f) PROVE TypeOK'
    <3>1. /\ pc' \in [Workers -> {"ready", "waiting", "running"}]
          /\ \A w \in Workers : pc'[w] = "running" <=> pc[w] = "running"
      BY <2>2, NotifyOneType DEF ExecuteFunc
    <3>2. CASE Full(funcQueue_)
      <4>1. funcQueue_ \in Seq(Funcs)
        BY DEF TypeOK
      <4>2. /\ Rest(funcQueue_) \in Seq(Funcs)
            /\ Items(Oldest(funcQueue_)) \subseteq Funcs
        BY <3>2, <4>1, RestType
      <4>3. /\ funcQueue_' = Append(Rest(funcQueue_), f)
            /\ dropped' = dropped \cup Items(Oldest(funcQueue_))
        BY <2>2, <3>2 DEF ExecuteFunc
      <4>4. funcQueue_' \in Seq(Funcs)
        BY <4>2, <4>3
      <4>5. dropped' \subseteq Tasks
        BY <4>2, <4>3 DEF TypeOK, Tasks
      <4>6. QED
        BY <2>2, <3>1, <4>4, <4>5 DEF ExecuteFunc, TypeOK
    <3>3. CASE ~Full(funcQueue_)
      <4>1. funcQueue_' \in Seq(Funcs) /\ dropped' = dropped
        BY <2>2, <3>3 DEF ExecuteFunc, TypeOK
      <4>2. QED
        BY <2>2, <3>1, <4>1 DEF ExecuteFunc, TypeOK
    <3>4. QED
      BY <3>2, <3>3
  <2>3. ASSUME NEW r \in Runnables, AcceptRunnable(r) PROVE TypeOK'
    <3>1. /\ pc' \in [Workers -> {"ready", "waiting", "running"}]
          /\ \A w \in Workers : pc'[w] = "running" <=> pc[w] = "running"
      BY <2>3, NotifyOneType DEF AcceptRunnable
    <3>2. queue_' \in Seq(Runnables)
      BY <2>3 DEF AcceptRunnable, TypeOK
    <3>3. QED
      BY <2>3, <3>1, <3>2 DEF AcceptRunnable, TypeOK
  <2>4. ASSUME NEW r \in Runnables, RejectRunnable(r) PROVE TypeOK'
    <3>1. queue_ \in Seq(Runnables) /\ Full(queue_)
      BY <2>4 DEF TypeOK, RejectRunnable
    <3>2. /\ Rest(queue_) \in Seq(Runnables)
          /\ Items(Oldest(queue_)) \subseteq Runnables
      BY <3>1, RestType
    <3>3. QED
      BY <2>4, <3>2 DEF RejectRunnable, TypeOK, Tasks
  <2>5. ASSUME NEW w \in Workers, Wait(w) \/ SpuriousWakeup(w) PROVE TypeOK'
    BY <2>5 DEF Wait, SpuriousWakeup, TypeOK
  <2>6. ASSUME NEW w \in Workers, TakeRunnable(w) PROVE TypeOK'
    <3>1. Head(queue_) \in Runnables /\ Tail(queue_) \in Seq(Runnables)
      BY <2>6 DEF TakeRunnable, TypeOK
    <3>2. QED
      BY <2>6, <3>1, ExecutorAssumption DEF TakeRunnable, TypeOK, Tasks
  <2>7. ASSUME NEW w \in Workers, TakeFunc(w) PROVE TypeOK'
    <3>1. Head(funcQueue_) \in Funcs /\ Tail(funcQueue_) \in Seq(Funcs)
      BY <2>7 DEF TakeFunc, TypeOK
    <3>2. QED
      BY <2>7, <3>1, ExecutorAssumption DEF TakeFunc, TypeOK, Tasks
  <2>8. ASSUME NEW w \in Workers, Finish(w) PROVE TypeOK'
    <3>1. task[w] \in Tasks
      BY <2>8 DEF Finish, TypeOK
    <3>2. QED
      BY <2>8, <3>1 DEF Finish, TypeOK
  <2>9. QED
    BY <2>1, <2>2, <2>3, <2>4, <2>5, <2>6, <2>7, <2>8
       DEF Next, Execute, Run
<1>3. QED
  BY <1>1, <1>2, PTL DEF Spec
-----------------------------------------------------------------------------
\* No queue outgrows the bound that execute() enforces: an overfull queue is
\* cut before a function is pushed, and a Runnable is refused.
THEOREM QueuesBounded == Spec => []QueueBound
<1>1. Init => QueueBound
  BY ExecutorAssumption DEF Init, QueueBound
<1>2. TypeOK /\ QueueBound /\ [Next]_vars => QueueBound'
  <2> SUFFICES ASSUME TypeOK, QueueBound, [Next]_vars PROVE QueueBound'
    OBVIOUS
  <2>0. /\ QueueSize \in Int
        /\ queue_ \in Seq(Runnables) /\ funcQueue_ \in Seq(Funcs)
    BY ExecutorAssumption DEF TypeOK
  <2>1. CASE UNCHANGED <<queue_, funcQueue_>>
    BY <2>1 DEF QueueBound
  <2>2. ASSUME NEW f \in Funcs, ExecuteFunc(f) PROVE QueueBound'
    <3>1. queue_' = queue_
      BY <2>2 DEF ExecuteFunc
    <3>2. CASE Full(funcQueue_)
      <4>1. /\ Rest(funcQueue_) \in Seq(Funcs)
            /\ Len(Rest(funcQueue_)) = Len(funcQueue_) - Half
        BY <2>0, <3>2, RestType
      <4>2. funcQueue_' = Append(Rest(funcQueue_), f)
        BY <2>2, <3>2 DEF ExecuteFunc
      <4>3. Len(funcQueue_') = Len(funcQueue_) - Half + 1
        BY <4>1, <4>2
      <4>4. QueueSize >= 2 => Half >= 1
        BY <2>0 DEF Half
      <4>5. QED
        BY <2>0, <3>1, <4>3, <4>4 DEF QueueBound, Half
    <3>3. CASE ~Full(funcQueue_)
      <4>1. Len(funcQueue_') = Len(funcQueue_) + 1
        BY <2>0, <2>2, <3>3 DEF ExecuteFunc
      <4>2. QED
        BY <2>0, <3>1, <3>3, <4>1 DEF QueueBound, Full
    <3>4. QED
      BY <3>2, <3>3
  <2>3. ASSUME NEW r \in Runnables, AcceptRunnable(r) PROVE QueueBound'
    <3>1. Len(queue_') = Len(queue_) + 1 /\ funcQueue_' = funcQueue_
      BY <2>0, <2>3 DEF AcceptRunnable
    <3>2. ~Full(queue_)
      BY <2>3 DEF AcceptRunnable
    <3>3. QED
      BY <2>0, <3>1, <3>2 DEF QueueBound, Full
  <2>4. ASSUME NEW r \in Runnables, RejectRunnable(r) PROVE QueueBound'
    <3>1. Full(queue_) /\ queue_' = Rest(queue_) /\ funcQueue_' = funcQueue_
      BY <2>4 DEF RejectRunnable
    <3>2. Len(queue_') = Len(queue_) - Half /\ Half \in Nat
      BY <2>0, <3>1, RestType
    <3>3. QED
      BY <2>0, <3>1, <3>2 DEF QueueBound
  <2>5. ASSUME NEW w \in Workers, TakeRunnable(w) PROVE QueueBound'
    <3>1. Len(queue_') = Len(queue_) - 1 /\ funcQueue_' = funcQueue_
      BY <2>0, <2>5 DEF TakeRunnable
    <3>2. QED
      BY <2>0, <3>1 DEF QueueBound
  <2>6. ASSUME NEW w \in Workers, TakeFunc(w) PROVE QueueBound'
    <3>1. Len(funcQueue_') = Len(funcQueue_) - 1 /\ queue_' = queue_
      BY <2>0, <2>6 DEF TakeFunc
    <3>2. QED
      BY <2>0, <3>1 DEF QueueBound
  <2>7. ASSUME NEW w \in Workers, Wait(w) \/ Finish(w) \/ SpuriousWakeup(w)
        PROVE  QueueBound'
    BY <2>1, <2>7 DEF Wait, Finish, SpuriousWakeup
  <2>8. QED
    BY <2>1, <2>2, <2>3, <2>4, <2>5, <2>6, <2>7 DEF Next, Execute, Run, vars
<1>3. QED
  BY <1>1, <1>2, TypeCorrect, PTL DEF Spec
-----------------------------------------------------------------------------
\* The awake workers can be counted.
LEMMA ReadyCount ==
  /\ IsFiniteSet(Ready)
  /\ Cardinality(Ready) \in Nat
  /\ Ready \subseteq Workers
<1>1. Ready \subseteq Workers
  BY DEF Ready
<1>2. IsFiniteSet(Ready)
  BY <1>1, ExecutorAssumption, FS_Subset
<1>3. QED
  BY <1>1, <1>2, FS_CardinalityType

\* One blocked worker woken is one more awake worker.
LEMMA WokenCount ==
  ASSUME TypeOK, NEW w \in Workers, pc[w] # "ready",
         pc' = [pc EXCEPT ![w] = "ready"]
  PROVE  Cardinality(Ready') = Cardinality(Ready) + 1
<1>1. Ready' = Ready \cup {w} /\ w \notin Ready
  BY DEF Ready, TypeOK
<1>2. QED
  BY <1>1, ReadyCount, FS_AddElement

\* A worker that takes a task is one awake worker less.
LEMMA LeavingCount ==
  ASSUME TypeOK, NEW w \in Workers, NEW s, s # "ready", pc[w] = "ready",
         pc' = [pc EXCEPT ![w] = s]
  PROVE  Cardinality(Ready') = Cardinality(Ready) - 1
<1>1. Ready' = Ready \ {w} /\ w \in Ready
  BY DEF Ready, TypeOK
<1>2. QED
  BY <1>1, ReadyCount, FS_RemoveElement

\* notify_one under lock_ makes up for the task just pushed.
LEMMA NotifyOneCount ==
  ASSUME TypeOK, NotifyOne, Waiting' # {}
  PROVE  Waiting # {} /\ Cardinality(Ready') = Cardinality(Ready) + 1
<1>1. Waiting # {}
  BY DEF NotifyOne, Waiting
<1>2. PICK w \in Waiting : pc' = [pc EXCEPT ![w] = "ready"]
  BY <1>1 DEF NotifyOne
<1>3. w \in Workers /\ pc[w] # "ready"
  BY <1>2 DEF Waiting
<1>4. QED
  BY <1>1, <1>2, <1>3, WokenCount

\* No wakeup is lost: sleeping workers never leave queued work without an
\* awake worker that is about to fetch it.
THEOREM NoWakeupLost == Spec => []NoLostWakeup
<1>1. Init => NoLostWakeup
  BY DEF Init, NoLostWakeup, Waiting
<1>2. TypeOK /\ NoLostWakeup /\ [Next]_vars => NoLostWakeup'
  <2> SUFFICES ASSUME TypeOK, NoLostWakeup, [Next]_vars, Waiting' # {}
               PROVE  Len(queue_') + Len(funcQueue_') <= Cardinality(Ready')
    BY DEF NoLostWakeup
  <2> DEFINE Goal == Len(queue_') + Len(funcQueue_') <= Cardinality(Ready')
  <2>0. /\ queue_ \in Seq(Runnables) /\ funcQueue_ \in Seq(Funcs)
        /\ Len(queue_) \in Nat /\ Len(funcQueue_) \in Nat
    BY DEF TypeOK
  <2>1. CASE UNCHANGED vars
    BY <2>1 DEF vars, NoLostWakeup, Waiting, Ready
  <2>2. ASSUME NEW f \in Funcs, ExecuteFunc(f) PROVE Goal
    <3>1. Waiting # {} /\ Cardinality(Ready') = Cardinality(Ready) + 1
      BY <2>2, NotifyOneCount DEF ExecuteFunc
    <3>2. queue_' = queue_ /\ Len(funcQueue_') <= Len(funcQueue_) + 1
      <4>1. CASE Full(funcQueue_)
        <5>1. /\ Rest(funcQueue_) \in Seq(Funcs)
              /\ Len(Rest(funcQueue_)) = Len(funcQueue_) - Half
              /\ Half \in Nat
          BY <2>0, <4>1, RestType
        <5>2. /\ queue_' = queue_
              /\ funcQueue_' = Append(Rest(funcQueue_), f)
          BY <2>2, <4>1 DEF ExecuteFunc
        <5>3. Len(funcQueue_') = Len(funcQueue_) - Half + 1
          BY <5>1, <5>2
        <5>4. QED
          BY <2>0, <5>1, <5>2, <5>3
      <4>2. CASE ~Full(funcQueue_)
        BY <2>0, <2>2, <4>2 DEF ExecuteFunc
      <4>3. QED
        BY <4>1, <4>2
    <3>3. Len(funcQueue_') \in Nat
      <4>1. CASE Full(funcQueue_)
        BY <2>0, <2>2, <4>1, RestType DEF ExecuteFunc
      <4>2. CASE ~Full(funcQueue_)
        BY <2>0, <2>2, <4>2 DEF ExecuteFunc
      <4>3. QED
        BY <4>1, <4>2
    <3>4. QED
      BY <2>0, <3>1, <3>2, <3>3, ReadyCount DEF NoLostWakeup
  <2>3. ASSUME NEW r \in Runnables, AcceptRunnable(r) PROVE Goal
    <3>1. Waiting # {} /\ Cardinality(Ready') = Cardinality(Ready) + 1
      BY <2>3, NotifyOneCount DEF AcceptRunnable
    <3>2. Len(queue_') = Len(queue_) + 1 /\ funcQueue_' = funcQueue_
      BY <2>0, <2>3 DEF AcceptRunnable
    <3>3. QED
      BY <2>0, <3>1, <3>2, ReadyCount DEF NoLostWakeup
  <2>4. ASSUME NEW r \in Runnables, RejectRunnable(r) PROVE Goal
    <3>1. /\ Full(queue_) /\ queue_' = Rest(queue_)
          /\ funcQueue_' = funcQueue_ /\ pc' = pc
      BY <2>4 DEF RejectRunnable
    <3>2. Len(queue_') = Len(queue_) - Half /\ Half \in Nat
      BY <2>0, <3>1, RestType
    <3>3. Waiting' = Waiting /\ Ready' = Ready
      BY <3>1 DEF Waiting, Ready
    <3>4. QED
      BY <2>0, <3>1, <3>2, <3>3, ReadyCount DEF NoLostWakeup
  <2>5. ASSUME NEW w \in Workers, Wait(w) PROVE Goal
    <3>1. Len(queue_') = 0 /\ Len(funcQueue_') = 0
      BY <2>5 DEF Wait
    <3>2. Ready' \subseteq Workers
      BY DEF Ready
    <3>3. Cardinality(Ready') \in Nat
      BY <3>2, ExecutorAssumption, FS_Subset, FS_CardinalityType
    <3>4. QED
      BY <3>1, <3>3
  <2>6. ASSUME NEW w \in Workers, TakeRunnable(w) PROVE Goal
    <3>1. Cardinality(Ready') = Cardinality(Ready) - 1
      BY <2>6, LeavingCount DEF TakeRunnable
    <3>2. Len(queue_') = Len(queue_) - 1 /\ funcQueue_' = funcQueue_
      BY <2>0, <2>6 DEF TakeRunnable
    <3>3. Waiting # {}
      BY <2>6 DEF TakeRunnable, Waiting, TypeOK
    <3>4. QED
      BY <2>0, <3>1, <3>2, <3>3, ReadyCount DEF NoLostWakeup
  <2>7. ASSUME NEW w \in Workers, TakeFunc(w) PROVE Goal
    <3>1. Cardinality(Ready') = Cardinality(Ready) - 1
      BY <2>7, LeavingCount DEF TakeFunc
    <3>2. Len(funcQueue_') = Len(funcQueue_) - 1 /\ queue_' = queue_
      BY <2>0, <2>7 DEF TakeFunc
    <3>3. Waiting # {}
      BY <2>7 DEF TakeFunc, Waiting, TypeOK
    <3>4. QED
      BY <2>0, <3>1, <3>2, <3>3, ReadyCount DEF NoLostWakeup
  <2>8. ASSUME NEW w \in Workers, Finish(w) \/ SpuriousWakeup(w) PROVE Goal
    <3>1. Cardinality(Ready') = Cardinality(Ready) + 1
      BY <2>8, WokenCount DEF Finish, SpuriousWakeup
    <3>2. queue_' = queue_ /\ funcQueue_' = funcQueue_ /\ Waiting # {}
      BY <2>8 DEF Finish, SpuriousWakeup, Waiting, TypeOK
    <3>3. QED
      BY <2>0, <3>1, <3>2, ReadyCount DEF NoLostWakeup
  <2>9. QED
    BY <2>1, <2>2, <2>3, <2>4, <2>5, <2>6, <2>7, <2>8
       DEF Next, Execute, Run
<1>3. QED
  BY <1>1, <1>2, TypeCorrect, PTL DEF Spec
-----------------------------------------------------------------------------
\* A task appended to a queue is a new item of it.
LEMMA AppendItems ==
  ASSUME NEW S, NEW q \in Seq(S), NEW t \in S
  PROVE  /\ Items(Append(q, t)) = Items(q) \cup {t}
         /\ Injective(q) /\ t \notin Items(q) => Injective(Append(q, t))
<1>1. /\ Len(q) \in Nat
      /\ Len(Append(q, t)) = Len(q) + 1
      /\ \A i \in 1 .. Len(q) : Append(q, t)[i] = q[i]
      /\ Append(q, t)[Len(q) + 1] = t
  OBVIOUS
<1> DEFINE a == Append(q, t)
<1> HIDE DEF a
<1>2. /\ Len(q) \in Nat /\ Len(a) = Len(q) + 1
      /\ \A i \in 1 .. Len(q) : a[i] = q[i]
      /\ a[Len(q) + 1] = t
  BY <1>1 DEF a
<1>3. Items(a) = Items(q) \cup {t}
  <2>1. \A i \in 1 .. Len(a) : i \in 1 .. Len(q) \/ i = Len(q) + 1
    BY <1>2
  <2>2. \A i \in 1 .. Len(q) : i \in 1 .. Len(a)
    BY <1>2
  <2>3. Len(q) + 1 \in 1 .. Len(a)
    BY <1>2
  <2>4. QED
    BY <1>2, <2>1, <2>2, <2>3 DEF Items
<1>4. ASSUME Injective(q), t \notin Items(q) PROVE Injective(a)
  <2> SUFFICES ASSUME NEW i \in 1 .. Len(a), NEW j \in 1 .. Len(a), a[i] = a[j]
               PROVE  i = j
    BY DEF Injective
  <2>1. (i \in 1 .. Len(q) \/ i = Len(q) + 1) /\ (j \in 1 .. Len(q) \/ j = Len(q) + 1)
    BY <1>2
  <2>2. \A k \in 1 .. Len(q) : q[k] # t
    BY <1>4 DEF Items
  <2>3. QED
    BY <1>2, <1>4, <2>1, <2>2 DEF Injective
<1>5. QED
  BY <1>3, <1>4 DEF a

\* A queue without its oldest task has the other tasks.
LEMMA TailItems ==
  ASSUME NEW S, NEW q \in Seq(S), q # <<>>, Injective(q)
  PROVE  /\ Head(q) \in Items(q)
         /\ Items(Tail(q)) = Items(q) \ {Head(q)}
         /\ Injective(Tail(q))
<1>1. /\ Len(q) \in Nat /\ Len(q) >= 1
      /\ Head(q) = q[1]
      /\ Len(Tail(q)) = Len(q) - 1
      /\ \A i \in 1 .. Len(q) - 1 : Tail(q)[i] = q[i + 1]
  OBVIOUS
<1> DEFINE b == Tail(q)
<1> HIDE DEF b
<1>2. /\ Len(q) \in Nat /\ Len(q) >= 1
      /\ Len(b) = Len(q) - 1
      /\ \A i \in 1 .. Len(q) - 1 : b[i] = q[i + 1]
  BY <1>1 DEF b
<1>3. \A i \in 1 .. Len(b) : i + 1 \in 1 .. Len(q) /\ b[i] = q[i + 1]
  BY <1>2
<1>4. \A k \in 1 .. Len(q) : k = 1 \/ (k - 1 \in 1 .. Len(b) /\ b[k - 1] = q[k])
  BY <1>2
<1>5. \A k \in 1 .. Len(q) : q[k] = q[1] => k = 1
  BY <1>2 DEF Injective
<1>6. Items(b) = Items(q) \ {q[1]}
  <2>1. ASSUME NEW i \in 1 .. Len(b) PROVE b[i] \in Items(q) \ {q[1]}
    <3>1. i + 1 \in 1 .. Len(q) /\ b[i] = q[i + 1] /\ i + 1 # 1
      BY <1>2, <1>3
    <3>2. QED
      BY <1>5, <3>1 DEF Items
  <2>2. ASSUME NEW k \in 1 .. Len(q), q[k] # q[1] PROVE q[k] \in Items(b)
    BY <1>4, <2>2 DEF Items
  <2>3. QED
    BY <2>1, <2>2 DEF Items
<1>7. Injective(b)
  <2> SUFFICES ASSUME NEW i \in 1 .. Len(b), NEW j \in 1 .. Len(b), b[i] = b[j]
               PROVE  i = j
    BY DEF Injective
  <2>1. i + 1 = j + 1
    BY <1>3 DEF Injective
  <2>2. QED
    BY <1>2, <2>1
<1>8. Head(q) \in Items(q)
  BY <1>1 DEF Items
<1>9. QED
  BY <1>1, <1>6, <1>7, <1>8 DEF b

\* Popping the oldest half parts the tasks of a queue in two.
LEMMA RestItems ==
  ASSUME NEW S, NEW q \in Seq(S), Full(q), Injective(q)
  PROVE  /\ Items(q) = Items(Rest(q)) \cup Items(Oldest(q))
         /\ Items(Rest(q)) \cap Items(Oldest(q)) = {}
         /\ Injective(Rest(q))
<1>1. Half \in Nat /\ Half <= Len(q) /\ Len(q) \in Nat
  BY ExecutorAssumption DEF Full, Half
<1> DEFINE h == Half
<1> HIDE DEF h
<1>2. h \in Nat /\ h <= Len(q) /\ Len(q) \in Nat
  BY <1>1 DEF h
<1> DEFINE o == SubSeq(q, 1, h)
           r == SubSeq(q, h + 1, Len(q))
<1>3. /\ Len(o) = h
      /\ \A i \in 1 .. h : o[i] = q[i]
  BY <1>2
<1>4. /\ Len(r) = Len(q) - h
      /\ \A i \in 1 .. Len(q) - h : r[i] = q[h + i]
  BY <1>2
<1> HIDE DEF o, r
<1>5. \A i \in 1 .. Len(o) : i \in 1 .. Len(q) /\ i <= h /\ o[i] = q[i]
  BY <1>2, <1>3
<1>6. \A i \in 1 .. Len(r) : h + i \in 1 .. Len(q) /\ h + i > h /\ r[i] = q[h + i]
  BY <1>2, <1>4
<1>7. \A k \in 1 .. Len(q) :
        \/ k \in 1 .. Len(o) /\ o[k] = q[k]
        \/ k - h \in 1 .. Len(r) /\ r[k - h] = q[k]
  BY <1>2, <1>3, <1>4
<1>8. Items(q) = Items(r) \cup Items(o)
  <2>1. ASSUME NEW k \in 1 .. Len(q) PROVE q[k] \in Items(r) \cup Items(o)
    BY <1>7 DEF Items
  <2>2. ASSUME NEW i \in 1 .. Len(o) PROVE o[i] \in Items(q)
    BY <1>5 DEF Items
  <2>3. ASSUME NEW i \in 1 .. Len(r) PROVE r[i] \in Items(q)
    BY <1>6 DEF Items
  <2>4. QED
    BY <2>1, <2>2, <2>3 DEF Items
<1>9. Items(r) \cap Items(o) = {}
  <2> SUFFICES ASSUME NEW i \in 1 .. Len(o), NEW j \in 1 .. Len(r), o[i] = r[j]
               PROVE  FALSE
    BY DEF Items
  <2>1. i = h + j
    BY <1>5, <1>6 DEF Injective
  <2>2. i <= h /\ h + j > h
    BY <1>5, <1>6
  <2>3. QED
    BY <1>2, <2>1, <2>2
<1>10. Injective(r)
  <2> SUFFICES ASSUME NEW i \in 1 .. Len(r), NEW j \in 1 .. Len(r), r[i] = r[j]
               PROVE  i = j
    BY DEF Injective
  <2>1. h + i = h + j
    BY <1>6 DEF Injective
  <2>2. QED
    BY <1>2, <2>1
<1>11. QED
  BY <1>8, <1>9, <1>10 DEF Rest, Oldest, o, r, h
-----------------------------------------------------------------------------
\* A fresh task is in no place.
LEMMA FreshNowhere ==
  ASSUME NEW t \in Tasks, Fresh(t)
  PROVE  /\ t \notin Items(queue_) /\ t \notin Items(funcQueue_)
         /\ t \notin InFlight
         /\ t \notin done /\ t \notin dropped /\ t \notin rejected
BY DEF Fresh, InFlight

\* The items of the two queues are of different kinds.
LEMMA QueuesApart ==
  ASSUME TypeOK
  PROVE  /\ Items(queue_) \subseteq Runnables
         /\ Items(funcQueue_) \subseteq Funcs
         /\ Items(queue_) \cap Items(funcQueue_) = {}
<1>1. queue_ \in Seq(Runnables) /\ funcQueue_ \in Seq(Funcs)
  BY DEF TypeOK
<1>2. Items(queue_) \subseteq Runnables
  BY <1>1 DEF Items
<1>3. Items(funcQueue_) \subseteq Funcs
  BY <1>1 DEF Items
<1>4. QED
  BY <1>2, <1>3, ExecutorAssumption

\* What a worker takes up is in flight, and nothing else changes there.
LEMMA TakenInFlight ==
  ASSUME TypeOK, NEW w \in Workers, pc[w] = "ready", NEW t \in Tasks,
         task' = [task EXCEPT ![w] = t]
  PROVE  /\ InFlight' = InFlight \cup {t}
         /\ task[w] = NoTask
<1>1. task[w] = NoTask /\ task \in [Workers -> Tasks \cup {NoTask}] /\ t # NoTask
  BY ExecutorAssumption DEF TypeOK, Tasks
<1>2. task'[w] = t /\ \A v \in Workers \ {w} : task'[v] = task[v]
  BY <1>1
<1>3. QED
  BY <1>1, <1>2 DEF InFlight

\* No task is in two places, is queued twice or handed to two workers.
THEOREM NothingTwice == Spec => []OnePlace
<1>1. Init => OnePlace
  BY DEF Init, OnePlace, Injective, Items, InFlight
<1>2. TypeOK /\ OnePlace /\ [Next]_vars => OnePlace'
  <2> SUFFICES ASSUME TypeOK, OnePlace, [Next]_vars PROVE OnePlace'
    OBVIOUS
  <2>0. queue_ \in Seq(Runnables) /\ funcQueue_ \in Seq(Funcs)
    BY DEF TypeOK
  <2>1. CASE UNCHANGED <<queue_, funcQueue_, task, done, dropped, rejected>>
    BY <2>1 DEF OnePlace, Items, Injective, InFlight
  <2>2. ASSUME NEW f \in Funcs, ExecuteFunc(f) PROVE OnePlace'
    <3>1. /\ queue_' = queue_ /\ task' = task /\ done' = done /\ rejected' = rejected
          /\ f \in Tasks /\ Fresh(f)
      BY <2>2 DEF ExecuteFunc, Tasks
    <3>2. Items(queue_') = Items(queue_) /\ InFlight' = InFlight
      BY <3>1 DEF InFlight
    <3>3. /\ f \notin Items(queue_) /\ f \notin Items(funcQueue_)
          /\ f \notin InFlight /\ f \notin done /\ f \notin dropped /\ f \notin rejected
      BY <3>1, FreshNowhere
    <3>4. CASE Full(funcQueue_)
      <4>1. /\ Items(funcQueue_) = Items(Rest(funcQueue_)) \cup Items(Oldest(funcQueue_))
            /\ Items(Rest(funcQueue_)) \cap Items(Oldest(funcQueue_)) = {}
            /\ Injective(Rest(funcQueue_)) /\ Rest(funcQueue_) \in Seq(Funcs)
        BY <2>0, <3>4, RestItems, RestType DEF OnePlace
      <4>2. /\ funcQueue_' = Append(Rest(funcQueue_), f)
            /\ dropped' = dropped \cup Items(Oldest(funcQueue_))
        BY <2>2, <3>4 DEF ExecuteFunc
      <4>3. /\ Items(funcQueue_') = Items(Rest(funcQueue_)) \cup {f}
            /\ Injective(funcQueue_')
        BY <3>3, <4>1, <4>2, AppendItems
      <4>4. QED
        BY <3>1, <3>2, <3>3, <4>1, <4>2, <4>3, QueuesApart DEF OnePlace
    <3>5. CASE ~Full(funcQueue_)
      <4>1. funcQueue_' = Append(funcQueue_, f) /\ dropped' = dropped
        BY <2>2, <3>5 DEF ExecuteFunc
      <4>2. /\ Items(funcQueue_') = Items(funcQueue_) \cup {f}
            /\ Injective(funcQueue_')
        BY <2>0, <3>3, <4>1, AppendItems DEF OnePlace
      <4>3. QED
        BY <3>1, <3>2, <3>3, <4>1, <4>2 DEF OnePlace
    <3>6. QED
      BY <3>4, <3>5
  <2>3. ASSUME NEW r \in Runnables, AcceptRunnable(r) PROVE OnePlace'
    <3>1. /\ queue_' = Append(queue_, r) /\ funcQueue_' = funcQueue_ /\ task' = task
          /\ done' = done /\ dropped' = dropped /\ rejected' = rejected
          /\ r \in Tasks /\ Fresh(r)
      BY <2>3 DEF AcceptRunnable, Tasks
    <3>2. Items(funcQueue_') = Items(funcQueue_) /\ InFlight' = InFlight
      BY <3>1 DEF InFlight
    <3>3. /\ r \notin Items(queue_) /\ r \notin Items(funcQueue_)
          /\ r \notin InFlight /\ r \notin done /\ r \notin dropped /\ r \notin rejected
      BY <3>1, FreshNowhere
    <3>4. Items(queue_') = Items(queue_) \cup {r} /\ Injective(queue_')
      BY <2>0, <3>1, <3>3, AppendItems DEF OnePlace
    <3>5. QED
      BY <3>1, <3>2, <3>3, <3>4 DEF OnePlace
  <2>4. ASSUME NEW r \in Runnables, RejectRunnable(r) PROVE OnePlace'
    <3>1. /\ queue_' = Rest(queue_) /\ funcQueue_' = funcQueue_ /\ task' = task
          /\ done' = done /\ dropped' = dropped \cup Items(Oldest(queue_))
          /\ rejected' = rejected \cup {r}
          /\ r \in Tasks /\ Fresh(r) /\ Full(queue_)
      BY <2>4 DEF RejectRunnable, Tasks
    <3>2. Items(funcQueue_') = Items(funcQueue_) /\ InFlight' = InFlight
      BY <3>1 DEF InFlight
    <3>3. /\ r \notin Items(queue_) /\ r \notin Items(funcQueue_)
          /\ r \notin InFlight /\ r \notin done /\ r \notin dropped /\ r \notin rejected
      BY <3>1, FreshNowhere
    <3>4. /\ Items(queue_) = Items(Rest(queue_)) \cup Items(Oldest(queue_))
          /\ Items(Rest(queue_)) \cap Items(Oldest(queue_)) = {}
          /\ Injective(Rest(queue_))
      BY <2>0, <3>1, RestItems DEF OnePlace
    <3>5. Items(queue_') = Items(Rest(queue_)) /\ Injective(queue_')
      BY <3>1, <3>4
    <3>6. QED
      BY <3>1, <3>2, <3>3, <3>4, <3>5, QueuesApart DEF OnePlace
  <2>5. ASSUME NEW w \in Workers, TakeRunnable(w) PROVE OnePlace'
    <3>1. /\ queue_ # <<>> /\ queue_' = Tail(queue_) /\ funcQueue_' = funcQueue_
          /\ task' = [task EXCEPT ![w] = Head(queue_)] /\ pc[w] = "ready"
          /\ done' = done /\ dropped' = dropped /\ rejected' = rejected
      BY <2>5 DEF TakeRunnable
    <3>2. /\ Head(queue_) \in Items(queue_)
          /\ Items(queue_') = Items(queue_) \ {Head(queue_)}
          /\ Injective(queue_')
      BY <2>0, <3>1, TailItems DEF OnePlace
    <3>3. Items(funcQueue_') = Items(funcQueue_) /\ Head(queue_) \in Tasks
      BY <3>1, <3>2, QueuesApart DEF Tasks
    <3>4. InFlight' = InFlight \cup {Head(queue_)} /\ task[w] = NoTask
      BY <3>1, <3>3, TakenInFlight
    <3>5. Head(queue_) \notin InFlight
      BY <3>2 DEF OnePlace
    <3>6. \A u, v \in Workers : task'[u] = task'[v] /\ task'[u] # NoTask => u = v
      <4>1. task \in [Workers -> Tasks \cup {NoTask}]
        BY DEF TypeOK
      <4>2. Head(queue_) # NoTask
        BY <3>3, ExecutorAssumption DEF Tasks
      <4>3. \A u \in Workers : task[u] # Head(queue_)
        BY <3>5, <4>2 DEF InFlight
      <4>4. QED
        BY <3>1, <4>1, <4>3 DEF OnePlace
    <3>7. QED
      BY <3>1, <3>2, <3>3, <3>4, <3>5, <3>6, QueuesApart DEF OnePlace
  <2>6. ASSUME NEW w \in Workers, TakeFunc(w) PROVE OnePlace'
    <3>1. /\ funcQueue_ # <<>> /\ funcQueue_' = Tail(funcQueue_) /\ queue_' = queue_
          /\ task' = [task EXCEPT ![w] = Head(funcQueue_)] /\ pc[w] = "ready"
          /\ done' = done /\ dropped' = dropped /\ rejected' = rejected
      BY <2>6 DEF TakeFunc
    <3>2. /\ Head(funcQueue_) \in Items(funcQueue_)
          /\ Items(funcQueue_') = Items(funcQueue_) \ {Head(funcQueue_)}
          /\ Injective(funcQueue_')
      BY <2>0, <3>1, TailItems DEF OnePlace
    <3>3. Items(queue_') = Items(queue_) /\ Head(funcQueue_) \in Tasks
      BY <3>1, <3>2, QueuesApart DEF Tasks
    <3>4. InFlight' = InFlight \cup {Head(funcQueue_)} /\ task[w] = NoTask
      BY <3>1, <3>3, TakenInFlight
    <3>5. Head(funcQueue_) \notin InFlight
      BY <3>2 DEF OnePlace
    <3>6. \A u, v \in Workers : task'[u] = task'[v] /\ task'[u] # NoTask => u = v
      <4>1. task \in [Workers -> Tasks \cup {NoTask}]
        BY DEF TypeOK
      <4>2. Head(funcQueue_) # NoTask
        BY <3>3, ExecutorAssumption DEF Tasks
      <4>3. \A u \in Workers : task[u] # Head(funcQueue_)
        BY <3>5, <4>2 DEF InFlight
      <4>4. QED
        BY <3>1, <4>1, <4>3 DEF OnePlace
    <3>7. QED
      BY <3>1, <3>2, <3>3, <3>4, <3>5, <3>6, QueuesApart DEF OnePlace
  <2>7. ASSUME NEW w \in Workers, Finish(w) PROVE OnePlace'
    <3>1. /\ queue_' = queue_ /\ funcQueue_' = funcQueue_
          /\ dropped' = dropped /\ rejected' = rejected
          /\ done' = done \cup {task[w]}
          /\ task' = [task EXCEPT ![w] = NoTask] /\ pc[w] = "running"
      BY <2>7 DEF Finish
    <3>2. task \in [Workers -> Tasks \cup {NoTask}] /\ task[w] # NoTask
      BY <3>1 DEF TypeOK
    <3>3. task[w] \in InFlight /\ InFlight' = InFlight \ {task[w]}
      <4>1. task'[w] = NoTask /\ \A v \in Workers \ {w} : task'[v] = task[v]
        BY <3>1, <3>2
      <4>2. \A v \in Workers \ {w} : task[v] # task[w]
        BY <3>2 DEF OnePlace
      <4>3. QED
        BY <3>2, <4>1, <4>2 DEF InFlight
    <3>4. \A u, v \in Workers : task'[u] = task'[v] /\ task'[u] # NoTask => u = v
      BY <3>1, <3>2 DEF OnePlace
    <3>5. /\ Items(queue_') = Items(queue_) /\ Items(funcQueue_') = Items(funcQueue_)
          /\ Injective(queue_') /\ Injective(funcQueue_')
      BY <3>1 DEF OnePlace
    <3>6. QED
      BY <3>1, <3>3, <3>4, <3>5 DEF OnePlace
  <2>8. ASSUME NEW w \in Workers, Wait(w) \/ SpuriousWakeup(w) PROVE OnePlace'
    BY <2>1, <2>8 DEF Wait, SpuriousWakeup
  <2>9. QED
    BY <2>1, <2>2, <2>3, <2>4, <2>5, <2>6, <2>7, <2>8 DEF Next, Execute, Run, vars
<1>3. QED
  BY <1>1, <1>2, TypeCorrect, PTL DEF Spec
-----------------------------------------------------------------------------
\* The statuses of TaskPool, read off the executor.
status == [t \in Tasks |-> Status(t)]

\* What each status says of a task that is in one place only.
LEMMA StatusMeans ==
  ASSUME OnePlace, NEW t \in Tasks
  PROVE  /\ Status(t) = "queued" <=> t \in Items(queue_) \cup Items(funcQueue_)
         /\ Status(t) = "running" <=> t \in InFlight
         /\ Status(t) = "done" <=> t \in done
         /\ Fresh(t) => Status(t) = "new"
<1>1. Fresh(t) => Status(t) = "new"
  BY FreshNowhere DEF Status
<1>2. QED
  BY <1>1 DEF Status, OnePlace

\* While a worker is not running, fewer tasks run than there are workers.
LEMMA RunningBelowWorkers ==
  ASSUME TypeOK, NEW w \in Workers, task[w] = NoTask
  PROVE  Cardinality(InFlight) < Cardinality(Workers)
<1> DEFINE S == {v \in Workers : task[v] # NoTask}
           g == [v \in S |-> task[v]]
<1>1. S \subseteq Workers \ {w}
  OBVIOUS
<1>2. /\ IsFiniteSet(Workers \ {w})
      /\ Cardinality(Workers \ {w}) = Cardinality(Workers) - 1
      /\ Cardinality(Workers) \in Nat
  BY ExecutorAssumption, FS_RemoveElement, FS_CardinalityType
<1>3. IsFiniteSet(S) /\ Cardinality(S) <= Cardinality(Workers \ {w})
  BY <1>1, <1>2, FS_Subset
<1>4. g \in Surjection(S, InFlight)
  <2>1. g \in [S -> InFlight]
    BY DEF InFlight
  <2>2. \A t \in InFlight : \E v \in S : g[v] = t
    BY DEF InFlight
  <2>3. QED
    BY <2>1, <2>2 DEF Surjection
<1>5. IsFiniteSet(InFlight) /\ Cardinality(InFlight) <= Cardinality(S)
  BY <1>3, <1>4, FS_Surjection
<1>6. Cardinality(InFlight) \in Nat /\ Cardinality(S) \in Nat
  BY <1>3, <1>5, FS_CardinalityType
<1>7. QED
  BY <1>2, <1>3, <1>5, <1>6

\* The running tasks of TaskPool are those in flight.
LEMMA RunningInFlight ==
  ASSUME TypeOK, OnePlace
  PROVE  Pool!Running = InFlight
<1>1. InFlight \subseteq Tasks
  BY DEF InFlight, TypeOK
<1>2. \A t \in Tasks : status[t] = "running" <=> t \in InFlight
  BY StatusMeans DEF status
<1>3. QED
  BY <1>1, <1>2 DEF Pool!Running, Pool!Tasks, Tasks, status

\* The tasks that eviction drops are the first half of the queue.
LEMMA OldestItems ==
  ASSUME NEW S, NEW q \in Seq(S), Full(q), NEW x
  PROVE  x \in Items(Oldest(q)) <=> \E i \in 1 .. Half : q[i] = x
<1>1. Half \in Nat /\ Half <= Len(q) /\ Len(q) \in Nat
  BY ExecutorAssumption DEF Full, Half
<1> DEFINE h == Half
<1> HIDE DEF h
<1>2. h \in Nat /\ h <= Len(q) /\ Len(q) \in Nat
  BY <1>1 DEF h
<1> DEFINE o == SubSeq(q, 1, h)
<1>3. Len(o) = h /\ \A i \in 1 .. h : o[i] = q[i]
  BY <1>2
<1> HIDE DEF o
<1>4. x \in {o[i] : i \in 1 .. Len(o)} <=> \E i \in 1 .. h : q[i] = x
  BY <1>3
<1>5. QED
  BY <1>4 DEF Items, Oldest, o, h

\* Accepting a function is a step of TaskPool.
LEMMA ExecuteFuncRefines ==
  ASSUME TypeOK, OnePlace, NEW f \in Funcs, ExecuteFunc(f)
  PROVE  Pool!AcceptFunc(f)
<1>1. f \in Tasks /\ Fresh(f) /\ queue_' = queue_ /\ task' = task
      /\ done' = done /\ rejected' = rejected
  BY DEF ExecuteFunc, Tasks
<1>2. status[f] = "new"
  BY <1>1, StatusMeans DEF status
<1>3. /\ f \notin Items(queue_) /\ f \notin Items(funcQueue_) /\ f \notin InFlight
      /\ f \notin done /\ f \notin dropped /\ f \notin rejected
  BY <1>1, FreshNowhere
<1>4. funcQueue_ \in Seq(Funcs) /\ Items(queue_') = Items(queue_) /\ InFlight' = InFlight
  BY <1>1 DEF TypeOK, InFlight
<1>5. CASE Full(funcQueue_)
  <2>1. /\ Items(funcQueue_) = Items(Rest(funcQueue_)) \cup Items(Oldest(funcQueue_))
        /\ Items(Rest(funcQueue_)) \cap Items(Oldest(funcQueue_)) = {}
        /\ Rest(funcQueue_) \in Seq(Funcs) /\ Half \in Nat
    BY <1>4, <1>5, RestItems, RestType DEF OnePlace
  <2>2. /\ funcQueue_' = Append(Rest(funcQueue_), f)
        /\ dropped' = dropped \cup Items(Oldest(funcQueue_))
    BY <1>5 DEF ExecuteFunc
  <2>3. Items(funcQueue_') = Items(Rest(funcQueue_)) \cup {f}
    BY <2>1, <2>2, AppendItems
  <2>4. Half \in Pool!Droppable(funcQueue_)
    BY <1>4, <1>5, ExecutorAssumption DEF Pool!Droppable, Full, Half
  <2>5. ASSUME NEW x \in Tasks
        PROVE  Status(x)' = IF x = f THEN "queued"
                            ELSE IF x \in Items(Oldest(funcQueue_)) THEN "dropped"
                            ELSE Status(x)
    BY <1>1, <1>3, <1>4, <2>1, <2>2, <2>3, QueuesApart DEF Status, OnePlace
  <2>6. status' = Pool!Moved(funcQueue_, Half, f, "queued")
    <3>1. \A x \in Tasks : x \in Items(Oldest(funcQueue_))
                             <=> \E i \in 1 .. Half : funcQueue_[i] = x
      BY <1>4, <1>5, OldestItems
    <3>2. QED
      BY <2>5, <3>1 DEF status, Pool!Moved, Pool!Tasks, Tasks
  <2>7. queue_' = queue_ /\ funcQueue_' = Append(SubSeq(funcQueue_, Half + 1, Len(funcQueue_)), f)
    BY <1>1, <2>2 DEF Rest
  <2>8. QED
    BY <1>2, <2>4, <2>6, <2>7 DEF Pool!AcceptFunc, status
<1>6. CASE ~Full(funcQueue_)
  <2>1. funcQueue_' = Append(funcQueue_, f) /\ dropped' = dropped
    BY <1>6 DEF ExecuteFunc
  <2>2. Items(funcQueue_') = Items(funcQueue_) \cup {f}
    BY <1>4, <2>1, AppendItems
  <2>3. 0 \in Pool!Droppable(funcQueue_)
    BY <1>4 DEF Pool!Droppable
  <2>4. ASSUME NEW x \in Tasks
        PROVE  Status(x)' = IF x = f THEN "queued" ELSE Status(x)
    BY <1>1, <1>3, <1>4, <2>1, <2>2 DEF Status
  <2>5. status' = Pool!Moved(funcQueue_, 0, f, "queued")
    BY <2>4 DEF status, Pool!Moved, Pool!Tasks, Tasks
  <2>6. funcQueue_' = Append(SubSeq(funcQueue_, 0 + 1, Len(funcQueue_)), f)
    BY <1>4, <2>1
  <2>7. QED
    BY <1>1, <1>2, <2>3, <2>5, <2>6 DEF Pool!AcceptFunc, status
<1>7. QED
  BY <1>5, <1>6

\* Accepting a Runnable is a step of TaskPool.
LEMMA AcceptRunnableRefines ==
  ASSUME TypeOK, OnePlace, NEW r \in Runnables, AcceptRunnable(r)
  PROVE  Pool!AcceptRunnable(r)
<1>1. /\ r \in Tasks /\ Fresh(r) /\ funcQueue_' = funcQueue_ /\ task' = task
      /\ done' = done /\ dropped' = dropped /\ rejected' = rejected
      /\ queue_' = Append(queue_, r)
  BY DEF AcceptRunnable, Tasks
<1>2. status[r] = "new"
  BY <1>1, StatusMeans DEF status
<1>3. queue_ \in Seq(Runnables) /\ InFlight' = InFlight
      /\ Items(funcQueue_') = Items(funcQueue_)
  BY <1>1 DEF TypeOK, InFlight
<1>4. Items(queue_') = Items(queue_) \cup {r}
  BY <1>1, <1>3, AppendItems
<1>5. ASSUME NEW x \in Tasks
      PROVE  Status(x)' = IF x = r THEN "queued" ELSE Status(x)
  BY <1>1, <1>3, <1>4 DEF Status
<1>6. status' = [status EXCEPT ![r] = "queued"]
  BY <1>5 DEF status
<1>7. QED
  BY <1>1, <1>2, <1>6 DEF Pool!AcceptRunnable, status

\* Refusing a Runnable is a step of TaskPool.
LEMMA RejectRunnableRefines ==
  ASSUME TypeOK, OnePlace, NEW r \in Runnables, RejectRunnable(r)
  PROVE  Pool!RejectRunnable(r)
<1>1. /\ r \in Tasks /\ Fresh(r) /\ funcQueue_' = funcQueue_ /\ task' = task
      /\ done' = done /\ dropped' = dropped \cup Items(Oldest(queue_))
      /\ rejected' = rejected \cup {r} /\ queue_' = Rest(queue_) /\ Full(queue_)
  BY DEF RejectRunnable, Tasks
<1>2. status[r] = "new"
  BY <1>1, StatusMeans DEF status
<1>3. queue_ \in Seq(Runnables) /\ InFlight' = InFlight
      /\ Items(funcQueue_') = Items(funcQueue_)
  BY <1>1 DEF TypeOK, InFlight
<1>4. /\ r \notin Items(queue_) /\ r \notin Items(funcQueue_) /\ r \notin InFlight
      /\ r \notin done /\ r \notin dropped /\ r \notin rejected
  BY <1>1, FreshNowhere
<1>5. /\ Items(queue_) = Items(queue_') \cup Items(Oldest(queue_))
      /\ Items(queue_') \cap Items(Oldest(queue_)) = {}
      /\ Half \in Nat
  BY <1>1, <1>3, RestItems, RestType DEF OnePlace
<1>6. QueueSize >= 0 /\ Len(queue_) > QueueSize /\ Half \in Pool!Droppable(queue_)
  BY <1>1, <1>3, ExecutorAssumption DEF Pool!Droppable, Full, Half
<1>7. ASSUME NEW x \in Tasks
      PROVE  Status(x)' = IF x = r THEN "rejected"
                          ELSE IF x \in Items(Oldest(queue_)) THEN "dropped"
                          ELSE Status(x)
  BY <1>1, <1>3, <1>4, <1>5, QueuesApart DEF Status, OnePlace
<1>8. status' = Pool!Moved(queue_, Half, r, "rejected")
  <2>1. \A x \in Tasks : x \in Items(Oldest(queue_))
                           <=> \E i \in 1 .. Half : queue_[i] = x
    BY <1>1, <1>3, OldestItems
  <2>2. QED
    BY <1>7, <2>1 DEF status, Pool!Moved, Pool!Tasks, Tasks
<1>9. queue_' = SubSeq(queue_, Half + 1, Len(queue_))
  BY <1>1 DEF Rest
<1>10. QED
  BY <1>1, <1>2, <1>6, <1>8, <1>9 DEF Pool!RejectRunnable, status

\* A worker that takes a task is a Start of TaskPool.
LEMMA TakeRefines ==
  ASSUME TypeOK, OnePlace, NEW w \in Workers, TakeRunnable(w) \/ TakeFunc(w)
  PROVE  Pool!Start
<1>0. queue_ \in Seq(Runnables) /\ funcQueue_ \in Seq(Funcs)
  BY DEF TypeOK
<1>1. done' = done /\ dropped' = dropped /\ rejected' = rejected /\ pc[w] = "ready"
  BY DEF TakeRunnable, TakeFunc
<1>2. task[w] = NoTask
  BY <1>1 DEF TypeOK
<1>3. Pool!Cardinality(Pool!Running) < Cardinality(Workers)
  <2>1. Pool!Cardinality(Pool!Running) = Cardinality(Pool!Running)
    BY DEF Pool!Cardinality, Cardinality
  <2>2. QED
    BY <1>2, <2>1, RunningBelowWorkers, RunningInFlight
<1>4. CASE TakeRunnable(w)
  <2>1. /\ queue_ # <<>> /\ queue_' = Tail(queue_) /\ funcQueue_' = funcQueue_
        /\ task' = [task EXCEPT ![w] = Head(queue_)]
    BY <1>4 DEF TakeRunnable
  <2>2. /\ Head(queue_) \in Items(queue_)
        /\ Items(queue_') = Items(queue_) \ {Head(queue_)}
        /\ Items(funcQueue_') = Items(funcQueue_)
    BY <1>0, <2>1, TailItems DEF OnePlace
  <2>3. Head(queue_) \in Tasks /\ Head(queue_) \notin Items(funcQueue_)
    BY <2>2, QueuesApart DEF Tasks
  <2>4. InFlight' = InFlight \cup {Head(queue_)}
    BY <1>1, <2>1, <2>3, TakenInFlight
  <2>5. ASSUME NEW x \in Tasks
        PROVE  Status(x)' = IF x = Head(queue_) THEN "running" ELSE Status(x)
    BY <1>1, <2>1, <2>2, <2>3, <2>4 DEF Status, OnePlace
  <2>6. status' = [status EXCEPT ![Head(queue_)] = "running"]
    BY <2>5 DEF status
  <2>7. QED
    BY <1>3, <2>1, <2>6 DEF Pool!Start, Pool!StartRunnable, status
<1>5. CASE TakeFunc(w)
  <2>1. /\ funcQueue_ # <<>> /\ funcQueue_' = Tail(funcQueue_) /\ queue_' = queue_
        /\ task' = [task EXCEPT ![w] = Head(funcQueue_)]
    BY <1>5 DEF TakeFunc
  <2>2. /\ Head(funcQueue_) \in Items(funcQueue_)
        /\ Items(funcQueue_') = Items(funcQueue_) \ {Head(funcQueue_)}
        /\ Items(queue_') = Items(queue_)
    BY <1>0, <2>1, TailItems DEF OnePlace
  <2>3. Head(funcQueue_) \in Tasks /\ Head(funcQueue_) \notin Items(queue_)
    BY <2>2, QueuesApart DEF Tasks
  <2>4. InFlight' = InFlight \cup {Head(funcQueue_)}
    BY <1>1, <2>1, <2>3, TakenInFlight
  <2>5. ASSUME NEW x \in Tasks
        PROVE  Status(x)' = IF x = Head(funcQueue_) THEN "running" ELSE Status(x)
    BY <1>1, <2>1, <2>2, <2>3, <2>4 DEF Status, OnePlace
  <2>6. status' = [status EXCEPT ![Head(funcQueue_)] = "running"]
    BY <2>5 DEF status
  <2>7. QED
    BY <1>3, <2>1, <2>6 DEF Pool!Start, Pool!StartFunc, status
<1>6. QED
  BY <1>4, <1>5

\* The return of a task is a Finish of TaskPool.
LEMMA FinishRefines ==
  ASSUME TypeOK, OnePlace, NEW w \in Workers, Finish(w)
  PROVE  task[w] \in Tasks /\ Pool!Finish(task[w])
<1>1. /\ queue_' = queue_ /\ funcQueue_' = funcQueue_
      /\ dropped' = dropped /\ rejected' = rejected
      /\ done' = done \cup {task[w]}
      /\ task' = [task EXCEPT ![w] = NoTask] /\ pc[w] = "running"
  BY DEF Finish
<1>2. /\ task \in [Workers -> Tasks \cup {NoTask}]
      /\ task[w] # NoTask /\ task[w] \in Tasks
  BY <1>1 DEF TypeOK
<1>3. task[w] \in InFlight /\ InFlight' = InFlight \ {task[w]}
  <2>1. task'[w] = NoTask /\ \A v \in Workers \ {w} : task'[v] = task[v]
    BY <1>1, <1>2
  <2>2. \A v \in Workers \ {w} : task[v] # task[w]
    BY <1>2 DEF OnePlace
  <2>3. QED
    BY <1>2, <2>1, <2>2 DEF InFlight
<1>4. status[task[w]] = "running"
  BY <1>2, <1>3, StatusMeans DEF status
<1>5. Items(queue_') = Items(queue_) /\ Items(funcQueue_') = Items(funcQueue_)
  BY <1>1
<1>6. ASSUME NEW x \in Tasks
      PROVE  Status(x)' = IF x = task[w] THEN "done" ELSE Status(x)
  BY <1>1, <1>3, <1>5 DEF Status, OnePlace
<1>7. status' = [status EXCEPT ![task[w]] = "done"]
  BY <1>6 DEF status
<1>8. QED
  BY <1>1, <1>2, <1>4, <1>7 DEF Pool!Finish, status

\* The executor implements TaskPool: whatever it does, its callers see tasks
\* start in the order accepted, only the oldest of an overfull queue dropped,
\* and never more tasks running than workers.
THEOREM ExecutorRefinesTaskPool == Spec => ImplementsTaskPool
<1>1. Init => Pool!Init
  <2> SUFFICES ASSUME Init PROVE Pool!Init
    OBVIOUS
  <2>1. /\ queue_ = <<>> /\ funcQueue_ = <<>> /\ done = {} /\ dropped = {}
        /\ rejected = {} /\ task = [w \in Workers |-> NoTask]
    BY DEF Init
  <2>2. InFlight = {} /\ Items(queue_) = {} /\ Items(funcQueue_) = {}
    BY <2>1 DEF InFlight, Items
  <2>3. \A t \in Tasks : Status(t) = "new"
    BY <2>1, <2>2 DEF Status
  <2>4. QED
    BY <2>1, <2>3 DEF Pool!Init, Pool!Tasks, Tasks
<1>2. TypeOK /\ OnePlace /\ [Next]_vars => [Pool!Next]_(Pool!vars)
  <2> SUFFICES ASSUME TypeOK, OnePlace, [Next]_vars
               PROVE  [Pool!Next]_(Pool!vars)
    OBVIOUS
  <2>1. CASE UNCHANGED <<queue_, funcQueue_, task, done, dropped, rejected>>
    <3>1. status' = status
      BY <2>1 DEF status, Status, InFlight, Items
    <3>2. QED
      BY <2>1, <3>1 DEF Pool!vars, status
  <2>2. ASSUME NEW f \in Funcs, ExecuteFunc(f) PROVE Pool!Next
    BY <2>2, ExecuteFuncRefines DEF Pool!Next
  <2>3. ASSUME NEW r \in Runnables, AcceptRunnable(r) PROVE Pool!Next
    BY <2>3, AcceptRunnableRefines DEF Pool!Next
  <2>4. ASSUME NEW r \in Runnables, RejectRunnable(r) PROVE Pool!Next
    BY <2>4, RejectRunnableRefines DEF Pool!Next
  <2>5. ASSUME NEW w \in Workers, TakeRunnable(w) \/ TakeFunc(w) PROVE Pool!Next
    BY <2>5, TakeRefines DEF Pool!Next
  <2>6. ASSUME NEW w \in Workers, Finish(w) PROVE Pool!Next
    BY <2>6, FinishRefines DEF Pool!Next, Pool!Tasks, Tasks
  <2>7. ASSUME NEW w \in Workers, Wait(w) \/ SpuriousWakeup(w)
        PROVE  UNCHANGED <<queue_, funcQueue_, task, done, dropped, rejected>>
    BY <2>7 DEF Wait, SpuriousWakeup
  <2>8. QED
    BY <2>1, <2>2, <2>3, <2>4, <2>5, <2>6, <2>7 DEF Next, Execute, Run, vars
<1>3. QED
  BY <1>1, <1>2, TypeCorrect, NothingTwice, PTL DEF Spec, ImplementsTaskPool, Pool!Safety
-----------------------------------------------------------------------------
\* So few tasks of a kind that its queue never becomes overfull while another
\* one is submitted: queueSize_ + 1, or any number if the bound is negative.
Fits(S) ==
  QueueSize < 0 \/ (IsFiniteSet(S) /\ Cardinality(S) <= QueueSize + 1)

\* A queue that is overfull and one task more are too many.
LEMMA FitsNotFull ==
  ASSUME NEW S, Fits(S), NEW q \in Seq(S), Injective(q), NEW t \in S, t \notin Items(q)
  PROVE  ~Full(q)
<1> SUFFICES ASSUME Full(q) PROVE FALSE
  OBVIOUS
<1>1. QueueSize \in Int /\ QueueSize >= 0 /\ Len(q) \in Nat /\ Len(q) > QueueSize
  BY ExecutorAssumption DEF Full
<1>2. IsFiniteSet(S) /\ Cardinality(S) <= QueueSize + 1 /\ Cardinality(S) \in Nat
  BY <1>1, FS_CardinalityType DEF Fits
<1> DEFINE a == Append(q, t)
           n == Len(q) + 1
<1>3. a \in Seq(S) /\ Len(a) = n
  OBVIOUS
<1>4. Injective(a)
  BY AppendItems
<1> HIDE DEF a, n
<1>5. a \in Injection(1 .. n, S)
  <2>1. a \in [1 .. n -> S]
    BY <1>3
  <2>2. QED
    BY <1>3, <1>4, <2>1 DEF Injective, Injection, IsInjective
<1>6. Cardinality(1 .. n) <= Cardinality(S)
  BY <1>2, <1>5, FS_Injection
<1>7. n \in Nat /\ n >= QueueSize + 2
  BY <1>1 DEF n
<1>8. Cardinality(1 .. n) = n
  BY <1>7, FS_Interval
<1>9. QED
  BY <1>1, <1>2, <1>6, <1>7, <1>8

\* An executor that is never asked for more than fits its queues drops and
\* refuses nothing, however long its workers are busy: only the backlog counts
\* against queueSize_, not what runs or has run.
THEOREM NothingLost ==
  ASSUME Fits(Runnables), Fits(Funcs)
  PROVE  Spec => [](dropped = {} /\ rejected = {})
<1> DEFINE Kept == dropped = {} /\ rejected = {}
<1>1. Init => Kept
  BY DEF Init
<1>2. TypeOK /\ OnePlace /\ Kept /\ [Next]_vars => Kept'
  <2> SUFFICES ASSUME TypeOK, OnePlace, Kept, [Next]_vars PROVE Kept'
    OBVIOUS
  <2>1. /\ queue_ \in Seq(Runnables) /\ funcQueue_ \in Seq(Funcs)
        /\ Injective(queue_) /\ Injective(funcQueue_)
    BY DEF TypeOK, OnePlace
  <2>2. ASSUME NEW f \in Funcs, ExecuteFunc(f) PROVE Kept'
    <3>1. f \notin Items(funcQueue_)
      BY <2>2 DEF ExecuteFunc, Fresh
    <3>2. ~Full(funcQueue_)
      BY <2>1, <3>1, FitsNotFull
    <3>3. QED
      BY <2>2, <3>2 DEF ExecuteFunc
  <2>3. ASSUME NEW r \in Runnables, RejectRunnable(r) PROVE FALSE
    <3>1. r \notin Items(queue_) /\ Full(queue_)
      BY <2>3 DEF RejectRunnable, Fresh
    <3>2. QED
      BY <2>1, <3>1, FitsNotFull
  <2>4. CASE UNCHANGED <<dropped, rejected>>
    BY <2>4
  <2>5. QED
    BY <2>2, <2>3, <2>4
       DEF Next, Execute, AcceptRunnable, Run, Wait, TakeRunnable, TakeFunc, Finish,
           SpuriousWakeup, vars
<1>3. QED
  BY <1>1, <1>2, TypeCorrect, NothingTwice, PTL DEF Spec
=============================================================================
