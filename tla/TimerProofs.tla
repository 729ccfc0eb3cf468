---------------------------- MODULE TimerProofs ----------------------------
(***************************************************************************)
(* Safety of Timer for any number of jobs, any periods and any counts.     *)
(***************************************************************************)
EXTENDS Timer, FiniteSetTheorems, WellFoundedInduction, TLAPS

\* The tasks in the heap and in the vector that run() works on.
Kept == tasks_ \cup due \cup ran

\* The tasks that are still to be run.
ToRun == tasks_ \cup due \cup Pending

\* A job has one task and the task one place.
OneTask ==
  /\ \A t, u \in Kept : t.job = u.job => t = u
  /\ tasks_ \cap due = {} /\ tasks_ \cap ran = {} /\ due \cap ran = {}
  /\ \A a \in Adders, t \in Kept : pending[a] # Nothing => pending[a].job # t.job
  /\ \A a, b \in Adders :
       /\ pending[a] # Nothing /\ pending[b] # Nothing
       /\ pending[a].job = pending[b].job
       => a = b
  /\ \A j \in Jobs : pending[j] # Nothing => pending[j].job = j

\* run() has tasks in its vector only while it runs them or adds them back.
Phases ==
  /\ due # {} => pc = "run"
  /\ ran # {} => pc \in {"run", "again"}
  /\ pending[TimerThd] # Nothing => pc = "again"

\* The task agrees with the calls that are still to come, plus those made and
\* not yet counted.
Agrees(t, made) ==
  /\ left[t.job] # Nothing
  /\ t.everest <=> left[t.job] = -1
  /\ t.everest => t.callCnt <= 0
  /\ ~t.everest => t.callCnt = left[t.job] + made

Counted ==
  /\ \A t \in ToRun : Agrees(t, 0) /\ left[t.job] # 0
  /\ \A t \in ran : Agrees(t, 1)
  /\ \A j \in Jobs :
       left[j] \notin {Nothing, 0} => \E t \in Kept \cup Pending : t.job = j

\* A task is stamped at least its period after its job was added or last called.
Stamped ==
  /\ \A t \in ToRun : t.stamp >= since[t.job] + t.seconds
  /\ \A t \in Kept \cup Pending : t.stamp >= MinInt /\ t.seconds >= MinInt
  /\ \A j \in Jobs : since[j] <= now
  /\ current <= now
  /\ \A t \in due : t.stamp <= current

IInv == TypeOK /\ OneTask /\ Phases /\ Counted /\ Stamped /\ NeverOversleeps
-----------------------------------------------------------------------------
\* Every set of natural numbers that is not empty has a smallest one.
LEMMA NatMin ==
  ASSUME NEW T, T \subseteq Nat, T # {}
  PROVE  \E m \in T : \A n \in T : m <= n
<1>1. PICK m \in T : \A n \in T : ~(<<n, m>> \in OpToRel(<, Nat))
  BY NatLessThanWellFounded, WFMin
<1>2. \A n \in T : <<n, m>> \in OpToRel(<, Nat) <=> n < m
  BY DEF OpToRel
<1>3. \A n \in T : ~(n < m) /\ n \in Nat /\ m \in Nat
  BY <1>1, <1>2
<1> QED BY <1>3

\* std::pop_heap finds a task: the stamps of a heap have a smallest one.
LEMMA FirstExists ==
  ASSUME NEW S, S \subseteq Task, S # {}, \A t \in S : t.stamp >= MinInt
  PROVE  First(S) # {} /\ First(S) \subseteq S
<1> DEFINE T == {t.stamp - MinInt : t \in S}
<1>1. \A t \in S : t.stamp \in Int /\ t.stamp - MinInt \in Nat
  BY DEF Task, MinInt
<1>2. T \subseteq Nat /\ T # {}
  BY <1>1
<1>3. PICK m \in T : \A n \in T : m <= n
  BY <1>2, NatMin
<1>4. PICK t \in S : m = t.stamp - MinInt
  BY <1>3
<1>5. \A u \in S : t.stamp <= u.stamp
  <2> TAKE u \in S
  <2>1. t.stamp - MinInt <= u.stamp - MinInt
    BY <1>3, <1>4
  <2> QED BY <2>1, <1>1 DEF MinInt
<1> QED BY <1>5 DEF First
-----------------------------------------------------------------------------
\* Nothing is queued or running when the timer starts.
LEMMA IInvInit == Init => IInv
<1> SUFFICES ASSUME Init PROVE IInv
  OBVIOUS
<1>1. TypeOK
  BY DEF Init, TypeOK
<1>2. Pending = {} /\ Kept = {} /\ ToRun = {}
  BY DEF Init, Pending, Kept, ToRun
<1>3. \A a \in Adders : pending[a] = Nothing
  BY DEF Init
<1>4. OneTask
  BY <1>2, <1>3 DEF Init, OneTask, Adders
<1>5. Phases
  BY <1>3 DEF Init, Phases, Adders
<1>6. NeverOversleeps
  BY DEF Init, NeverOversleeps
<1>7. Counted /\ Stamped
  BY <1>2 DEF Init, Counted, Stamped
<1> QED BY <1>1, <1>4, <1>5, <1>6, <1>7 DEF IInv

\* What a tick of the clock, a stutter and a step that only moves pc keep.
LEMMA Idle ==
  ASSUME IInv, UNCHANGED <<tasks_, due, ran, pending, left, since>>,
         now' \in Nat, now' >= now, current' \in Nat, current' <= now',
         due = {} \/ current' = current,
         pc' \in {"clock", "collect", "run", "again", "lock", "sleep"},
         deadline' \in Nat \cup {Nothing}, NeverOversleeps', Phases'
  PROVE  IInv'
<1>1. TypeOK'
  BY DEF IInv, TypeOK
<1>2. Pending' = Pending /\ Kept' = Kept /\ ToRun' = ToRun
  BY DEF Pending, Kept, ToRun
<1>3. OneTask'
  BY <1>2 DEF IInv, OneTask
<1>4. Counted'
  BY <1>2 DEF IInv, Counted, Agrees
<1>5. Stamped'
  BY <1>2 DEF IInv, Stamped, TypeOK
<1> QED BY <1>1, <1>3, <1>4, <1>5 DEF IInv

\* The steps that leave the tasks where they are.
LEMMA QuietSteps ==
  ASSUME IInv,
         Tick \/ ReadClock \/ AllRun \/ AllAgain \/ Sleep \/ Wake
           \/ UNCHANGED vars
  PROVE  IInv'
<1>1. CASE Tick
  <2>1. NeverOversleeps' /\ Phases'
    BY <1>1 DEF Tick, IInv, NeverOversleeps, Phases
  <2> QED BY <1>1, <2>1, Idle DEF Tick, IInv, TypeOK, Stamped
<1>2. CASE ReadClock
  <2>1. NeverOversleeps' /\ Phases' /\ due = {}
    BY <1>2 DEF ReadClock, IInv, NeverOversleeps, Phases
  <2> QED BY <1>2, <2>1, Idle DEF ReadClock, IInv, TypeOK, Stamped
<1>3. CASE AllRun
  <2>1. NeverOversleeps' /\ Phases'
    BY <1>3 DEF AllRun, IInv, NeverOversleeps, Phases
  <2> QED BY <1>3, <2>1, Idle DEF AllRun, IInv, TypeOK, Stamped
<1>4. CASE AllAgain
  <2>1. NeverOversleeps' /\ Phases'
    BY <1>4 DEF AllAgain, IInv, NeverOversleeps, Phases
  <2> QED BY <1>4, <2>1, Idle DEF AllAgain, IInv, TypeOK, Stamped
<1>5. CASE Sleep
  <2>1. Phases'
    BY <1>5 DEF Sleep, IInv, Phases
  <2>2. CASE NextTimeout = 0
    <3>1. NeverOversleeps' /\ deadline' = deadline /\ pc' = "clock"
      BY <1>5, <2>2 DEF Sleep, NeverOversleeps
    <3> QED BY <1>5, <2>1, <3>1, Idle DEF Sleep, IInv, TypeOK, Stamped
  <2>3. CASE NextTimeout # 0 /\ tasks_ = {}
    <3>1. NextTimeout = -1
      BY <2>3 DEF NextTimeout
    <3>2. deadline' = Nothing /\ pc' = "sleep" /\ tasks_' = {}
      BY <1>5, <2>3, <3>1 DEF Sleep
    <3>3. NeverOversleeps'
      BY <3>2 DEF NeverOversleeps
    <3> QED BY <1>5, <2>1, <3>2, <3>3, Idle DEF Sleep, IInv, TypeOK, Stamped
  <2>4. CASE NextTimeout # 0 /\ tasks_ # {}
    <3> DEFINE t == CHOOSE u \in First(tasks_) : TRUE
    <3>1. First(tasks_) # {}
      BY <2>4, FirstExists DEF IInv, TypeOK, Stamped, Kept
    <3>2. t \in First(tasks_)
      BY <3>1
    <3>3. t \in tasks_ /\ \A u \in tasks_ : t.stamp <= u.stamp
      BY <3>2 DEF First
    <3>4. NextTimeout = IF t.stamp > now THEN t.stamp - now ELSE 0
      BY <2>4 DEF NextTimeout
    <3> HIDE DEF t
    <3>5. t.stamp \in Int /\ now \in Nat
      BY <3>3 DEF IInv, TypeOK, Task
    <3>6. NextTimeout = t.stamp - now /\ t.stamp > now
      BY <2>4, <3>4
    <3>7. pc' = "sleep" /\ deadline' \in {t.stamp, t.stamp + 1}
      BY <1>5, <2>4, <3>5, <3>6 DEF Sleep
    <3>8. deadline' \in Nat /\ deadline' <= t.stamp + 1
      BY <3>5, <3>6, <3>7
    <3>9. \A u \in tasks_ : deadline' <= u.stamp + 1
      BY <3>3, <3>5, <3>8 DEF IInv, TypeOK, Task
    <3>10. NeverOversleeps'
      BY <1>5, <3>8, <3>9, TimerAssumption DEF Sleep, NeverOversleeps
    <3> QED
      BY <1>5, <2>1, <3>7, <3>8, <3>10, Idle DEF Sleep, IInv, TypeOK, Stamped
  <2> QED BY <2>2, <2>3, <2>4
<1>6. CASE Wake
  <2>1. NeverOversleeps' /\ Phases'
    BY <1>6 DEF Wake, IInv, NeverOversleeps, Phases
  <2> QED BY <1>6, <2>1, Idle DEF Wake, IInv, TypeOK, Stamped
<1>7. CASE UNCHANGED vars
  <2>1. NeverOversleeps' /\ Phases'
    BY <1>7 DEF vars, IInv, NeverOversleeps, Phases
  <2> QED BY <1>7, <2>1, Idle DEF vars, IInv, TypeOK, Stamped
<1> QED BY <1>1, <1>2, <1>3, <1>4, <1>5, <1>6, <1>7

\* A job that was never added has no task anywhere.
LEMMA Unknown ==
  ASSUME IInv, NEW j \in Jobs, left[j] = Nothing
  PROVE  /\ \A t \in Kept : t.job # j
         /\ \A a \in Adders : pending[a] # Nothing => pending[a].job # j
<1>1. \A t \in Kept : t.job # j
  BY DEF IInv, Counted, Agrees, Kept, ToRun
<1>2. \A a \in Adders : pending[a] # Nothing => pending[a] \in ToRun
  BY DEF ToRun, Pending
<1>3. \A t \in ToRun : t.job # j
  BY DEF IInv, Counted, Agrees
<1> QED BY <1>1, <1>2, <1>3

\* addFunc: the job's first task, still with its caller.
LEMMA AddFuncStep ==
  ASSUME IInv, NEW j \in Jobs, AddFunc(j)
  PROVE  IInv'
<1>1. PICK sec \in Secs, count \in Counts :
        /\ pending' = [pending EXCEPT ![j] = NewTask(j, sec, count)]
        /\ left' = [left EXCEPT ![j] = IF count <= 0 THEN -1 ELSE count]
  BY DEF AddFunc
<1>2. left[j] = Nothing /\ since' = [since EXCEPT ![j] = now]
      /\ UNCHANGED <<now, tasks_, pc, current, deadline, due, ran>>
  BY DEF AddFunc
<1> DEFINE t == NewTask(j, sec, count)
<1>3. sec \in Int /\ sec >= MinInt /\ count \in Int /\ now \in Nat
  BY TimerAssumption DEF IInv, TypeOK
<1>4. /\ t \in Task /\ t.job = j /\ t.seconds = sec /\ t.stamp = now + sec
      /\ t.everest <=> count <= 0
      /\ t.callCnt = count /\ t # Nothing
  <2>1. t \in Task /\ t.job = j /\ t.seconds = sec /\ t.stamp = now + sec
        /\ t.callCnt = count
    BY <1>3 DEF NewTask, Task
  <2>2. t.everest <=> count <= 0
    BY DEF NewTask
  <2> QED BY <2>1, <2>2, TimerAssumption
<1> HIDE DEF t
<1>5. j \in Adders /\ pending' = [pending EXCEPT ![j] = t]
      /\ \A a \in Adders : pending'[a] = IF a = j THEN t ELSE pending[a]
  BY <1>1 DEF Adders, t, IInv, TypeOK
<1>6. /\ \A u \in Kept : u.job # j
      /\ \A a \in Adders : pending[a] # Nothing => pending[a].job # j
  BY <1>2, Unknown
<1>7. TypeOK'
  <2>1. left' \in [Jobs -> Nat \cup {-1, Nothing}]
    BY <1>1, <1>3 DEF IInv, TypeOK
  <2>2. pending' \in [Adders -> Task \cup {Nothing}]
    BY <1>4, <1>5 DEF IInv, TypeOK
  <2>3. since' \in [Jobs -> Nat]
    BY <1>2 DEF IInv, TypeOK
  <2> QED BY <1>2, <2>1, <2>2, <2>3 DEF IInv, TypeOK
<1>8. Kept' = Kept /\ Pending' \subseteq Pending \cup {t} /\ t \in Pending'
      /\ Pending \subseteq Pending'
  <2>1. pending[j] = Nothing
    BY <1>5, <1>6 DEF IInv, OneTask
  <2> QED BY <1>2, <1>4, <1>5, <2>1 DEF Kept, Pending
<1>9. ToRun' \subseteq ToRun \cup {t}
  BY <1>2, <1>8 DEF ToRun
<1>10. OneTask'
  <2>1. \A a \in Adders, u \in Kept' :
          pending'[a] # Nothing => pending'[a].job # u.job
    BY <1>4, <1>5, <1>6, <1>8 DEF IInv, OneTask
  <2>2. \A a, b \in Adders :
          /\ pending'[a] # Nothing /\ pending'[b] # Nothing
          /\ pending'[a].job = pending'[b].job
          => a = b
    BY <1>4, <1>5, <1>6 DEF IInv, OneTask
  <2>3. \A k \in Jobs : pending'[k] # Nothing => pending'[k].job = k
    BY <1>4, <1>5 DEF IInv, OneTask, Adders
  <2> QED BY <1>2, <1>8, <2>1, <2>2, <2>3 DEF IInv, OneTask
<1>11. Phases'
  BY <1>2, <1>5, TimerAssumption DEF IInv, Phases, Adders
<1>12. \A u \in ToRun \cup ran : u.job \in Jobs /\ u.job # j
  BY <1>6 DEF ToRun, Kept, Pending, IInv, TypeOK, Task
<1>13. Counted'
  <2>1. \A k \in Jobs : k # j => left'[k] = left[k]
    BY <1>1 DEF IInv, TypeOK
  <2>2. left'[j] = IF count <= 0 THEN -1 ELSE count
    BY <1>1 DEF IInv, TypeOK
  <2>3. left'[j] # Nothing /\ left'[j] # 0
        /\ (left'[j] = -1 <=> count <= 0)
    BY <2>2, <1>3, TimerAssumption
  <2>4. t.callCnt = count /\ (t.everest <=> left'[j] = -1)
        /\ (t.everest => t.callCnt <= 0)
    BY <1>4, <2>3
  <2>5. ~t.everest => t.callCnt = left'[j] + 0
    BY <1>3, <1>4, <2>2
  <2>6. \A u : u = t => Agrees(u, 0)' /\ left'[u.job] # 0
    BY <1>4, <2>3, <2>4, <2>5 DEF Agrees
  <2>7. \A u \in ToRun : Agrees(u, 0)' /\ left'[u.job] # 0
    BY <1>12, <2>1 DEF Agrees, IInv, Counted
  <2>8. \A u \in ran : Agrees(u, 1)'
    BY <1>12, <2>1 DEF Agrees, IInv, Counted
  <2>9. \A k \in Jobs : left'[k] \notin {Nothing, 0}
          => \E u \in Kept' \cup Pending' : u.job = k
    BY <1>4, <1>8, <2>1 DEF IInv, Counted
  <2> QED BY <1>2, <1>9, <2>6, <2>7, <2>8, <2>9 DEF Counted
<1>14. Stamped'
  <2>1. \A k \in Jobs : since'[k] = IF k = j THEN now ELSE since[k]
    BY <1>2 DEF IInv, TypeOK
  <2>2. \A u \in ToRun' : u.stamp >= since'[u.job] + u.seconds
    <3>1. t.stamp >= since'[t.job] + t.seconds
      BY <1>3, <1>4, <2>1
    <3> QED BY <1>9, <1>12, <2>1, <3>1 DEF IInv, Stamped
  <2>3. t.stamp >= MinInt /\ t.seconds >= MinInt
    BY <1>3, <1>4 DEF MinInt
  <2>4. \A u \in Kept' \cup Pending' : u.stamp >= MinInt /\ u.seconds >= MinInt
    BY <1>8, <2>3 DEF IInv, Stamped
  <2>5. \A k \in Jobs : since'[k] <= now'
    BY <1>2, <1>3, <2>1 DEF IInv, Stamped
  <2> QED BY <1>2, <2>2, <2>4, <2>5 DEF IInv, Stamped
<1>15. NeverOversleeps'
  BY <1>2 DEF IInv, NeverOversleeps
<1> QED BY <1>7, <1>10, <1>11, <1>13, <1>14, <1>15 DEF IInv

\* A stamped task reaches the heap; a caller wakes the timer thread.
LEMMA PushStep ==
  ASSUME IInv, NEW a \in Adders, Push(a)
  PROVE  IInv'
<1> DEFINE p == pending[a]
<1>1. p # Nothing /\ p \in Task /\ p \in Pending
  BY DEF Push, IInv, TypeOK, Pending
<1>2. tasks_' = tasks_ \cup {p} /\ UNCHANGED <<now, current, due, ran, left, since>>
  BY DEF Push
<1>3. /\ pending' \in [Adders -> Task \cup {Nothing}]
      /\ \A b \in Adders : pending'[b] = IF b = a THEN Nothing ELSE pending[b]
  BY DEF Push, IInv, TypeOK
<1>4. pc' \in {pc, "clock"} /\ deadline' \in {deadline, Nothing}
  BY DEF Push, Notify
<1>5. TypeOK'
  BY <1>1, <1>2, <1>3, <1>4 DEF IInv, TypeOK
<1>6. Kept' = Kept \cup {p} /\ Pending' \subseteq Pending
      /\ ToRun' \subseteq ToRun /\ Kept' \cup Pending' = Kept \cup Pending
  <2>1. Kept' = Kept \cup {p} /\ Pending' \subseteq Pending
    BY <1>2, <1>3 DEF Kept, Pending
  <2>2. Pending \subseteq Pending' \cup {p}
    BY <1>3 DEF Pending
  <2> QED BY <1>1, <1>2, <2>1, <2>2 DEF ToRun, Kept
<1>7. \A t \in Kept : t.job # p.job
  BY <1>1 DEF IInv, OneTask
<1>8. \A b \in Adders \ {a} : pending[b] # Nothing => pending[b].job # p.job
  BY <1>1 DEF IInv, OneTask
<1>9. OneTask'
  <2>1. \A t, u \in Kept' : t.job = u.job => t = u
    BY <1>6, <1>7 DEF IInv, OneTask
  <2>2. p \notin due /\ p \notin ran
    BY <1>7 DEF Kept
  <2>3. tasks_' \cap due' = {} /\ tasks_' \cap ran' = {} /\ due' \cap ran' = {}
    BY <1>2, <2>2 DEF IInv, OneTask
  <2>4. \A b \in Adders, t \in Kept' :
          pending'[b] # Nothing => pending'[b].job # t.job
    BY <1>3, <1>6, <1>8 DEF IInv, OneTask
  <2>5. \A b, c \in Adders :
          /\ pending'[b] # Nothing /\ pending'[c] # Nothing
          /\ pending'[b].job = pending'[c].job
          => b = c
    BY <1>3 DEF IInv, OneTask
  <2>6. \A k \in Jobs : pending'[k] # Nothing => pending'[k].job = k
    BY <1>3 DEF IInv, OneTask, Adders
  <2> QED BY <2>1, <2>3, <2>4, <2>5, <2>6 DEF OneTask
<1>10. Phases'
  <2>1. CASE a = TimerThd
    BY <1>2, <1>3, <2>1 DEF Push, IInv, Phases
  <2>2. CASE a # TimerThd
    <3>1. pc = "sleep" => due = {} /\ ran = {} /\ pending[TimerThd] = Nothing
      BY DEF IInv, Phases
    <3>2. pending'[TimerThd] = pending[TimerThd]
      BY <1>3, <2>2 DEF Adders
    <3> QED BY <1>2, <2>2, <3>1, <3>2 DEF Push, Notify, IInv, Phases
  <2> QED BY <2>1, <2>2
<1>11. Counted'
  BY <1>2, <1>6 DEF IInv, Counted, Agrees
<1>12. Stamped'
  BY <1>2, <1>6 DEF IInv, Stamped
<1>13. NeverOversleeps'
  <2>1. CASE a = TimerThd
    <3>1. pc = "again"
      BY <1>1, <2>1 DEF IInv, Phases
    <3> QED BY <2>1, <3>1 DEF Push, NeverOversleeps
  <2>2. CASE a # TimerThd
    BY <2>2 DEF Push, Notify, NeverOversleeps
  <2> QED BY <2>1, <2>2
<1> QED BY <1>5, <1>9, <1>10, <1>11, <1>12, <1>13 DEF IInv

\* getTimeoutTasks: the tasks that are due leave the heap for the vector.
LEMMA CollectStep ==
  ASSUME IInv, Collect
  PROVE  IInv'
<1>1. /\ pc = "collect" /\ pc' = "run"
      /\ due' = {t \in tasks_ : IsDue(t)} /\ tasks_' = tasks_ \ due'
      /\ UNCHANGED <<now, current, deadline, ran, pending, left, since>>
  BY DEF Collect
<1>2. due = {} /\ ran = {} /\ pending[TimerThd] = Nothing
  BY <1>1 DEF IInv, Phases
<1>3. Kept' = Kept /\ ToRun' = ToRun /\ Pending' = Pending
  BY <1>1, <1>2 DEF Kept, ToRun, Pending
<1>4. TypeOK'
  BY <1>1 DEF IInv, TypeOK
<1>5. OneTask'
  BY <1>1, <1>2, <1>3 DEF IInv, OneTask
<1>6. Phases'
  BY <1>1, <1>2 DEF Phases
<1>7. Counted'
  BY <1>1, <1>3 DEF IInv, Counted, Agrees
<1>8. Stamped'
  BY <1>1, <1>3 DEF IInv, Stamped, IsDue
<1>9. NeverOversleeps'
  BY <1>1 DEF NeverOversleeps
<1> QED BY <1>4, <1>5, <1>6, <1>7, <1>8, <1>9 DEF IInv

\* task.run(): the job of one collected task is called.
LEMMA RunStep ==
  ASSUME IInv, Run
  PROVE  IInv'
<1>1. PICK t \in First(due) :
        /\ due' = due \ {t} /\ ran' = ran \cup {t}
        /\ left' = [left EXCEPT ![t.job] = IF @ = -1 THEN -1 ELSE @ - 1]
        /\ since' = [since EXCEPT ![t.job] = now]
  BY DEF Run
<1>2. pc = "run" /\ UNCHANGED <<now, tasks_, pc, current, deadline, pending>>
  BY DEF Run
<1>3. t \in due /\ t \in Task /\ t.job \in Jobs
  BY DEF First, IInv, TypeOK, Task
<1>4. /\ Agrees(t, 0) /\ left[t.job] # 0
      /\ left[t.job] \in (Nat \ {0}) \cup {-1}
  <2>1. Agrees(t, 0) /\ left[t.job] # 0
    BY <1>3 DEF IInv, Counted, ToRun
  <2> QED BY <1>3, <2>1 DEF Agrees, IInv, TypeOK
<1>5. /\ left' \in [Jobs -> Nat \cup {-1, Nothing}]
      /\ left'[t.job] = IF left[t.job] = -1 THEN -1 ELSE left[t.job] - 1
      /\ \A k \in Jobs : k # t.job => left'[k] = left[k]
  BY <1>1, <1>3, <1>4 DEF IInv, TypeOK
<1>6. /\ since' \in [Jobs -> Nat]
      /\ \A k \in Jobs : since'[k] = IF k = t.job THEN now ELSE since[k]
  BY <1>1, <1>3 DEF IInv, TypeOK
<1>7. TypeOK'
  BY <1>1, <1>2, <1>3, <1>5, <1>6 DEF IInv, TypeOK
<1>8. Kept' = Kept /\ Pending' = Pending /\ ToRun' = ToRun \ {t}
  <2>1. t \notin tasks_ /\ t \notin Pending
    BY <1>3 DEF IInv, OneTask, Pending, Kept
  <2> QED BY <1>1, <1>2, <1>3, <2>1 DEF Kept, Pending, ToRun
<1>9. OneTask'
  BY <1>1, <1>2, <1>3, <1>8 DEF IInv, OneTask
<1>10. Phases'
  BY <1>1, <1>2 DEF IInv, Phases
<1>11. \A u \in (ToRun \cup ran) \ {t} : u.job \in Jobs /\ u.job # t.job
  BY <1>3 DEF ToRun, Kept, Pending, IInv, TypeOK, OneTask, Task
<1>12. Counted'
  <2>1. \A u \in ToRun' : Agrees(u, 0)' /\ left'[u.job] # 0
    BY <1>5, <1>8, <1>11 DEF IInv, Counted, Agrees
  <2>2. \A u \in ran \ {t} : Agrees(u, 1)'
    BY <1>5, <1>11 DEF IInv, Counted, Agrees
  <2>3. Agrees(t, 1)'
    <3>1. left'[t.job] # Nothing
      BY <1>4, <1>5, TimerAssumption
    <3>2. left'[t.job] = -1 <=> left[t.job] = -1
      BY <1>4, <1>5
    <3>3. t.everest <=> left'[t.job] = -1
      BY <1>4, <3>2 DEF Agrees
    <3>4. left[t.job] # -1 => left[t.job] = left'[t.job] + 1
      BY <1>4, <1>5
    <3>5. ~t.everest => left[t.job] # -1
      BY <3>2, <3>3
    <3>6. ~t.everest => t.callCnt = left'[t.job] + 1
      <4>1. ~t.everest => t.callCnt = left[t.job] + 0
        BY <1>4 DEF Agrees
      <4> QED BY <1>4, <3>4, <3>5, <4>1
    <3> QED BY <1>4, <3>1, <3>3, <3>6 DEF Agrees
  <2>4. \A k \in Jobs : left'[k] \notin {Nothing, 0}
          => \E u \in Kept' \cup Pending' : u.job = k
    BY <1>3, <1>5, <1>8 DEF IInv, Counted, Kept
  <2> QED BY <1>1, <2>1, <2>2, <2>3, <2>4 DEF Counted
<1>13. Stamped'
  <2>1. \A u \in ToRun' : u.stamp >= since'[u.job] + u.seconds
    BY <1>6, <1>8, <1>11 DEF IInv, Stamped
  <2>2. \A k \in Jobs : since'[k] <= now'
    BY <1>2, <1>6 DEF IInv, Stamped, TypeOK
  <2> QED BY <1>1, <1>2, <1>8, <2>1, <2>2 DEF IInv, Stamped
<1>14. NeverOversleeps'
  BY <1>2 DEF NeverOversleeps
<1> QED BY <1>7, <1>9, <1>10, <1>12, <1>13, <1>14 DEF IInv

\* What a task that has run says of the calls still to come.
LEMMA AfterRun ==
  ASSUME IInv, NEW t \in ran
  PROVE  /\ t \in Task /\ left[t.job] # Nothing
         /\ Remaining(t) \in Int
         /\ t.everest => left[t.job] = -1 /\ Remaining(t) <= 0
         /\ ~t.everest => left[t.job] \in Nat /\ Remaining(t) = left[t.job]
<1>1. t \in Task /\ t.job \in Jobs /\ t.callCnt \in Int
  BY DEF IInv, TypeOK, Task
<1>2. Agrees(t, 1)
  BY DEF IInv, Counted
<1>3. left[t.job] \in Nat \cup {-1}
  BY <1>1, <1>2 DEF Agrees, IInv, TypeOK
<1>4. CASE t.everest
  BY <1>1, <1>2, <1>4 DEF Agrees, Remaining
<1>5. CASE ~t.everest
  <2>1. left[t.job] \in Nat
    BY <1>2, <1>3, <1>5 DEF Agrees
  <2>2. t.callCnt = left[t.job] + 1
    BY <1>2, <1>5 DEF Agrees
  <2> QED BY <1>1, <1>2, <1>5, <2>1, <2>2 DEF Agrees, Remaining
<1> QED BY <1>4, <1>5

\* The second loop of run(): a task is dropped or stamped anew.
LEMMA AgainStep ==
  ASSUME IInv, Again
  PROVE  IInv'
<1>1. PICK t \in First(ran) :
        /\ ran' = ran \ {t}
        /\ IF ~t.everest /\ Remaining(t) <= 0
           THEN UNCHANGED pending
           ELSE pending' = [pending EXCEPT ![TimerThd] =
                              NewTask(t.job, t.seconds, Remaining(t))]
  BY DEF Again
<1>2. /\ pc = "again" /\ pending[TimerThd] = Nothing
      /\ UNCHANGED <<now, tasks_, pc, current, deadline, due, left, since>>
  BY DEF Again
<1>3. t \in ran /\ t \in Task /\ t.job \in Jobs /\ t.seconds \in Int
      /\ t.seconds >= MinInt
  BY DEF First, IInv, TypeOK, Task, Stamped, Kept
<1>4. Kept' = Kept \ {t} /\ t \in Kept
  BY <1>1, <1>2, <1>3 DEF Kept, IInv, OneTask
<1>5. \A u \in Kept' : u.job # t.job
  BY <1>4 DEF IInv, OneTask
<1>6. \A a \in Adders : pending[a] # Nothing => pending[a].job # t.job
  BY <1>4 DEF IInv, OneTask
<1>7. NeverOversleeps'
  BY <1>2 DEF NeverOversleeps
<1>8. CASE ~t.everest /\ Remaining(t) <= 0
  <2>1. pending' = pending /\ left[t.job] = 0
    BY <1>1, <1>3, <1>8, AfterRun
  <2>2. Pending' = Pending /\ ToRun' = ToRun
    BY <1>2, <2>1 DEF Pending, ToRun
  <2>3. TypeOK'
    BY <1>1, <1>2, <2>1 DEF IInv, TypeOK
  <2>4. OneTask'
    BY <1>1, <1>2, <1>4, <2>1 DEF IInv, OneTask
  <2>5. Phases'
    BY <1>1, <1>2, <2>1 DEF IInv, Phases
  <2>6. Counted'
    <3>1. \A k \in Jobs : left'[k] \notin {Nothing, 0}
            => \E u \in Kept' \cup Pending' : u.job = k
      BY <1>2, <1>4, <2>1, <2>2 DEF IInv, Counted
    <3> QED BY <1>1, <1>2, <2>2, <3>1 DEF IInv, Counted, Agrees
  <2>7. Stamped'
    BY <1>2, <1>4, <2>2 DEF IInv, Stamped
  <2> QED BY <1>7, <2>3, <2>4, <2>5, <2>6, <2>7 DEF IInv
<1>9. CASE t.everest \/ Remaining(t) > 0
  <2> DEFINE n == NewTask(t.job, t.seconds, Remaining(t))
  <2>1. now \in Nat /\ Remaining(t) \in Int
    BY <1>3, AfterRun DEF IInv, TypeOK
  <2>2. /\ n \in Task /\ n.job = t.job /\ n.seconds = t.seconds
        /\ n.stamp = now + t.seconds /\ n.callCnt = Remaining(t)
        /\ n # Nothing
    <3>1. /\ n \in Task /\ n.job = t.job /\ n.seconds = t.seconds
          /\ n.stamp = now + t.seconds /\ n.callCnt = Remaining(t)
      BY <1>3, <2>1 DEF NewTask, Task
    <3> QED BY <3>1, TimerAssumption
  <2>3. n.everest <=> t.everest
    <3>1. n.everest <=> Remaining(t) <= 0
      BY DEF NewTask
    <3>2. Remaining(t) <= 0 <=> t.everest
      <4>1. t.everest => Remaining(t) <= 0
        BY <1>3, AfterRun
      <4>2. Remaining(t) > 0 => ~(Remaining(t) <= 0)
        BY <2>1
      <4> QED BY <1>9, <4>1, <4>2
    <3> QED BY <3>1, <3>2
  <2>4. pending' = [pending EXCEPT ![TimerThd] = n]
    <3>1. ~(~t.everest /\ Remaining(t) <= 0)
      <4>1. Remaining(t) > 0 => ~(Remaining(t) <= 0)
        BY <2>1
      <4> QED BY <1>9, <4>1
    <3> QED BY <1>1, <3>1
  <2> HIDE DEF n
  <2>5. /\ pending' \in [Adders -> Task \cup {Nothing}]
        /\ \A a \in Adders :
             pending'[a] = IF a = TimerThd THEN n ELSE pending[a]
    BY <2>2, <2>4 DEF IInv, TypeOK, Adders
  <2>6. TimerThd \in Adders /\ TimerThd \notin Jobs
    BY TimerAssumption DEF Adders
  <2>7. Pending' = Pending \cup {n}
    BY <1>2, <2>2, <2>5, <2>6 DEF Pending
  <2>8. ToRun' = ToRun \cup {n}
    BY <1>2, <2>7 DEF ToRun
  <2>9. TypeOK'
    BY <1>1, <1>2, <2>5 DEF IInv, TypeOK
  <2>10. OneTask'
    <3>1. \A u, v \in Kept' : u.job = v.job => u = v
      BY <1>4 DEF IInv, OneTask
    <3>2. tasks_' \cap due' = {} /\ tasks_' \cap ran' = {} /\ due' \cap ran' = {}
      BY <1>1, <1>2 DEF IInv, OneTask
    <3>3. \A a \in Adders, u \in Kept' :
            pending'[a] # Nothing => pending'[a].job # u.job
      BY <1>4, <1>5, <2>2, <2>5 DEF IInv, OneTask
    <3>4. \A a, b \in Adders :
            /\ pending'[a] # Nothing /\ pending'[b] # Nothing
            /\ pending'[a].job = pending'[b].job
            => a = b
      BY <1>6, <2>2, <2>5 DEF IInv, OneTask
    <3>5. \A k \in Jobs : pending'[k] # Nothing => pending'[k].job = k
      BY <2>5, <2>6 DEF IInv, OneTask, Adders
    <3> QED BY <3>1, <3>2, <3>3, <3>4, <3>5 DEF OneTask
  <2>11. Phases'
    BY <1>1, <1>2 DEF IInv, Phases
  <2>12. Counted'
    <3>1. left[n.job] # Nothing /\ left[n.job] # 0
          /\ (t.everest <=> left[t.job] = -1)
      <4>1. Agrees(t, 1)
        BY <1>3 DEF IInv, Counted
      <4>2. t.everest => left[t.job] # 0
        BY <4>1 DEF Agrees
      <4>3. ~t.everest => left[t.job] # 0
        BY <1>3, <1>9, AfterRun
      <4> QED BY <2>2, <4>1, <4>2, <4>3 DEF Agrees
    <3>2. ~t.everest => n.callCnt = left[n.job] + 0
      BY <1>3, <2>2, AfterRun
    <3>3. t.everest => n.callCnt <= 0
      BY <1>3, <2>2, AfterRun
    <3>4. n.everest <=> left[n.job] = -1
      BY <2>2, <2>3, <3>1
    <3>5. \A u : u = n => Agrees(u, 0) /\ left[u.job] # 0
      BY <2>3, <3>1, <3>2, <3>3, <3>4 DEF Agrees
    <3>6. \A k \in Jobs : left'[k] \notin {Nothing, 0}
            => \E u \in Kept' \cup Pending' : u.job = k
      BY <1>2, <1>4, <2>2, <2>7 DEF IInv, Counted
    <3> QED BY <1>1, <1>2, <2>8, <3>5, <3>6 DEF IInv, Counted, Agrees
  <2>13. Stamped'
    <3>1. since[t.job] \in Nat /\ since[t.job] <= now
      BY <1>3 DEF IInv, TypeOK, Stamped
    <3>2. n.stamp >= since[n.job] + n.seconds
      BY <1>3, <2>1, <2>2, <3>1
    <3>3. n.stamp >= MinInt /\ n.seconds >= MinInt
      BY <1>3, <2>1, <2>2 DEF MinInt
    <3> QED BY <1>2, <1>4, <2>7, <2>8, <3>2, <3>3 DEF IInv, Stamped
  <2> QED BY <1>7, <2>9, <2>10, <2>11, <2>12, <2>13 DEF IInv
<1>10. t.everest \/ Remaining(t) > 0 \/ (~t.everest /\ Remaining(t) <= 0)
  <2>1. Remaining(t) \in Int
    BY <1>3, AfterRun
  <2>2. Remaining(t) > 0 \/ Remaining(t) <= 0
    BY <2>1
  <2> QED BY <2>2
<1> QED BY <1>8, <1>9, <1>10
-----------------------------------------------------------------------------
\* Every step keeps the invariant.
LEMMA IInvNext == IInv /\ [Next]_vars => IInv'
<1> SUFFICES ASSUME IInv, [Next]_vars PROVE IInv'
  OBVIOUS
<1>1. CASE Tick \/ SpuriousWakeup \/ UNCHANGED vars
  BY <1>1, QuietSteps DEF SpuriousWakeup
<1>2. CASE \E j \in Jobs : AddFunc(j) \/ Push(j)
  BY <1>2, AddFuncStep, PushStep DEF Adders
<1>3. CASE RunThd
  <2>1. CASE ReadClock \/ AllRun \/ AllAgain \/ Sleep \/ Timeout
    BY <2>1, QuietSteps DEF Timeout
  <2>2. CASE Collect
    BY <2>2, CollectStep
  <2>3. CASE Run
    BY <2>3, RunStep
  <2>4. CASE Again
    BY <2>4, AgainStep
  <2>5. CASE Push(TimerThd)
    BY <2>5, PushStep DEF Adders
  <2> QED BY <1>3, <2>1, <2>2, <2>3, <2>4, <2>5 DEF RunThd
<1> QED BY <1>1, <1>2, <1>3 DEF Next

\* The inductive invariant holds in every state.
LEMMA Invariant == Spec => []IInv
BY IInvInit, IInvNext, PTL DEF Spec
-----------------------------------------------------------------------------
\* How many tasks of a job a set has, when it has at most one.
LEMMA AtMostOne ==
  ASSUME NEW S, NEW j, \A t, u \in S : t.job = j /\ u.job = j => t = u
  PROVE  LET In == {t \in S : t.job = j}
         IN  /\ In = {} => Cardinality(In) = 0
             /\ In # {} => Cardinality(In) = 1
<1> DEFINE In == {t \in S : t.job = j}
<1>1. In = {} => Cardinality(In) = 0
  BY FS_EmptySet
<1>2. ASSUME In # {} PROVE Cardinality(In) = 1
  <2>1. PICK t : t \in In
    BY <1>2
  <2>2. In = {t}
    BY <2>1
  <2> QED BY <2>2, FS_Singleton
<1> QED BY <1>1, <1>2

\* The invariant says where the one task of a job is and what it counts.
LEMMA Exact == IInv => CallsExact
<1> SUFFICES ASSUME IInv PROVE CallsExact
  OBVIOUS
<1>1. SUFFICES ASSUME NEW j \in Jobs, left[j] # Nothing
      PROVE  /\ Copies(j) <= 1
             /\ IF left[j] = 0 THEN Entries(j) \subseteq ran ELSE Copies(j) = 1
             /\ \A t \in Entries(j) :
                  /\ t.everest <=> left[j] = -1
                  /\ ~t.everest =>
                       t.callCnt = left[j] + (IF t \in ran THEN 1 ELSE 0)
  BY DEF CallsExact, IInv
<1> DEFINE In(S) == {t \in S : t.job = j}
           Who == {a \in Adders : pending[a] # Nothing /\ pending[a].job = j}
<1>2. Copies(j) = Cardinality(In(tasks_)) + Cardinality(In(due))
                    + Cardinality(In(ran)) + Cardinality(Who)
  BY DEF Copies
<1>3. \A S \in {tasks_, due, ran} :
        /\ In(S) = {} => Cardinality(In(S)) = 0
        /\ In(S) # {} => Cardinality(In(S)) = 1
  <2>1. TAKE S \in {tasks_, due, ran}
  <2>2. \A t, u \in S : t.job = j /\ u.job = j => t = u
    BY DEF IInv, OneTask, Kept
  <2> QED BY <2>2, AtMostOne
<1>4. /\ Who = {} => Cardinality(Who) = 0
      /\ Who # {} => Cardinality(Who) = 1
  <2>1. Who = {} => Cardinality(Who) = 0
    BY FS_EmptySet
  <2>2. ASSUME Who # {} PROVE Cardinality(Who) = 1
    <3>1. PICK a : a \in Who
      BY <2>2
    <3>2. Who = {a}
      BY <3>1 DEF IInv, OneTask
    <3> QED BY <3>2, FS_Singleton
  <2> QED BY <2>1, <2>2
<1>5. /\ In(tasks_) = {} \/ In(due) = {}
      /\ In(tasks_) = {} \/ In(ran) = {}
      /\ In(due) = {} \/ In(ran) = {}
      /\ Who = {} \/ (In(tasks_) = {} /\ In(due) = {} /\ In(ran) = {})
  BY DEF IInv, OneTask, Kept
<1>6. Entries(j) = {} <=>
        In(tasks_) = {} /\ In(due) = {} /\ In(ran) = {} /\ Who = {}
  BY DEF Entries, Pending
<1> HIDE DEF In, Who
<1>7. Copies(j) = IF Entries(j) = {} THEN 0 ELSE 1
  BY <1>2, <1>3, <1>4, <1>5, <1>6
<1>8. left[j] # 0 => Entries(j) # {}
  BY <1>1 DEF IInv, Counted, Entries, Kept
<1>9. left[j] = 0 => Entries(j) \subseteq ran
  BY DEF IInv, Counted, Entries, ToRun
<1>10. ASSUME NEW t \in Entries(j)
       PROVE  /\ t.everest <=> left[j] = -1
              /\ ~t.everest =>
                   t.callCnt = left[j] + (IF t \in ran THEN 1 ELSE 0)
  <2>1. t.job = j /\ t \in ToRun \cup ran
    BY DEF Entries, ToRun
  <2>2. t \in ran => t \notin ToRun
    BY DEF IInv, OneTask, ToRun, Pending, Kept
  <2>3. CASE t \in ran
    BY <2>1, <2>3 DEF IInv, Counted, Agrees
  <2>4. CASE t \notin ran
    BY <2>1, <2>4 DEF IInv, Counted, Agrees
  <2> QED BY <2>3, <2>4
<1> QED BY <1>7, <1>8, <1>9, <1>10

\* Each variable keeps to its type.
THEOREM TypeCorrect == Spec => []TypeOK
BY Invariant, PTL DEF IInv

\* However callers, the clock and the timer thread interleave, a job has one
\* task in one place and is called exactly as often as addFunc asked.
THEOREM ExactCalls == Spec => []CallsExact
BY Invariant, Exact, PTL

\* The timer thread never sleeps past a task: runThd computes the time to sleep
\* under lock_, and a task pushed later wakes it.
THEOREM WakesInTime == Spec => []NeverOversleeps
BY Invariant, PTL DEF IInv

\* A function is called when at least its period has passed since it was added
\* and since its last call.
THEOREM CallsNotEarly == Spec => NeverEarly
<1>1. IInv /\ [Next]_vars =>
        [\A t \in due : t \in ran' /\ t \notin ran
           => now >= since[t.job] + t.seconds]_vars
  <2> SUFFICES ASSUME IInv, NEW t \in due
               PROVE  now >= since[t.job] + t.seconds
    OBVIOUS
  <2>1. t.stamp >= since[t.job] + t.seconds /\ t.stamp <= current /\ current <= now
    BY DEF IInv, Stamped, ToRun
  <2>2. t.job \in Jobs /\ t.stamp \in Int /\ t.seconds \in Int
    BY DEF IInv, TypeOK, Task
  <2>3. since[t.job] \in Nat /\ current \in Nat /\ now \in Nat
    BY <2>2 DEF IInv, TypeOK
  <2> QED BY <2>1, <2>2, <2>3
<1> QED BY <1>1, Invariant, PTL DEF Spec, NeverEarly
=============================================================================
