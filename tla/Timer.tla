------------------------------- MODULE Timer -------------------------------
(***************************************************************************)
(* The background timer of user/timer: kun::Timer with its own thread.     *)
(*                                                                         *)
(* Callers add tasks with addFunc(sec, count, func).  The timer thread     *)
(* collects the tasks that are due, runs them with lock_ released, adds    *)
(* those that have calls left back to the heap and sleeps until the next   *)
(* one is due.  Every read of time(NULL) that happens outside lock_ is a   *)
(* step of its own: the clock may move before the lock is taken.           *)
(*                                                                         *)
(* pc = "clock"    about to read the clock in getTimeoutTasks              *)
(*      "collect"  has read it, about to take lock_ and pop the due tasks  *)
(*      "run"      running the collected tasks, one after the other        *)
(*      "again"    adding them back, one after the other                   *)
(*      "lock"     about to take lock_ and compute the time to sleep       *)
(*      "sleep"    blocked in notEmpty_.wait or wait_for                   *)
(***************************************************************************)
EXTENDS Integers, FiniteSets

CONSTANTS Jobs,      \* the functions, each passed to addFunc once
          Secs,      \* the periods callers use
          Counts,    \* the counts callers use; below 1 means for ever
          MaxTime,   \* bound of the clock
          TimerThd,  \* the timer thread as a caller of addFuncLocal
          Nothing

MinInt == -2147483647 - 1  \* what an int can hold at least

\* A TimerTask.
Task ==
  [job : Jobs, stamp : Int, seconds : Int, everest : BOOLEAN, callCnt : Int]

ASSUME TimerAssumption ==
  /\ Secs \subseteq Int
  /\ \A sec \in Secs : sec >= MinInt
  /\ Counts \subseteq Int
  /\ MaxTime \in Nat
  /\ TimerThd \notin Jobs
  /\ Nothing \notin Int /\ Nothing \notin Task

VARIABLES now,      \* time(NULL)
          tasks_,   \* the heap, as the set of its tasks
          pc, current, deadline,
          due,      \* collected tasks that have not run
          ran,      \* collected tasks that have run
          pending,  \* pending[a]: task a has stamped and not yet pushed
          left,     \* history: calls of a job still to come, -1 for ever
          since     \* history: when the job was added or last called

vars == <<now, tasks_, pc, current, deadline, due, ran, pending, left, since>>

\* The caller that adds job j is called j too.
Adders == Jobs \cup {TimerThd}

\* A TimerTask for job j, stamped with the time it was created.
NewTask(j, sec, count) ==
  [job |-> j, stamp |-> now + sec, seconds |-> sec,
   everest |-> count <= 0, callCnt |-> count]

\* std::pop_heap yields a task with the smallest stamp.
First(S) == {t \in S : \A u \in S : t.stamp <= u.stamp}
-----------------------------------------------------------------------------
Init ==
  /\ now = 0
  /\ tasks_ = {}
  /\ pc = "clock"
  /\ current = 0
  /\ deadline = Nothing
  /\ due = {}
  /\ ran = {}
  /\ pending = [a \in Adders |-> Nothing]
  /\ left = [j \in Jobs |-> Nothing]
  /\ since = [j \in Jobs |-> 0]

Tick ==
  /\ now < MaxTime
  /\ now' = now + 1
  /\ UNCHANGED <<tasks_, pc, current, deadline, due, ran, pending, left, since>>

\* addFunc: the task is stamped before lock_ is taken.
AddFunc(j) ==
  /\ left[j] = Nothing
  /\ \E sec \in Secs, count \in Counts :
       /\ pending' = [pending EXCEPT ![j] = NewTask(j, sec, count)]
       /\ left' = [left EXCEPT ![j] = IF count <= 0 THEN -1 ELSE count]
  /\ since' = [since EXCEPT ![j] = now]
  /\ UNCHANGED <<now, tasks_, pc, current, deadline, due, ran>>

\* Mutant of Notify: the thread is not notified.
NotifyNobody == UNCHANGED <<pc, deadline>>

\* notEmpty_.notify_one(): the only waiter is the timer thread.
Notify ==
  IF pc = "sleep" THEN pc' = "clock" /\ deadline' = Nothing
                  ELSE UNCHANGED <<pc, deadline>>

\* addFuncLocal, under lock_: push; only addFunc notifies.
Push(a) ==
  /\ pending[a] # Nothing
  /\ tasks_' = tasks_ \cup {pending[a]}
  /\ pending' = [pending EXCEPT ![a] = Nothing]
  /\ IF a = TimerThd THEN UNCHANGED <<pc, deadline>> ELSE Notify
  /\ UNCHANGED <<now, current, due, ran, left, since>>
-----------------------------------------------------------------------------
\* getTimeoutTasks reads the clock, then takes lock_.
ReadClock ==
  /\ pc = "clock"
  /\ current' = now
  /\ pc' = "collect"
  /\ UNCHANGED <<now, tasks_, deadline, due, ran, pending, left, since>>

\* Mutant of IsDue: a task is taken a second early.
IsDueSoon(t) == t.stamp <= current + 1

IsDue(t) == t.stamp <= current

\* Every task whose stamp is not after the time read is popped.
Collect ==
  /\ pc = "collect"
  /\ due' = {t \in tasks_ : IsDue(t)}
  /\ tasks_' = tasks_ \ due'
  /\ pc' = "run"
  /\ UNCHANGED <<now, current, deadline, ran, pending, left, since>>

\* task.run(): one call of the user's function, lock_ released.
Run ==
  /\ pc = "run"
  /\ \E t \in First(due) :
       /\ due' = due \ {t}
       /\ ran' = ran \cup {t}
       /\ left' = [left EXCEPT ![t.job] = IF @ = -1 THEN -1 ELSE @ - 1]
       /\ since' = [since EXCEPT ![t.job] = now]
  /\ UNCHANGED <<now, tasks_, pc, current, deadline, pending>>

AllRun ==
  /\ pc = "run"
  /\ due = {}
  /\ pc' = "again"
  /\ UNCHANGED <<now, tasks_, current, deadline, due, ran, pending, left, since>>

\* Mutant of Remaining: the call just made is not counted.
RemainingAll(t) == t.callCnt

\* --task.callCnt, for a task that does not repeat for ever.
Remaining(t) == IF t.everest THEN t.callCnt ELSE t.callCnt - 1

\* One collected task is dropped, or stamped anew to be pushed back.
Again ==
  /\ pc = "again"
  /\ pending[TimerThd] = Nothing
  /\ \E t \in First(ran) :
       /\ ran' = ran \ {t}
       /\ IF ~t.everest /\ Remaining(t) <= 0
          THEN UNCHANGED pending
          ELSE pending' = [pending EXCEPT ![TimerThd] =
                             NewTask(t.job, t.seconds, Remaining(t))]
  /\ UNCHANGED <<now, tasks_, pc, current, deadline, due, left, since>>

AllAgain ==
  /\ pc = "again"
  /\ ran = {} /\ pending[TimerThd] = Nothing
  /\ pc' = "lock"
  /\ UNCHANGED <<now, tasks_, current, deadline, due, ran, pending, left, since>>

\* Mutant of NextTimeout: the period of the next task, not what is left of it.
NextPeriod == IF tasks_ = {} THEN -1 ELSE (CHOOSE t \in First(tasks_) : TRUE).seconds

\* getNextTimeout(): -1 without a task, 0 if one is due already.
NextTimeout ==
  IF tasks_ = {} THEN -1
  ELSE LET t == CHOOSE u \in First(tasks_) : TRUE
       IN IF t.stamp > now THEN t.stamp - now ELSE 0

\* Under lock_: wait, wait_for, or go round again.  The second may turn
\* between the read of the clock and the start of wait_for.
Sleep ==
  /\ pc = "lock"
  /\ IF NextTimeout = 0
     THEN pc' = "clock" /\ UNCHANGED deadline
     ELSE /\ pc' = "sleep"
          /\ deadline' \in IF NextTimeout < 0 THEN {Nothing}
                          ELSE {now + NextTimeout, now + NextTimeout + 1}
  /\ UNCHANGED <<now, tasks_, current, due, ran, pending, left, since>>

Wake ==
  /\ pc = "sleep"
  /\ pc' = "clock"
  /\ deadline' = Nothing
  /\ UNCHANGED <<now, tasks_, current, due, ran, pending, left, since>>

\* wait_for returns when its time is over.
Timeout == deadline # Nothing /\ now >= deadline /\ Wake
SpuriousWakeup == Wake

\* Timer::runThd
RunThd ==
  \/ ReadClock \/ Collect \/ Run \/ AllRun \/ Again \/ AllAgain
  \/ Push(TimerThd) \/ Sleep \/ Timeout

Next ==
  \/ Tick
  \/ \E j \in Jobs : AddFunc(j) \/ Push(j)
  \/ RunThd
  \/ SpuriousWakeup

Spec == Init /\ [][Next]_vars

\* Time passes, the timer thread is scheduled, a caller inside addFunc returns,
\* the user's functions return.
FairSpec ==
  Spec /\ WF_vars(Tick) /\ WF_vars(RunThd) /\ \A j \in Jobs : WF_vars(Push(j))
-----------------------------------------------------------------------------
\* Each variable keeps to its type.
TypeOK ==
  /\ now \in Nat /\ current \in Nat /\ deadline \in Nat \cup {Nothing}
  /\ tasks_ \subseteq Task /\ due \subseteq Task /\ ran \subseteq Task
  /\ pc \in {"clock", "collect", "run", "again", "lock", "sleep"}
  /\ pending \in [Adders -> Task \cup {Nothing}]
  /\ left \in [Jobs -> Nat \cup {-1, Nothing}]
  /\ since \in [Jobs -> Nat]

\* The tasks of a job, wherever they are.
Pending == {pending[a] : a \in Adders} \ {Nothing}
Entries(j) == {t \in tasks_ \cup due \cup ran \cup Pending : t.job = j}

\* In how many places a job is, each caller's stamped task being a place.
Copies(j) ==
  LET In(S) == Cardinality({t \in S : t.job = j})
  IN  In(tasks_) + In(due) + In(ran)
        + Cardinality({a \in Adders : pending[a] # Nothing /\ pending[a].job = j})

\* A job is called exactly as often as addFunc asked: it has one task, in one
\* place, whose callCnt agrees with the calls still to come, and the task
\* disappears when none is left and not before.
CallsExact ==
  /\ TypeOK
  /\ \A j \in {k \in Jobs : left[k] # Nothing} :
       /\ Copies(j) <= 1
       /\ IF left[j] = 0 THEN Entries(j) \subseteq ran ELSE Copies(j) = 1
       /\ \A t \in Entries(j) :
            /\ t.everest <=> left[j] = -1
            /\ ~t.everest => t.callCnt = left[j] + (IF t \in ran THEN 1 ELSE 0)

\* A call is never early: at least the job's period has passed since it was
\* added and since its last call.
NeverEarly ==
  [][\A t \in due : t \in ran' /\ t \notin ran => now >= since[t.job] + t.seconds]_vars

\* The timer thread never sleeps past a task: whatever was pushed while it was
\* on its way to sleep or asleep, its deadline is at most the second after any
\* stamp.
NeverOversleeps ==
  pc = "sleep" =>
    \A t \in tasks_ : deadline # Nothing /\ deadline <= t.stamp + 1

\* Every task is called in the end (before the clock's bound stops the model).
DueIsCalled ==
  \A j \in Jobs :
    (\E t \in tasks_ : t.job = j /\ t.stamp < MaxTime)
      ~> (\E t \in ran : t.job = j)
=============================================================================
