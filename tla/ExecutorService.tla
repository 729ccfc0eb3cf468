--------------------------- MODULE ExecutorService ---------------------------
(***************************************************************************)
(* The thread pool of user/threadpool/thread_pool.h.                       *)
(*                                                                         *)
(* A fixed set of detached workers share two queues under one mutex,       *)
(* lock_, and wait on one condition variable, cond_.  Any thread may call  *)
(* execute().  Everything done while lock_ is held is one action; a worker *)
(* runs its task with lock_ released, so running is a state of its own.    *)
(*                                                                         *)
(* pc[w] = "ready"    w is about to take lock_ and test the wait predicate *)
(*                    (at the top of its loop, or woken from cond_)        *)
(*         "waiting"  w is blocked in cond_.wait                           *)
(*         "running"  w runs task[w]                                       *)
(***************************************************************************)
EXTENDS Integers, Sequences, FiniteSets

CONSTANTS Workers,    \* the worker threads
          Runnables,  \* one Runnable object per submission
          Funcs,      \* one USER_FUNC per submission
          QueueSize,  \* queueSize_, an int; below 0 it is a huge size_t
          NoTask

ASSUME ExecutorAssumption ==
  /\ IsFiniteSet(Workers)
  /\ QueueSize \in Int
  /\ Runnables \cap Funcs = {}
  /\ NoTask \notin Runnables \cup Funcs

VARIABLES queue_,     \* accepted Runnables, oldest first
          funcQueue_, \* accepted functions, oldest first
          pc, task,
          done, dropped, rejected  \* history: how the other tasks ended

vars == <<queue_, funcQueue_, pc, task, done, dropped, rejected>>

Tasks == Runnables \cup Funcs
Ready == {w \in Workers : pc[w] = "ready"}
Waiting == {w \in Workers : pc[w] = "waiting"}

Items(q) == {q[i] : i \in 1 .. Len(q)}
Fresh(t) ==
  t \notin Items(queue_) \cup Items(funcQueue_) \cup done \cup dropped
             \cup rejected \cup {task[w] : w \in Workers}
-----------------------------------------------------------------------------
Init ==
  /\ queue_ = <<>>
  /\ funcQueue_ = <<>>
  /\ pc = [w \in Workers |-> "ready"]
  /\ task = [w \in Workers |-> NoTask]
  /\ done = {}
  /\ dropped = {}
  /\ rejected = {}

\* Mutant of Full: the bound is off by one.
FullLate(q) == QueueSize >= 0 /\ Len(q) > QueueSize + 1

\* size() > queueSize_ compares a size_t with an int: a negative bound is
\* converted to a size no queue ever reaches.
Full(q) == QueueSize >= 0 /\ Len(q) > QueueSize
Half == QueueSize \div 2
Oldest(q) == SubSeq(q, 1, Half)
\* Mutant of Rest: one task too few is popped.
RestAndOne(q) == SubSeq(q, Half, Len(q))
Rest(q) == SubSeq(q, Half + 1, Len(q))

\* Mutant of NotifyOne: notify only the first push into an empty pool.
NotifyWhenEmpty ==
  \/ /\ Waiting = {} \/ queue_ # <<>> \/ funcQueue_ # <<>>
     /\ UNCHANGED pc
  \/ /\ queue_ = <<>> /\ funcQueue_ = <<>>
     /\ \E w \in Waiting : pc' = [pc EXCEPT ![w] = "ready"]

\* cond_.notify_one(): some blocked worker wakes, if there is one.
NotifyOne ==
  \/ /\ Waiting = {}
     /\ UNCHANGED pc
  \/ \E w \in Waiting : pc' = [pc EXCEPT ![w] = "ready"]

\* Mutant of ExecuteFunc: nobody is notified.
ExecuteFuncSilently(f) ==
  /\ Fresh(f)
  /\ funcQueue_' = Append(funcQueue_, f)
  /\ UNCHANGED <<queue_, pc, task, done, dropped, rejected>>

\* execute(USER_FUNC): an overfull queue first loses its oldest half.
ExecuteFunc(f) ==
  /\ Fresh(f)
  /\ IF Full(funcQueue_)
     THEN /\ funcQueue_' = Append(Rest(funcQueue_), f)
          /\ dropped' = dropped \cup Items(Oldest(funcQueue_))
     ELSE /\ funcQueue_' = Append(funcQueue_, f)
          /\ UNCHANGED dropped
  /\ NotifyOne
  /\ UNCHANGED <<queue_, task, done, rejected>>

\* execute(Runnable) with room in the queue.
AcceptRunnable(r) ==
  /\ Fresh(r)
  /\ ~Full(queue_)
  /\ queue_' = Append(queue_, r)
  /\ NotifyOne
  /\ UNCHANGED <<funcQueue_, task, done, dropped, rejected>>

\* execute(Runnable) on an overfull queue: the oldest half is lost and the
\* newcomer, told so by ErrorMsg, is refused as well.  Nobody is notified.
RejectRunnable(r) ==
  /\ Fresh(r)
  /\ Full(queue_)
  /\ queue_' = Rest(queue_)
  /\ dropped' = dropped \cup Items(Oldest(queue_))
  /\ rejected' = rejected \cup {r}
  /\ UNCHANGED <<funcQueue_, pc, task, done>>

\* The wait predicate fails: lock_ is released and the worker blocks.
Wait(w) ==
  /\ pc[w] = "ready"
  /\ queue_ = <<>> /\ funcQueue_ = <<>>
  /\ pc' = [pc EXCEPT ![w] = "waiting"]
  /\ UNCHANGED <<queue_, funcQueue_, task, done, dropped, rejected>>

SpuriousWakeup(w) ==
  /\ pc[w] = "waiting"
  /\ pc' = [pc EXCEPT ![w] = "ready"]
  /\ UNCHANGED <<queue_, funcQueue_, task, done, dropped, rejected>>

\* Runnables have priority over functions.
TakeRunnable(w) ==
  /\ pc[w] = "ready"
  /\ queue_ # <<>>
  /\ task' = [task EXCEPT ![w] = Head(queue_)]
  /\ queue_' = Tail(queue_)
  /\ pc' = [pc EXCEPT ![w] = "running"]
  /\ UNCHANGED <<funcQueue_, done, dropped, rejected>>

\* Mutant of TakeFunc: the newest function is taken.
TakeNewestFunc(w) ==
  /\ pc[w] = "ready"
  /\ queue_ = <<>> /\ funcQueue_ # <<>>
  /\ task' = [task EXCEPT ![w] = funcQueue_[Len(funcQueue_)]]
  /\ funcQueue_' = SubSeq(funcQueue_, 1, Len(funcQueue_) - 1)
  /\ pc' = [pc EXCEPT ![w] = "running"]
  /\ UNCHANGED <<queue_, done, dropped, rejected>>

TakeFunc(w) ==
  /\ pc[w] = "ready"
  /\ queue_ = <<>> /\ funcQueue_ # <<>>
  /\ task' = [task EXCEPT ![w] = Head(funcQueue_)]
  /\ funcQueue_' = Tail(funcQueue_)
  /\ pc' = [pc EXCEPT ![w] = "running"]
  /\ UNCHANGED <<queue_, done, dropped, rejected>>

\* able->run() or func() returns and the loop starts over.
Finish(w) ==
  /\ pc[w] = "running"
  /\ done' = done \cup {task[w]}
  /\ task' = [task EXCEPT ![w] = NoTask]
  /\ pc' = [pc EXCEPT ![w] = "ready"]
  /\ UNCHANGED <<queue_, funcQueue_, dropped, rejected>>

Execute ==
  \/ \E f \in Funcs : ExecuteFunc(f)
  \/ \E r \in Runnables : AcceptRunnable(r) \/ RejectRunnable(r)

\* ExecutorService::run, what the worker does next.
Run(w) == Wait(w) \/ TakeRunnable(w) \/ TakeFunc(w) \/ Finish(w)

Next ==
  \/ Execute
  \/ \E w \in Workers : Run(w) \/ SpuriousWakeup(w)

Spec == Init /\ [][Next]_vars

\* The OS keeps scheduling every runnable worker, and every task returns.
FairSpec == Spec /\ \A w \in Workers : WF_vars(Run(w))
-----------------------------------------------------------------------------
\* Each variable keeps to its type.
TypeOK ==
  /\ queue_ \in Seq(Runnables)
  /\ funcQueue_ \in Seq(Funcs)
  /\ pc \in [Workers -> {"ready", "waiting", "running"}]
  /\ task \in [Workers -> Tasks \cup {NoTask}]
  /\ done \subseteq Tasks
  /\ dropped \subseteq Tasks
  /\ rejected \subseteq Runnables
  /\ \A w \in Workers : pc[w] = "running" <=> task[w] # NoTask

\* Work is never left to sleeping workers: while a worker is blocked in
\* cond_.wait, every queued task has an awake worker of its own on the way to
\* lock_.  One notify_one per push and none per eviction is just enough.
NoLostWakeup ==
  Waiting # {} => Len(queue_) + Len(funcQueue_) <= Cardinality(Ready)

\* The memory bound: the Runnable queue never holds more than queueSize_ + 1
\* tasks; the function queue neither, if half of queueSize_ is not 0.
QueueBound ==
  /\ QueueSize >= 0 => Len(queue_) <= QueueSize + 1
  /\ QueueSize >= 2 => Len(funcQueue_) <= QueueSize + 1

\* A task is in one place at a time and is never handed to two workers: no
\* queue holds it twice, and queued, running, done, dropped and rejected
\* tasks are disjoint.
Injective(q) == \A i, j \in 1 .. Len(q) : q[i] = q[j] => i = j
InFlight == {task[w] : w \in Workers} \ {NoTask}
OnePlace ==
  /\ Injective(queue_) /\ Injective(funcQueue_)
  /\ \A v, w \in Workers : task[v] = task[w] /\ task[v] # NoTask => v = w
  /\ (Items(queue_) \cup Items(funcQueue_)) \cap InFlight = {}
  /\ (done \cup dropped \cup rejected)
        \cap (Items(queue_) \cup Items(funcQueue_) \cup InFlight) = {}
  /\ done \cap dropped = {} /\ rejected \cap (done \cup dropped) = {}

-----------------------------------------------------------------------------
Status(t) ==
  IF t \in Items(queue_) \cup Items(funcQueue_) THEN "queued"
  ELSE IF t \in InFlight THEN "running"
  ELSE IF t \in done THEN "done"
  ELSE IF t \in dropped THEN "dropped"
  ELSE IF t \in rejected THEN "rejected"
  ELSE "new"

Pool == INSTANCE TaskPool WITH
  Capacity <- Cardinality(Workers),
  status <- [t \in Tasks |-> Status(t)],
  runnables <- queue_,
  funcs <- funcQueue_

\* The executor keeps the promise of TaskPool: tasks of one kind start in the
\* order accepted, only the oldest of an overfull queue are dropped, at most
\* one task runs per worker.
ImplementsTaskPool == Pool!Safety

\* ... and free workers do not leave queued tasks lying: the fair part.
ImplementsFairTaskPool == Pool!Spec
=============================================================================
