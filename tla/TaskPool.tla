------------------------------ MODULE TaskPool ------------------------------
(***************************************************************************)
(* What an ExecutorService promises its callers: threads, locks and        *)
(* condition variables are hidden, a task only moves through its life.     *)
(*                                                                         *)
(*   new -> queued -> running -> done,   queued -> dropped                 *)
(*   new -> rejected (a Runnable only)                                     *)
(*                                                                         *)
(* Tasks of one kind start in the order they were accepted, only the       *)
(* oldest of an overfull line may be dropped, and capacity that stays free *)
(* while work is queued is eventually used.                                *)
(***************************************************************************)
EXTENDS Integers, Sequences, FiniteSets

CONSTANTS Runnables,  \* submissions through execute(unique_ptr<Runnable>)
          Funcs,      \* submissions through execute(USER_FUNC)
          QueueSize,  \* queueSize_
          Capacity    \* number of tasks that may run at once

VARIABLES status,     \* status[t]: where task t is in its life
          runnables,  \* accepted Runnables that have not started, oldest first
          funcs       \* accepted functions that have not started, oldest first

vars == <<status, runnables, funcs>>

Tasks == Runnables \cup Funcs
Running == {t \in Tasks : status[t] = "running"}

Init ==
  /\ status = [t \in Tasks |-> "new"]
  /\ runnables = <<>>
  /\ funcs = <<>>

\* The first n tasks of a line may be dropped when the line is overfull.
Droppable(line) ==
  IF QueueSize >= 0 /\ Len(line) > QueueSize THEN 0 .. Len(line) ELSE {0}

\* The statuses after the first n tasks of line are dropped and t becomes s.
Moved(line, n, t, s) ==
  [x \in Tasks |-> IF x = t THEN s
                   ELSE IF \E i \in 1 .. n : line[i] = x THEN "dropped"
                   ELSE status[x]]

AcceptRunnable(r) ==
  /\ status[r] = "new"
  /\ status' = [status EXCEPT ![r] = "queued"]
  /\ runnables' = Append(runnables, r)
  /\ UNCHANGED funcs

RejectRunnable(r) ==
  /\ status[r] = "new"
  /\ QueueSize >= 0 /\ Len(runnables) > QueueSize
  /\ \E n \in Droppable(runnables) :
       /\ status' = Moved(runnables, n, r, "rejected")
       /\ runnables' = SubSeq(runnables, n + 1, Len(runnables))
  /\ UNCHANGED funcs

AcceptFunc(f) ==
  /\ status[f] = "new"
  /\ \E n \in Droppable(funcs) :
       /\ status' = Moved(funcs, n, f, "queued")
       /\ funcs' = Append(SubSeq(funcs, n + 1, Len(funcs)), f)
  /\ UNCHANGED runnables

StartRunnable ==
  /\ runnables # <<>>
  /\ Cardinality(Running) < Capacity
  /\ status' = [status EXCEPT ![Head(runnables)] = "running"]
  /\ runnables' = Tail(runnables)
  /\ UNCHANGED funcs

StartFunc ==
  /\ funcs # <<>>
  /\ Cardinality(Running) < Capacity
  /\ status' = [status EXCEPT ![Head(funcs)] = "running"]
  /\ funcs' = Tail(funcs)
  /\ UNCHANGED runnables

Start == StartRunnable \/ StartFunc

Finish(t) ==
  /\ status[t] = "running"
  /\ status' = [status EXCEPT ![t] = "done"]
  /\ UNCHANGED <<runnables, funcs>>

Next ==
  \/ \E r \in Runnables : AcceptRunnable(r) \/ RejectRunnable(r)
  \/ \E f \in Funcs : AcceptFunc(f)
  \/ Start
  \/ \E t \in Tasks : Finish(t)

\* The promise of safety, and the promise that free capacity is used.
Safety == Init /\ [][Next]_vars
Spec == Safety /\ WF_vars(Start)
=============================================================================
