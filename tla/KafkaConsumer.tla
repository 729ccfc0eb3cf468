---------------------------- MODULE KafkaConsumer ----------------------------
(***************************************************************************)
(* KafkaConsumer (pkafka/kafka_consumer.cpp): Init, StartAll, stop and the *)
(* destructor, called one after the other by the thread that owns the      *)
(* consumer, and one ConsumerThd per partition.                            *)
(*                                                                         *)
(* owner = "ready"     Init() has returned                                 *)
(*         "starting"  in the loop of StartAll()                           *)
(*         "on"        StartAll() has returned, -1 or 0                    *)
(*         "joining"   stop() waits for thread next                        *)
(*         "joined"    stop() is about to stop partition next              *)
(*         "off"       stop() has returned                                 *)
(*         "gone"      the consumer has been destroyed                     *)
(*         "dead"      the process has died                                *)
(*                                                                         *)
(* thd[p] = "none", "test" (of close_), "consume" (in rd_kafka_poll and    *)
(*          rd_kafka_consume), "process" (in ProcessMessage) or "exited"   *)
(***************************************************************************)
EXTENDS Integers

CONSTANT partition_  \* set_partition(), or 1

ASSUME PartitionAssumption == partition_ \in Nat

VARIABLES owner, next,
          threads_,        \* how many threads the vector holds
          close_, thd,
          control, topic,  \* "null", "live" or "destroyed"
          consuming,       \* partitions the library fetches
          kept             \* an error message was not given back

vars == <<owner, next, threads_, close_, thd, control, topic, consuming, kept>>

Partitions == 0 .. partition_ - 1

\* Init() succeeds, whether or not rd_kafka_topic_new() gave a topic; or it
\* fails before it has a handle, or has no broker.
Init ==
  /\ \/ control = "live" /\ topic \in {"live", "null"} /\ owner = "ready"
     \/ control \in {"null", "live"} /\ topic = "null" /\ owner = "on"
  /\ next = 0
  /\ threads_ = 0
  /\ close_ = FALSE
  /\ thd = [p \in Partitions |-> "none"]
  /\ consuming = {}
  /\ kept = FALSE
-----------------------------------------------------------------------------
(* The owner *)

Call ==
  /\ owner = "ready"
  /\ owner' = "starting"
  /\ UNCHANGED <<next, threads_, close_, thd, control, topic, consuming, kept>>

\* One turn of StartAll(): fetching starts and a thread for it; when it does
\* not start, StartAll() returns.  The library does not outlive a null topic.
Start ==
  /\ owner = "starting" /\ next < partition_
  /\ \/ /\ topic = "live"
        /\ consuming' = consuming \cup {next}
        /\ thd' = [thd EXCEPT ![next] = "test"]
        /\ threads_' = threads_ + 1
        /\ next' = next + 1
        /\ UNCHANGED owner
     \/ /\ owner' = IF topic = "live" THEN "on" ELSE "dead"
        /\ UNCHANGED <<next, threads_, thd, consuming>>
  /\ UNCHANGED <<close_, control, topic, kept>>

Started ==
  /\ owner = "starting" /\ next = partition_
  /\ owner' = "on"
  /\ UNCHANGED <<next, threads_, close_, thd, control, topic, consuming, kept>>

\* stop() raises close_.
Stop ==
  /\ owner = "on"
  /\ close_' = TRUE
  /\ next' = 0
  /\ owner' = "joining"
  /\ UNCHANGED <<threads_, thd, control, topic, consuming, kept>>

\* Mutant of Join: the threads are detached.
Detach ==
  /\ owner = "joining" /\ next < threads_
  /\ owner' = "joined"
  /\ UNCHANGED <<next, threads_, close_, thd, control, topic, consuming, kept>>

Join ==
  /\ owner = "joining" /\ next < threads_
  /\ thd[next] = "exited"
  /\ owner' = "joined"
  /\ UNCHANGED <<next, threads_, close_, thd, control, topic, consuming, kept>>

\* Mutant of ConsumeStop: partitions count from 1.
ConsumeStopNext ==
  /\ owner = "joined"
  /\ consuming' = consuming \ {next + 1}
  /\ next' = next + 1
  /\ owner' = "joining"
  /\ UNCHANGED <<threads_, close_, thd, control, topic, kept>>

\* rd_kafka_consume_stop(topic, i), i being the index of the thread.
ConsumeStop ==
  /\ owner = "joined"
  /\ consuming' = consuming \ {next}
  /\ next' = next + 1
  /\ owner' = "joining"
  /\ UNCHANGED <<threads_, close_, thd, control, topic, kept>>

\* The handles that exist are destroyed, the topic first.
Destroy ==
  /\ owner = "joining" /\ next = threads_
  /\ control' = IF control = "live" THEN "destroyed" ELSE control
  /\ topic' = IF control = "live" /\ topic = "live" THEN "destroyed" ELSE topic
  /\ owner' = "off"
  /\ UNCHANGED <<next, threads_, close_, thd, consuming, kept>>

\* The destructor frees the vector only: a thread in it that was not joined
\* ends the process (std::terminate).
Delete ==
  /\ owner \in {"ready", "on", "off"}
  /\ owner' = IF threads_ = 0 \/ owner = "off" THEN "gone" ELSE "dead"
  /\ UNCHANGED <<next, threads_, close_, thd, control, topic, consuming, kept>>
-----------------------------------------------------------------------------
(* ConsumerThd(p) *)

\* Mutant of Test: nobody looks at close_.
TestNothing(p) ==
  /\ thd[p] = "test"
  /\ thd' = [thd EXCEPT ![p] = "consume"]
  /\ UNCHANGED <<owner, next, threads_, close_, control, topic, consuming, kept>>

Test(p) ==
  /\ thd[p] = "test"
  /\ thd' = [thd EXCEPT ![p] = IF close_ THEN "exited" ELSE "consume"]
  /\ UNCHANGED <<owner, next, threads_, close_, control, topic, consuming, kept>>

\* rd_kafka_consume gives nothing within a second, an error message, which is
\* not destroyed, or a message.
Consume(p) ==
  /\ thd[p] = "consume"
  /\ \/ thd' = [thd EXCEPT ![p] = "test"] /\ kept' \in {kept, TRUE}
     \/ thd' = [thd EXCEPT ![p] = "process"] /\ UNCHANGED kept
  /\ UNCHANGED <<owner, next, threads_, close_, control, topic, consuming>>

\* ProcessMessage() returns and the message is destroyed.
Process(p) ==
  /\ thd[p] = "process"
  /\ thd' = [thd EXCEPT ![p] = "test"]
  /\ UNCHANGED <<owner, next, threads_, close_, control, topic, consuming, kept>>

ConsumerThd(p) == Test(p) \/ Consume(p) \/ Process(p)

StopSteps == Join \/ ConsumeStop \/ Destroy

Next ==
  \/ Call \/ Start \/ Started \/ Stop \/ StopSteps \/ Delete
  \/ owner # "dead" /\ \E p \in Partitions : ConsumerThd(p)

Spec == Init /\ [][Next]_vars

\* stop() goes on, threads are scheduled, messages are processed in the end.
FairSpec ==
  /\ Spec
  /\ WF_vars(StopSteps)
  /\ \A p \in Partitions : WF_vars(ConsumerThd(p))
-----------------------------------------------------------------------------
\* Each variable keeps to its type.
TypeOK ==
  /\ owner \in {"ready", "starting", "on", "joining", "joined", "off",
              "gone", "dead"}
  /\ next \in 0 .. partition_
  /\ threads_ \in 0 .. partition_
  /\ close_ \in BOOLEAN /\ kept \in BOOLEAN
  /\ thd \in [Partitions -> {"none", "test", "consume", "process", "exited"}]
  /\ control \in {"null", "live", "destroyed"}
  /\ topic \in {"null", "live", "destroyed"}
  /\ consuming \subseteq Partitions

\* A thread that may still use the handles it copied finds them alive and its
\* partition being fetched: in a partial start, in the middle of stop(), and
\* although Init() succeeds without a topic.
InUse(p) == thd[p] \in {"test", "consume", "process"}
UsesLiveHandles ==
  \A p \in Partitions :
    InUse(p) => control = "live" /\ topic = "live" /\ p \in consuming

\* When stop() has returned, or the consumer was destroyed with or without it
\* and the process lives on, nothing is left behind: every partition whose
\* fetching was started has been stopped and every thread has ended, also after
\* a StartAll() that failed half-way.
StopsAll ==
  owner \in {"off", "gone"} =>
    /\ consuming = {}
    /\ \A p \in Partitions : thd[p] \in {"none", "exited"}

\* A call of stop() returns, whatever its threads are in.
StopReturns == owner = "joining" ~> owner = "off"
=============================================================================
