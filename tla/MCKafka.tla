------------------------------- MODULE MCKafka -------------------------------
(***************************************************************************)
(* Instances of KafkaConsumer and KafkaProducer for TLC.  The two share no *)
(* state, so a behaviour has steps of one of them only, chosen at the      *)
(* start.                                                                  *)
(***************************************************************************)
EXTENDS KafkaConsumer, KafkaProducer

VARIABLE part

Either ==
  /\ Init /\ ProducerInit
  /\ \/ part = "consumer" /\ hasControl
     \/ part = "producer" /\ owner = "ready"

Step ==
  /\ UNCHANGED part
  /\ \/ part = "consumer" /\ Next /\ UNCHANGED producerVars
     \/ part = "producer" /\ ProducerNext /\ UNCHANGED vars

\* The fairness of the consumer asks nothing of its initial state.
Kafka ==
  /\ Either /\ [][Step]_<<vars, producerVars, part>>
  /\ WF_vars(part = "consumer" /\ StopSteps)
  /\ \A p \in Partitions : WF_vars(part = "consumer" /\ ConsumerThd(p))
=============================================================================
