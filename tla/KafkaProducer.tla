---------------------------- MODULE KafkaProducer ----------------------------
(***************************************************************************)
(* KafkaProducer (pkafka/kafka_producer.cpp): several threads send by      *)
(* topic name.  topicMap caches a librdkafka handle per topic; a Send that *)
(* makes the cache too large evicts the topics nobody used for a while.    *)
(*                                                                         *)
(* pc[s] = "idle"     outside Send()                                       *)
(*         "lock"     has read the clock, waits for lock                   *)
(*         "produce"  has left lock, is in rd_kafka_produce with rkt[s]    *)
(*                                                                         *)
(* Eviction hands rd_kafka_topic_destroy the memory beside the map (the    *)
(* iterator it is end() there) and erases the entry: no handle of the      *)
(* producer is destroyed, and the process may or may not survive.          *)
(***************************************************************************)
EXTENDS Integers, FiniteSets

CONSTANTS Senders, Topics,
          NoHandle,    \* NULL
          NoTopic,     \* the topic of a thread outside Send()
          MaxTopics,   \* 50
          MaxAge,      \* 3600 seconds
          MaxWait,     \* bound: how long a Send waits for lock
          MaxTime,     \* bound of the clock
          MaxHandles   \* bound: handles made for one topic

\* What the theorems ask of the constants.
Ages == MaxAge \in Nat /\ MaxWait \in Nat

VARIABLES now,      \* time(NULL)
          hasControl,  \* Init() got a handle of the library
          topicMap, \* topic -> [last, topic] for the cached topics
          made,     \* made[t]: handles librdkafka gave for topic t
          pc,
          to,       \* to[s]: the topic of the Send
          at,       \* at[s]: its local "now"
          rkt,      \* rkt[s]: the handle it works with
          undefined \* the process did what C++ does not define

producerVars == <<now, hasControl, topicMap, made, pc, to, at, rkt, undefined>>

Handle == [topic : Topics, nr : Nat]
Cached == DOMAIN topicMap

ProducerInit ==
  /\ now = 0
  /\ hasControl \in BOOLEAN
  /\ topicMap = [t \in {} |-> [last |-> 0, topic |-> NoHandle]]
  /\ made = [t \in Topics |-> 0]
  /\ pc = [s \in Senders |-> "idle"]
  /\ to = [s \in Senders |-> NoTopic]
  /\ at = [s \in Senders |-> 0]
  /\ rkt = [s \in Senders |-> NoHandle]
  /\ undefined = FALSE
-----------------------------------------------------------------------------
\* A second passes; a Send gets the lock within MaxWait seconds.
Tick ==
  /\ now < MaxTime
  /\ \A s \in Senders : pc[s] = "lock" => now < at[s] + MaxWait
  /\ now' = now + 1
  /\ UNCHANGED <<hasControl, topicMap, made, pc, to, at, rkt, undefined>>

Enter(s) ==
  /\ pc[s] = "idle"
  /\ \E t \in Topics : to' = [to EXCEPT ![s] = t]
  /\ at' = [at EXCEPT ![s] = now]
  /\ pc' = [pc EXCEPT ![s] = "lock"]
  /\ UNCHANGED <<now, hasControl, topicMap, made, rkt, undefined>>

\* Mutant of Hit: the age of the entry is left alone.
HitUnstamped(s) ==
  /\ pc[s] = "lock" /\ to[s] \in Cached
  /\ rkt' = [rkt EXCEPT ![s] = topicMap[to[s]].topic]
  /\ pc' = [pc EXCEPT ![s] = "produce"]
  /\ UNCHANGED <<now, hasControl, topicMap, made, to, at, undefined>>

\* The entry is found: its handle is used, its age starts at the "now" read
\* before lock was taken.
Hit(s) ==
  /\ pc[s] = "lock" /\ to[s] \in Cached
  /\ rkt' = [rkt EXCEPT ![s] = topicMap[to[s]].topic]
  /\ topicMap' = [topicMap EXCEPT ![to[s]].last = at[s]]
  /\ pc' = [pc EXCEPT ![s] = "produce"]
  /\ UNCHANGED <<now, hasControl, made, to, at, undefined>>

\* The cached topics too old for a Send that read the clock at a.
TooOld(map, a) == {t \in DOMAIN map : a - map[t].last > MaxAge}

Victims(map, a) ==
  IF Cardinality(DOMAIN map) > MaxTopics THEN TooOld(map, a) ELSE {}

\* rd_kafka_topic_new gives a handle, or NULL for a name it refuses; either is
\* cached, stamped with a second reading of the clock.  After an Init() that
\* failed early it is called with NULL.
Miss(s) ==
  /\ pc[s] = "lock" /\ to[s] \notin Cached
  /\ made[to[s]] < MaxHandles
  /\ \E h \in {[topic |-> to[s], nr |-> made[to[s]] + 1], NoHandle} :
       LET grown == [t \in Cached \cup {to[s]} |->
                       IF t = to[s] THEN [last |-> now, topic |-> h] ELSE topicMap[t]]
           gone  == Victims(grown, at[s])
       IN  /\ made' = [made EXCEPT ![to[s]] = IF h = NoHandle THEN @ ELSE @ + 1]
           /\ topicMap' = [t \in DOMAIN grown \ gone |-> grown[t]]
           /\ rkt' = [rkt EXCEPT ![s] = h]
           /\ undefined' \in {~hasControl, ~hasControl \/ gone # {}}
  /\ pc' = [pc EXCEPT ![s] = "produce"]
  /\ UNCHANGED <<now, hasControl, to, at>>

\* rd_kafka_produce copies the message, or fails, which is only logged.
Produce(s) ==
  /\ pc[s] = "produce"
  /\ undefined' = (rkt[s] = NoHandle)
  /\ pc' = [pc EXCEPT ![s] = "idle"]
  /\ rkt' = [rkt EXCEPT ![s] = NoHandle]
  /\ to' = [to EXCEPT ![s] = NoTopic]
  /\ at' = [at EXCEPT ![s] = 0]
  /\ UNCHANGED <<now, hasControl, topicMap, made>>

Send(s) == Enter(s) \/ Hit(s) \/ Miss(s) \/ Produce(s)

ProducerNext ==
  /\ ~undefined
  /\ Tick \/ \E s \in Senders : Send(s)

Producer == ProducerInit /\ [][ProducerNext]_producerVars
-----------------------------------------------------------------------------
\* Each variable keeps to its type; a cached handle is one made for its topic.
ProducerTypeOK ==
  /\ now \in Nat /\ hasControl \in BOOLEAN
  /\ Cached \subseteq Topics
  /\ topicMap \in [Cached -> [last : Int, topic : Handle \cup {NoHandle}]]
  /\ made \in [Topics -> Nat]
  /\ pc \in [Senders -> {"idle", "lock", "produce"}]
  /\ to \in [Senders -> Topics \cup {NoTopic}]
  /\ \A s \in Senders : pc[s] # "idle" => to[s] \in Topics
  /\ at \in [Senders -> Nat]
  /\ rkt \in [Senders -> Handle \cup {NoHandle}]
  /\ undefined \in BOOLEAN

\* A handle is used after lock was released, while other Sends may evict its
\* entry.  The entry is still there, with this handle, for MaxAge less the
\* wait for the lock, counted from the clock the Send read: a concurrent Send
\* with an older "now" may set the age back, but not further than that.  So a
\* thread needs to be held up for about an hour to be left with the handle of
\* an evicted topic, and all threads send a topic through one handle.
HeldIsCached ==
  \A s \in Senders :
    (pc[s] = "produce" /\ now <= at[s] + MaxAge - MaxWait) =>
      to[s] \in Cached /\ topicMap[to[s]].topic = rkt[s]
=============================================================================
