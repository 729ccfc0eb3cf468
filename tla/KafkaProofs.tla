------------------------------ MODULE KafkaProofs ------------------------------
(***************************************************************************)
(* Safety of KafkaConsumer for any number of partitions, and of the topic  *)
(* cache of KafkaProducer for any number of senders and topics, any sizes  *)
(* and ages.                                                               *)
(***************************************************************************)
EXTENDS KafkaConsumer, KafkaProducer, TLAPS

\* The partitions below it have been joined and stopped by stop().
Stopped ==
  IF owner \in {"joining", "joined", "off"} \/ (owner = "gone" /\ threads_ > 0)
  THEN next ELSE 0

\* Thread i of the vector is the thread of partition i; the partitions that
\* are fetched are those started and not yet stopped, and below them every
\* thread has ended.
Progress ==
  /\ owner = "ready" => next = 0 /\ threads_ = 0
  /\ owner = "starting" => next = threads_
  /\ owner \in {"joining", "joined", "off"} => next <= threads_
  /\ owner = "joined" => next < threads_ /\ thd[next] = "exited"
  /\ owner = "off" => next = threads_
  /\ owner = "gone" => threads_ = 0 \/ next = threads_
  /\ threads_ > 0 /\ owner \notin {"off", "gone"} => control = "live" /\ topic = "live"
  /\ owner \in {"ready", "starting"} => control = "live"

ThreadsOK ==
  \A p \in Partitions :
    /\ thd[p] = "none" <=> p >= threads_
    /\ p \in consuming <=> Stopped <= p /\ p < threads_
    /\ p < Stopped => thd[p] = "exited"

IInv == TypeOK /\ Progress /\ ThreadsOK

LEMMA IInvInit == Init => IInv
<1> SUFFICES ASSUME Init PROVE IInv
  OBVIOUS
<1>1. TypeOK
  <2>1. close_ \in BOOLEAN /\ kept \in BOOLEAN
    BY DEF Init
  <2>2. next \in 0 .. partition_ /\ threads_ \in 0 .. partition_
    BY PartitionAssumption DEF Init
  <2>3. QED
    BY <2>1, <2>2 DEF Init, TypeOK
<1>2. Progress
  BY DEF Init, Progress
<1>3. ThreadsOK
  BY PartitionAssumption DEF Init, ThreadsOK, Stopped, Partitions
<1>4. QED
  BY <1>1, <1>2, <1>3 DEF IInv

LEMMA IInvNext == IInv /\ [Next]_vars => IInv'
<1> SUFFICES ASSUME IInv, [Next]_vars PROVE IInv'
  OBVIOUS
<1> USE PartitionAssumption DEF IInv, TypeOK, Progress, Partitions
<1>1. CASE UNCHANGED vars
  BY <1>1 DEF vars, ThreadsOK, Stopped
<1>2. CASE Call
  BY <1>2 DEF Call, ThreadsOK, Stopped
<1>3. CASE Start
  <2>1. CASE owner' # "starting"
    <3>1. owner = "starting" /\ owner' \in {"on", "dead"} /\ (owner' = "on" => topic = "live")
          /\ UNCHANGED <<next, threads_, thd, consuming, close_, control, topic, kept>>
      BY <1>3, <2>1 DEF Start
    <3>2. QED
      BY <3>1 DEF ThreadsOK, Stopped
  <2>2. CASE owner' = "starting"
    <3>1. /\ next \in Partitions /\ threads_ = next /\ owner = "starting"
          /\ topic = "live"
          /\ consuming' = consuming \cup {next}
          /\ thd' = [thd EXCEPT ![next] = "test"]
          /\ threads_' = next + 1 /\ next' = next + 1 /\ owner' = owner
          /\ UNCHANGED <<close_, control, topic, kept>>
      BY <1>3, <2>2 DEF Start
    <3>2. TypeOK'
      BY <3>1
    <3>3. Progress'
      BY <3>1
    <3>4. ThreadsOK'
      BY <3>1 DEF ThreadsOK, Stopped
    <3>5. QED
      BY <3>2, <3>3, <3>4
  <2>3. QED
    BY <2>1, <2>2
<1>4. CASE Started
  BY <1>4 DEF Started, ThreadsOK, Stopped
<1>5. CASE Stop
  BY <1>5 DEF Stop, ThreadsOK, Stopped
<1>6. CASE Join
  BY <1>6 DEF Join, ThreadsOK, Stopped
<1>7. CASE ConsumeStop
  <2>1. /\ owner = "joined" /\ owner' = "joining" /\ next' = next + 1
        /\ consuming' = consuming \ {next} /\ next < threads_
        /\ thd[next] = "exited" /\ next \in Partitions
        /\ UNCHANGED <<threads_, close_, thd, control, topic, kept>>
    BY <1>7 DEF ConsumeStop
  <2>2. TypeOK' /\ Progress'
    BY <2>1
  <2>3. ThreadsOK'
    BY <2>1 DEF ThreadsOK, Stopped
  <2>4. QED
    BY <2>2, <2>3
<1>8. CASE Destroy
  BY <1>8 DEF Destroy, ThreadsOK, Stopped
<1>9. ASSUME NEW p \in Partitions, ConsumerThd(p) PROVE IInv'
  <2>1. /\ thd[p] \in {"test", "consume", "process"}
        /\ thd' = [thd EXCEPT ![p] = thd'[p]]
        /\ thd'[p] \in {"test", "consume", "process", "exited"}
        /\ kept' \in BOOLEAN
        /\ UNCHANGED <<owner, next, threads_, close_, control, topic, consuming>>
    <3>1. CASE Test(p)
      BY <3>1 DEF Test
    <3>2. CASE Consume(p)
      BY <3>2 DEF Consume
    <3>3. CASE Process(p)
      BY <3>3 DEF Process
    <3>4. QED
      BY <1>9, <3>1, <3>2, <3>3 DEF ConsumerThd
  <2>2. TypeOK' /\ Progress'
    BY <2>1
  <2>3. ThreadsOK'
    BY <2>1 DEF ThreadsOK, Stopped
  <2>4. QED
    BY <2>2, <2>3
<1>10. CASE Delete
  BY <1>10 DEF Delete, ThreadsOK, Stopped
<1>11. QED
  BY <1>1, <1>2, <1>3, <1>4, <1>5, <1>6, <1>7, <1>8, <1>9, <1>10
     DEF Next, StopSteps

LEMMA IInvAlways == Spec => []IInv
BY IInvInit, IInvNext, PTL DEF Spec

\* The type invariant holds in every behaviour.
THEOREM ConsumerTypeCorrect == Spec => []TypeOK
<1>1. IInv => TypeOK
  BY DEF IInv
<1>2. QED
  BY <1>1, IInvAlways, PTL

\* No consumer thread ever uses a null or destroyed handle or a stopped
\* partition, whatever Init() and StartAll() achieved.
THEOREM LiveHandles == Spec => []UsesLiveHandles
<1>1. IInv => UsesLiveHandles
  BY PartitionAssumption
     DEF IInv, TypeOK, Progress, ThreadsOK, Stopped, UsesLiveHandles, InUse,
         Partitions
<1>2. QED
  BY <1>1, IInvAlways, PTL

\* Neither stop() nor the destructor leaves a thread or a partition behind in a
\* process that lives on.
THEOREM NothingLeft == Spec => []StopsAll
<1>1. IInv => StopsAll
  BY PartitionAssumption
     DEF IInv, TypeOK, Progress, ThreadsOK, Stopped, StopsAll, Partitions
<1>2. QED
  BY <1>1, IInvAlways, PTL
--------------------------------------------------------------------------------
\* A Send waiting for lock read the clock at most MaxWait seconds ago.
Waiting ==
  \A s \in Senders : pc[s] = "lock" => at[s] <= now /\ now <= at[s] + MaxWait

\* The entry behind the handle that sender s holds, with an age that nobody
\* can have set further back than MaxWait before the call of s.
Kept(s) ==
  /\ to[s] \in Cached
  /\ topicMap[to[s]].topic = rkt[s]
  /\ topicMap[to[s]].last >= at[s] - MaxWait
Late(s) == now > at[s] + MaxAge - MaxWait
Holding ==
  \A s \in Senders : pc[s] = "produce" => at[s] <= now /\ (Late(s) \/ Kept(s))

ProducerIInv == ProducerTypeOK /\ Waiting /\ Holding

LEMMA ProducerIInvInit == ProducerInit => ProducerIInv
<1> SUFFICES ASSUME ProducerInit PROVE ProducerIInv
  OBVIOUS
<1>1. /\ Cached = {}
      /\ topicMap \in [Cached -> [last : Int, topic : Handle \cup {NoHandle}]]
  BY DEF ProducerInit, Cached
<1>2. hasControl \in BOOLEAN /\ undefined \in BOOLEAN
  BY DEF ProducerInit
<1>3. now \in Nat /\ made \in [Topics -> Nat] /\ at \in [Senders -> Nat]
  BY DEF ProducerInit
<1>4. /\ pc \in [Senders -> {"idle", "lock", "produce"}]
      /\ \A s \in Senders : pc[s] = "idle"
  BY DEF ProducerInit
<1>5. /\ to \in [Senders -> Topics \cup {NoTopic}]
      /\ rkt \in [Senders -> Handle \cup {NoHandle}]
  BY DEF ProducerInit
<1>6. QED
  BY <1>1, <1>2, <1>3, <1>4, <1>5
     DEF ProducerIInv, ProducerTypeOK, Waiting, Holding

\* The type of the variables is kept by every step.
LEMMA ProducerTypeNext ==
  ProducerTypeOK /\ [ProducerNext]_producerVars => ProducerTypeOK'
<1> SUFFICES ASSUME ProducerTypeOK, [ProducerNext]_producerVars
             PROVE  ProducerTypeOK'
  OBVIOUS
<1> USE DEF ProducerTypeOK, Cached, Handle
<1>1. CASE UNCHANGED producerVars
  BY <1>1 DEF producerVars
<1>2. CASE Tick
  BY <1>2 DEF Tick
<1>3. ASSUME NEW s \in Senders, Enter(s) PROVE ProducerTypeOK'
  BY <1>3 DEF Enter
<1>4. ASSUME NEW s \in Senders, Hit(s) PROVE ProducerTypeOK'
  <2>1. to[s] \in Topics /\ at[s] \in Int
    BY <1>4 DEF Hit
  <2>2. QED
    BY <1>4, <2>1 DEF Hit
<1>5. ASSUME NEW s \in Senders, Miss(s) PROVE ProducerTypeOK'
  <2> DEFINE new == [topic |-> to[s], nr |-> made[to[s]] + 1]
             grown(h) == [t \in Cached \cup {to[s]} |->
                IF t = to[s] THEN [last |-> now, topic |-> h] ELSE topicMap[t]]
             gone(h) == Victims(grown(h), at[s])
  <2>1. to[s] \in Topics
    BY <1>5 DEF Miss
  <2>2. PICK h \in {new, NoHandle} :
          /\ made' = [made EXCEPT ![to[s]] = IF h = NoHandle THEN @ ELSE @ + 1]
          /\ topicMap' = [t \in DOMAIN grown(h) \ gone(h) |-> grown(h)[t]]
          /\ rkt' = [rkt EXCEPT ![s] = h]
          /\ undefined' \in {~hasControl, ~hasControl \/ gone(h) # {}}
    BY <1>5 DEF Miss
  <2>3. h \in Handle \cup {NoHandle}
    BY <2>1
  <2>4. Cached' \subseteq Topics
    BY <2>1, <2>2
  <2>5. topicMap' \in [Cached' -> [last : Int, topic : Handle \cup {NoHandle}]]
    BY <2>2, <2>3
  <2>6. made' \in [Topics -> Nat]
    BY <2>1, <2>2
  <2>7. rkt' \in [Senders -> Handle \cup {NoHandle}]
    BY <2>2, <2>3
  <2>8. undefined' \in BOOLEAN
    BY <2>2
  <2>9. QED
    BY <1>5, <2>4, <2>5, <2>6, <2>7, <2>8 DEF Miss
<1>6. ASSUME NEW s \in Senders, Produce(s) PROVE ProducerTypeOK'
  BY <1>6 DEF Produce
<1>7. QED
  BY <1>1, <1>2, <1>3, <1>4, <1>5, <1>6 DEF ProducerNext, Send

\* The clock, the waiting and the holding Sends agree after every step.
LEMMA AgesNext ==
  ASSUME Ages, ProducerIInv, [ProducerNext]_producerVars
  PROVE  Waiting' /\ Holding'
<1> USE DEF ProducerIInv, ProducerTypeOK, Waiting, Holding, Kept, Late,
            Cached, Ages
<1>1. CASE UNCHANGED producerVars
  BY <1>1 DEF producerVars
<1>2. CASE Tick
  BY <1>2 DEF Tick
<1>3. ASSUME NEW s \in Senders, Enter(s) PROVE Waiting' /\ Holding'
  BY <1>3 DEF Enter
<1>4. ASSUME NEW s \in Senders, Hit(s) PROVE Waiting' /\ Holding'
  <2>1. /\ to[s] \in Cached /\ at[s] <= now /\ now <= at[s] + MaxWait
        /\ topicMap' = [topicMap EXCEPT ![to[s]].last = at[s]]
        /\ rkt' = [rkt EXCEPT ![s] = topicMap[to[s]].topic]
        /\ pc' = [pc EXCEPT ![s] = "produce"]
        /\ UNCHANGED <<now, to, at>>
    BY <1>4 DEF Hit
  <2>2. Waiting'
    BY <2>1
  <2>3. ASSUME NEW u \in Senders, pc'[u] = "produce"
        PROVE at'[u] <= now' /\ (Late(u)' \/ Kept(u)')
    <3>1. CASE u = s
      BY <2>1, <3>1
    <3>2. CASE u # s
      BY <2>1, <2>3, <3>2
    <3>3. QED
      BY <3>1, <3>2
  <2>4. QED
    BY <2>2, <2>3
<1>5. ASSUME NEW s \in Senders, Miss(s) PROVE Waiting' /\ Holding'
  <2> DEFINE new == [topic |-> to[s], nr |-> made[to[s]] + 1]
             grown(h) == [t \in Cached \cup {to[s]} |->
                IF t = to[s] THEN [last |-> now, topic |-> h] ELSE topicMap[t]]
  <2>1. PICK h \in {new, NoHandle} :
          /\ topicMap' = [t \in DOMAIN grown(h) \ Victims(grown(h), at[s])
                            |-> grown(h)[t]]
          /\ rkt' = [rkt EXCEPT ![s] = h]
    BY <1>5 DEF Miss
  <2>2. /\ to[s] \notin Cached /\ at[s] <= now
        /\ pc' = [pc EXCEPT ![s] = "produce"]
        /\ UNCHANGED <<now, to, at>>
    BY <1>5 DEF Miss
  <2>3. \A t \in Cached \cup {to[s]} :
          \/ t \in Cached' /\ topicMap'[t] = grown(h)[t]
          \/ at[s] - grown(h)[t].last > MaxAge
    BY <2>1 DEF Victims, TooOld
  <2>4. Waiting'
    BY <2>2
  <2>5. ASSUME NEW u \in Senders, pc'[u] = "produce"
        PROVE at'[u] <= now' /\ (Late(u)' \/ Kept(u)')
    <3>1. CASE u = s
      <4>1. /\ grown(h)[to[s]] = [last |-> now, topic |-> h]
            /\ ~(at[s] - grown(h)[to[s]].last > MaxAge)
        BY <2>2
      <4>2. to[s] \in Cached' /\ topicMap'[to[s]] = [last |-> now, topic |-> h]
        BY <2>3, <4>1
      <4>3. rkt'[s] = h
        BY <2>1
      <4>4. QED
        BY <2>2, <3>1, <4>2, <4>3
    <3>2. CASE u # s
      <4>1. pc[u] = "produce" /\ rkt'[u] = rkt[u] /\ at[u] <= now
        BY <2>1, <2>2, <2>5, <3>2
      <4>2. CASE Late(u)
        BY <2>2, <4>1, <4>2
      <4>3. CASE Kept(u)
        <5>1. to[u] # to[s] /\ grown(h)[to[u]] = topicMap[to[u]]
          BY <2>2, <4>3
        <5>2. \/ to[u] \in Cached' /\ topicMap'[to[u]] = topicMap[to[u]]
              \/ at[s] - topicMap[to[u]].last > MaxAge
          BY <2>3, <4>3, <5>1
        <5>3. QED
          BY <2>2, <4>1, <4>3, <5>2
      <4>4. QED
        BY <4>1, <4>2, <4>3
    <3>3. QED
      BY <3>1, <3>2
  <2>6. QED
    BY <2>4, <2>5
<1>6. ASSUME NEW s \in Senders, Produce(s) PROVE Waiting' /\ Holding'
  BY <1>6 DEF Produce
<1>7. QED
  BY <1>1, <1>2, <1>3, <1>4, <1>5, <1>6 DEF ProducerNext, Send

\* ProducerTypeOK holds of the producer for any senders, topics, sizes and ages.
THEOREM ProducerTypeCorrect == Producer => []ProducerTypeOK
<1>1. ProducerInit => ProducerTypeOK
  BY ProducerIInvInit DEF ProducerIInv
<1>2. QED
  BY <1>1, ProducerTypeNext, PTL DEF Producer

\* HeldIsCached: the handle a Send uses after lock was released is the cached
\* one for at least MaxAge - MaxWait seconds, for any senders and topics.
THEOREM HandlesKept == ASSUME Ages PROVE Producer => []HeldIsCached
<1>1. ProducerIInv /\ [ProducerNext]_producerVars => ProducerIInv'
  BY ProducerTypeNext, AgesNext DEF ProducerIInv
<1>2. ProducerIInv => HeldIsCached
  BY DEF ProducerIInv, ProducerTypeOK, Holding, Late, Kept, HeldIsCached, Ages
<1>3. QED
  BY ProducerIInvInit, <1>1, <1>2, PTL DEF Producer
================================================================================
