\* Three partitions; three senders on two topics where one fits into the cache.
\* After stop() the consumer is at rest, and after undefined behaviour the
\* producer.
SPECIFICATION Kafka
CONSTANTS
  partition_ = 3
  Senders = {s1, s2, s3}
  Topics = {t1, t2}
  NoHandle = NoHandle
  NoTopic = NoTopic
  MaxTopics = 1
  MaxAge = 2
  MaxWait = 1
  MaxTime = 5
  MaxHandles = 2
INVARIANTS UsesLiveHandles StopsAll HeldIsCached
PROPERTY StopReturns
CHECK_DEADLOCK FALSE
