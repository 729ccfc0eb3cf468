\* queueSize_ = 0: a second waiting Runnable is refused, functions are never dropped.
SPECIFICATION FairSpec
CONSTANTS
  Workers = {w1, w2}
  Runnables = {r1, r2, r3}
  Funcs = {f1, f2}
  QueueSize = 0
  NoTask = NoTask
PROPERTY ImplementsFairTaskPool
