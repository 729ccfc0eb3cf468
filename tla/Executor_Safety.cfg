\* queueSize_ = 2: the fourth task waiting in either queue finds it overfull.
SPECIFICATION Spec
CONSTANTS
  Workers = {w1, w2, w3}
  Runnables = {r1, r2, r3, r4}
  Funcs = {f1, f2, f3, f4}
  QueueSize = 2
  NoTask = NoTask
SYMMETRY Symmetry
INVARIANTS NoLostWakeup QueueBound OnePlace
PROPERTY ImplementsTaskPool
