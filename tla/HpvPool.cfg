\* Two threads, the acceptor and one caller of addServer, four connections.
SPECIFICATION FairSpec
CONSTANTS
  ThreadNum = 2
  Acceptor = acceptor
  Users = {u1}
  Accepted = {a1, a2, a3}
  Added = {s1}
  PipeSize = 1
  None = None
INVARIANTS OneOwner CountExactUnlessRaced Balanced
PROPERTY SentIsReceived
CHECK_DEADLOCK FALSE
