\* One connection at the start, three at most, guards that ask twice, a server
\* with a password.
SPECIFICATION FairSpec
CONSTANTS
  Guards = {g1, g2, g3}
  InitialSize = 1
  MaxSize = 3
  HasPassword = TRUE
  NoControl = NoControl
INVARIANTS PoolBounded LoansCounted ReepReadsInitialised
PROPERTY SurplusIsReaped
