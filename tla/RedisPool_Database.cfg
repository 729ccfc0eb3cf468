\* A server without a password, a database chosen by SELECT.
SPECIFICATION Spec
CONSTANTS
  Guards = {g1}
  InitialSize = 1
  MaxSize = 1
  HasPassword = FALSE
  NoControl = NoControl
INVARIANT OnSelectedDb
