\* Two callers, one connection, one of the callers sets parameters; files of up
\* to four lines for drivers of up to two threads and for the pools; two
\* texts of up to four bytes.
\* A driver or pool that has started, or failed to, takes no further step.
SPECIFICATION WebApp
CONSTANTS
  Connections = {x1}
  Callers = {c1, c2}
  Builders = {c1}
  Positions <- MCPositions
  NoValue = NoValue
  NoConn = NoConn
  NoPool = NoPool
  MaxSets = 2
  MaxRows = 2
  MaxList = 1
  MaxLines = 4
  MaxLine = 3
  Lines <- MCLines
  Sections <- MCSections
  Keys <- MCKeys
  Empty = ""
  Garbled = "garbled"
  Number <- MCNumber
  GarbledNumbers = {1, 2}
  Ports = {7}
  Word <- MCWord
  Wild = {7}
  Unsafe = {"my&"}
  Inputs <- MCInputs
  MaxCalls = 2
INVARIANTS OneUser ResultAgrees BoundAsSet GetIsDeclared StartsAsDeclared RoundTrip
PROPERTY ComesBack
CHECK_DEADLOCK FALSE
