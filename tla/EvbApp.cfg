\* Two addresses used again and again; two threads, two protocols under one
\* mode, frames of modes outside the table and bodies longer than the buffer;
\* messages of up to four fields.  A message that is read is not followed by
\* another one.
SPECIFICATION EvbApp
CONSTANTS
  Addresses = {a1, a2}
  MaxMisses = 4
  Threads = {t1, t2}
  Protocols = {p1, p2}
  Apps <- MCApps
  Slots = 2
  Modes <- MCModes
  Room = 1
  MaxLen = 2
  None = None
  p1 = p1
  p2 = p2
  Numbers <- MCNumbers
  Strings <- MCStrings
  MAX_SEND_LEN = 8
  MaxFields = 4
SYMMETRY Symmetry
INVARIANTS AnswersOwnMisses PacketsWhole FramesRouted ReadBack
CHECK_DEADLOCK FALSE
