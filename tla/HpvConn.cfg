\* Two frames in flight, cut anywhere: a body for which the room is doubled, one
\* that fits into this room but finds none of its own, and a length below that of
\* the head.
SPECIFICATION ConnFairSpec
CONSTANTS
  FrameSizes <- MCFrameSizes
  MaxFrames = 3
  Window = 2
  BigBuffer = 3
  MaxRoom = 5
INVARIANTS FramesInOrder BufferFits EndKeepsFrames
PROPERTIES EndCloses NeedCloseCloses SentIsHandled
CHECK_DEADLOCK FALSE
