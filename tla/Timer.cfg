\* Two jobs with any period of 0 to 2 seconds, any count of 0 to 2.
SPECIFICATION FairSpec
CONSTANTS
  Jobs = {j1, j2}
  Secs = {0, 1, 2}
  Counts = {0, 1, 2}
  MaxTime = 3
  TimerThd = TimerThd
  Nothing = Nothing
INVARIANTS CallsExact NeverOversleeps
PROPERTIES NeverEarly DueIsCalled
