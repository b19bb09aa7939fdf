CONSTANTS
  Payload = {1}
  MaxCells = 4
  MaxSources = 2
  MaxLoops = 2
  MaxLift = 3
  MaxSends = 1
  InTime = TRUE
SPECIFICATION LazySpec
INVARIANT LazyTypeOK
INVARIANT SampleExact
INVARIANT SampleFailsWell
INVARIANT LiftStateCurrent
INVARIANT TakenExact
CHECK_DEADLOCK FALSE
