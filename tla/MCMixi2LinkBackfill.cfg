SPECIFICATION Spec
CONSTANTS
  Attempts = 2
  FetchLimit = 3
  Forwardable <- MCForwardable
  Illustrated <- MCIllustrated
  MaxNote = 3
  MaxFailures = 1
  MaxStops = 1
INVARIANTS
  BackfillCatchesUp
CHECK_DEADLOCK FALSE
