SPECIFICATION Spec
CONSTANTS
  Attempts = 2
  FetchLimit = 3
  Forwardable <- MCForwardable
  Illustrated <- MCIllustrated
  MaxNote = 3
  MaxFailures = 2
  MaxStops = 2
INVARIANTS
  Safe
  RepeatsBounded
  NoSilentLoss
  MissedOnlyInGap
PROPERTIES
  ForwardingSpec
  ReceivedIsHandled
CHECK_DEADLOCK FALSE
