SPECIFICATION MCSpec
CONSTANTS
  Capacity = 2
  MaxNote = 5
  QueueSize = 1
  MaxCalls = 2
  OwnersPosts = {1, 2}
  WithImages = {2}
  Posts = {1, 2, 3}
  MaxSendings = 3
  MaxFaults = 2
  MaxHalts = 1
  Day = 2
  Overlap = 1
  Lateness = 1
  PageLimit = 1
  LastTime = 3
  MaxCheckins = 2
  MaxRemovals = 1
  MaxErrors = 1
  MaxByHand = 1
CHECK_DEADLOCK FALSE
INVARIANTS AronaSafe ForwardedOnce LeftOutOnlyByRemovals
PROPERTIES ForwardingSpec WatcherGoesOn MentionGoesOn
