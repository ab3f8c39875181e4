SPECIFICATION Spec
CONSTANTS
  BucketSize = 2
  ChunkSize = 4
  Retention = 3
  CleanupInterval = 2
  MaxTime = 6
  MaxFailures = 1
  MaxCrashes = 1
PROPERTIES
  StartLeadsToChecks
CHECK_DEADLOCK FALSE
