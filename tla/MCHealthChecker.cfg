SPECIFICATION Spec
CONSTANTS
  BucketSize = 2
  ChunkSize = 4
  Retention = 3
  CleanupInterval = 2
  MaxTime = 7
  MaxFailures = 2
  MaxCrashes = 1
INVARIANTS
  Safe
  CountedUnlessCutShort
PROPERTIES
  BackfillRepairs
  PassEnds
CHECK_DEADLOCK FALSE
