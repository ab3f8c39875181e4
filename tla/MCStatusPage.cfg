SPECIFICATION MCSpec
CONSTANTS
  Services = {"web", "api", "db", "host", "bot"}
  Type <- MCType
  OkStatuses <- MCOkStatuses
  Statuses = {200, 401, 503}
  Guests = {"db", "api"}
  Sample = 2
  Bucket = 4
  Threshold = 5
  Raw = 9
  Ranges <- MCRanges
  LastClock = 13
  StaleAfter = 3
  TTL = 1
  Oldest = 4
  TimeRanges = {"24h", "7d"}
  MaxEvents = 2
CHECK_DEADLOCK FALSE
INVARIANTS StatusSafe BarsCountSamples GapsExact
PROPERTIES CheckPassEnds ViewCatchesUp
