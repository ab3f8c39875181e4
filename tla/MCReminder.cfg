SPECIFICATION Spec
CONSTANTS
  u1 = u1
  u2 = u2
  g1 = g1
  g2 = g2
  Users <- MCUsers
  Guilds <- MCGuilds
  MaxPending = 1
  MaxTimeout = 1
  MaxTime = 3
  MaxId = 2
  MaxCrashes = 1
INVARIANTS
  Safe
  CancelledStaysSilent
PROPERTIES
  PromiseSpec
  EventuallySettled
