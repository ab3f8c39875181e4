SPECIFICATION Spec
CONSTANTS
  g1 = g1
  g2 = g2
  NoGuild = NoGuild
  Guilds <- MCGuilds
  Tagged <- MCTagged
  FetchLimit = 3
  MaxNote = 3
  MaxCrashes = 2
  MaxDrops = 1
INVARIANTS
  Safe
  MissedOnlyInGap
PROPERTIES
  ForwardingSpec
  OldNotesStaySilent
  ReceivedIsHandled
