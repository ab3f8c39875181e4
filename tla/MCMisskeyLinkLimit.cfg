SPECIFICATION Spec
CONSTANTS
  g1 = g1
  g2 = g2
  NoGuild = NoGuild
  Guilds <- MCGuilds
  Tagged <- MCTagged
  FetchLimit = 1
  MaxNote = 4
  MaxCrashes = 1
  MaxDrops = 0
INVARIANTS
  MissedOnlyInGap
