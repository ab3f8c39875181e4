SPECIFICATION MCSpec
CONSTANTS
  Mod = Mod
  Helper = Helper
  Guest = Guest
  Members = {1, 2, 3}
  Users = {1, 2}
  Owner = 2
  Roles = {Mod, Helper, Guest}
  Perms <- MCPerms
  Position <- MCPosition
  Configs <- MCConfigs
  MaxSaves = 2
  MaxChanges = 1
  PageSize = 2
  BotPosition = 4
  MaxFailures = 1
  Browsers = {b1, b2}
  StateTTL = 1
  SessionTTL = 2
  MaxLogins = 2
  MaxTime = 3
  Guilds = {"A", "B"}
  Ids = {1, 2}
  GuildOf <- MCGuildOf
  MaxRequests = 5
  Admins = {u1, u2}
  Looks = {"x"}
  MaxEdits = 2
  FirstYear = 2026
  Years = 15
  Clocks <- MCClocks
  Texts <- MCTexts
CHECK_DEADLOCK FALSE
INVARIANTS AdminSafe StayersServed SessionLivesItsTerm OnlyOwnLogins SettingsStayHome ListIsCurrent ParsedIsNext
PROPERTIES StoredWasChecked EventuallySynced OnlyWhatWasEntered
