SPECIFICATION LobbySpec
CONSTANTS
  None = None
  Gone = Gone
  ann = ann
  root = root
  Users <- TwoUsers
  Admins <- RootOnly
  Config <- BothBases
  WorldIndexes <- SeveralWorldIndexes
  FormIndexes <- TwoFormIndexes
  Configs <- TwoConfigs
  OldCookies <- TwoOldCookies
  Pages = {q1}
  Jobs = {j1, j2}
  Versions = {v1, v2}
  FirstVersion = v1
  Requests = {r1, r2}
  Kinds = {"start", "cancel", "upload", "patches", "switch", "edit"}
  Failures = TRUE
  Rels = {1, 2}
  MaxJobs = 2
  MaxRefresh = 1
  MaxShed = 1
  Tpls = {t1}
  Rooms = {r1}
  Off = Off
  Latest = Latest
  Supported = Supported
  Blank = Blank
  Dates = {2, 6}
  MaxAhead = 2
  MaxNow = 1
  MaxOpens = 2
  Tabs = {1, 2}
  MaxUuid = 3
  MaxSends = 3
  MaxRestarts = 1
INVARIANTS  ManifestOfGeneration
PROPERTIES RowKeepsItsJob OptionsOfTheBase RequestsEnd FormsHold SessionsHold
CHECK_DEADLOCK FALSE
