\* One lobby room, four handler ids, two requests at a time and the killer of idle rooms; apx
\* stops once. One slot with two locations, all in sphere 1; three clients in two slots; three
\* servers with two or three games.
SPECIFICATION ApxSpec
CONSTANTS
  a = a b = b c = c None = None
  Rooms = {r1}
  Slots = {s1}
  Switches = {"full_feed", "own_slot"}
  MinId = 1
  MaxId = 4
  Taken = {{}, {4}}
  Requests = {q1, q2}
  MaxInst = 3
  MaxOps = 3
  MaxCrashes = 1
  MaxDeaths = 1
  Edits = {"switch", "prob", "alt", "death"}
  Askers = {q1}
  Clients <- ThreeClients
  SlotOf <- TwoSlots
  GameOf <- TwoGames
  TagsOf <- SomeTags
  Messages <- TwoMessages
  Checksum <- SharedChecksums
  Info <- RoomInfos
  Locations = {l1, l2}
  SphereOne = {l1, l2}
  Timeout = 1
  MaxTime = 2
  MaxFails = 1
  Throttle = 2
  BounceTime = 3
  MaxSent = 2
  MaxEdits = 1
  Servers = {"r1", "r2", "r3"}
  Games = {"a", "b", "c"}
  Optimized = {"r2"}
  MaxRequest = 3
INVARIANTS IdsLeadToTheRoom StoreTellsRooms BouncesAsRuled PackagesServed ProgressIsTrue
PROPERTY CatchesUp
CHECK_DEADLOCK FALSE
