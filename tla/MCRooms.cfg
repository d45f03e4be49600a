\* One YAML and room for another; two requests, two versions, two manifests and three indexes.
SPECIFICATION RoomsSpec
CONSTANTS
  Yamls = {1, 2}
  FirstYamls = {1}
  Versions = {"v1", "v2"}
  FirstVersion = "v1"
  Manifests = {"m1", "m2"}
  FirstManifest = "m1"
  Indexes = {0, 1, 2}
  Release <- NewReleases
  Releases = {"a", "b", "c", "d", "e"}
  Handlers = {h1, h2}
  Workers = {"w1", "w2"}
  WorkerVersion <- OneEach
  Kinds = {"upload", "edit", "delete", "retry", "editRoom", "refresh", "switch"}
  DeadlinesPass = TRUE
  Unreadable = {1}
  Failures = TRUE
  MaxTime = 4
  MaxContent = 1
  None = None
  Deleted = Deleted
SYMMETRY Symmetry
INVARIANTS NoneForgotten VerdictOnRoomRelease
PROPERTY DeletedStaysDeleted
CHECK_DEADLOCK FALSE
