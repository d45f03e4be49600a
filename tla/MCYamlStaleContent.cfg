\* A YAML is edited while a validation of it is pending.
SPECIFICATION UnlimitedSpec
CONSTANTS
  Yamls = {1}
  FirstYamls = {1}
  Versions = {"v1", "v2"}
  FirstVersion = "v1"
  Manifests = {"m1", "m2"}
  FirstManifest = "m1"
  Indexes = {0, 1, 2}
  Release <- NewReleases
  Releases = {"a", "b", "c", "d", "e"}
  Handlers = {h1}
  Workers = {"w1", "w2"}
  WorkerVersion <- OneEach
  Kinds = {"retry", "edit"}
  DeadlinesPass = FALSE
  Unreadable = {}
  Failures = FALSE
  MaxTime = 3
  MaxContent = 1
  None = None
  Deleted = Deleted
INVARIANT VerdictOnContent
CHECK_DEADLOCK FALSE
