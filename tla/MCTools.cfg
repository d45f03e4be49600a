SPECIFICATION ToolsSpec
CONSTANTS
  root = root
  ann = ann
  bob = bob
  Users <- ThreeUsers
  Super <- RootOnly
  Author <- AllByAnn
  Nil = Nil
  Teams = {t1, t2}
  Rooms = {x}
  Presets = {p1, p2}
  Roles = {2, 3, 6}
  MaxRules = 2
  MaxNotes = 1
  MaxImport = 2
  MaxOps = 3
  Yamls = {y1}
  Pollers = {d1, d2}
  TTL = 2
  Deadline = 1
  MaxJobs = 3
  MaxFails = 2
  MaxForced = 1
  Readers = {g1, g2}
  Writers = {w1, w2}
  Owners = {o1, o2}
  Passwords = {1}
  MaxChanges = 2
  MaxErrors = 1
  None = None
  Unset = Unset
  Numerals <- SomeNumerals
  Jsons <- SomeJsons
  Randoms = {"random", "random-low"}
  MaxIterations = 5
  Rels = {r1, r2}
  Contents = {c1, c2}
  r1 = r1
  r2 = r2
  c1 = c1
  c2 = c2
  Procs = {q1, q2}
  Commits <- ThreeCommits
INVARIANTS OneJobAtATime DashboardIsTrue RulesAreRight ReviewIsComplete ReleasesResolve ChangesExact FormsRoundTrip
PROPERTIES EntitledOnly AnalysedInTheEnd LocksAreTrue
CHECK_DEADLOCK FALSE
