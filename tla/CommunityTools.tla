---------------------------- MODULE CommunityTools ----------------------------
(***************************************************************************)
(* The tools around the lobby put together: of community-ap-tools the      *)
(* teams and reviews (ReviewTeams), the analysis of YAMLs (YamlAnalysis)   *)
(* and the dashboard of a hosted room (Dashboard), and the folder of       *)
(* releases that apwm keeps for the lobby (ReleaseFolder).  They touch     *)
(* none of each other's state.  Here is what is promised of each.          *)
(***************************************************************************)
EXTENDS Integers, FiniteSets

CONSTANTS Yamls, Pollers, TTL, Deadline, MaxJobs, MaxFails, MaxForced,
          Readers, Writers, Owners, Passwords, MaxChanges, MaxErrors,
          Users, Super, Teams, Rooms, Presets, Author, Roles,
          MaxRules, MaxNotes, MaxImport, MaxOps,
          Rels, Contents, Procs, Commits,
          Nil   \* Rust's None

VARIABLES
  row, key, job, poll, force, fails, forced, freed,
  apx, lobby, store, apRoom, cache, lock, reader, writer, answer, overlap, changes, errors,
  team, member, rooms, preset, rules, config, status, edited, notes, task, held, ops,
  listed, locked, torn, upstream, disk, fetch, rival

Y == INSTANCE YamlAnalysis WITH None <- Nil
D == INSTANCE Dashboard WITH None <- Nil
T == INSTANCE ReviewTeams WITH None <- Nil
L == INSTANCE ReleaseFolder WITH lock <- locked, job <- fetch

\* What the commits of the index repository hold
ASSUME RepositoryAssumption == L!IsRepository

-----------------------------------------------------------------------------
\* start_unanalyzed_yaml_poller and the in-flight key: a YAML has one job at a time, and one more for
\* each forced request and each lost reply of the queue.
OneJobAtATime == Y!OneJobAtATime

\* The dashboard's caches: it shows the switches as they are, what it shows is recent, and apx and
\* the lobby agree on passwords once nothing is under way.
DashboardIsTrue == D!DashboardIsTrue

\* Roles of the review tool: no row outlives what it belongs to, whoever changed something once had
\* the role for it, pages list what the user's role lets it open, and admins are made by super
\* admins. Others act between a request's check and its write.
EntitledOnly == T!EntitledOnly

\* refresh_into, by processes that share the folder: what a process has loaded is on disk, whole and with
\* the checksum it is locked with, until a process with another checksum replaces it, and a locked
\* release keeps its checksum whatever its server gives, unless a write of index.lock is cut.
LocksAreTrue == [](L!TypeOK /\ L!LockSaysWhatIsOnDisk) /\ L!LocksAreKept
=============================================================================
