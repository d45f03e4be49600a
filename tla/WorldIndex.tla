----------------------------- MODULE WorldIndex -----------------------------
(* The index of worlds as apwm reads it: what each Archipelago base sees of *)
(* a world's file, how a room's manifest picks a release of every world,    *)
(* what a room's move to another base does, and what the linter requires.   *)
(*                                                                          *)
(* Versions, of worlds and of Archipelago, are numbers; the names of files  *)
(* and of games are numbers too, since the code compares the two. An index  *)
(* is [legacy, bases, worlds], worlds mapping file names to world files;    *)
(* the view of a base is [base, worlds], worlds mapping file names to the   *)
(* worlds it sees. None is a value that is not given.                       *)
EXTENDS Integers, FiniteSets, Sequences, FiniteSetsExt, SequencesExt, Functions

CONSTANT None

\* What a manifest may ask of a world.
Latest == [req |-> "latest"]
LatestSupported == [req |-> "latest_supported"]
Disabled == [req |-> "disabled"]
Specific(v) == [req |-> "specific", v |-> v]

Given(x, otherwise) == IF x = None THEN otherwise ELSE x

\* What is read of a file and of a room's row: versions, requirements, releases and overrides.
IsVersions(vs) == IsFiniteSet(vs) /\ \A v \in vs : v \in Nat
IsReq(req) == req \in {Latest, LatestSupported, Disabled} \/ (req = Specific(req.v) /\ req.v \in Nat)
IsWorldFile(def) ==
  /\ def.name \in Nat /\ IsReq(def.default) /\ def.disabled \in BOOLEAN /\ def.supported \in BOOLEAN
  /\ IsVersions(DOMAIN def.versions) /\ IsVersions(DOMAIN def.releases)
  /\ \A v \in DOMAIN def.versions : def.versions[v] \in {"default", "url", "local"}
  /\ \A v \in DOMAIN def.releases :
       /\ def.releases[v].min \in Nat \cup {None} /\ def.releases[v].max \in Nat \cup {None}
       /\ def.releases[v].origins \subseteq {"url", "local"}
  /\ \A i \in DOMAIN def.overrides :
       LET change == def.overrides[i] IN
         /\ i \in Nat /\ change.supported \in BOOLEAN \cup {None} /\ change.disabled \in BOOLEAN \cup {None}
         /\ change.default = None \/ IsReq(change.default)
IsIndexFile(index) ==
  /\ index.legacy \in Nat /\ IsVersions(index.bases)
  /\ IsVersions(DOMAIN index.worlds) /\ \A n \in DOMAIN index.worlds : IsWorldFile(index.worlds[n])
IsManifest(manifest) ==
  /\ manifest = [worlds |-> manifest.worlds, policy |-> manifest.policy]
  /\ manifest.policy \in {"enable", "disable"} /\ \A n \in DOMAIN manifest.worlds : IsReq(manifest.worlds[n])

-----------------------------------------------------------------------------
\* Release::runs_on
RunsOn(release, base) ==
  /\ release.min = None \/ release.min <= base
  /\ release.max = None \/ base <= release.max

\* WorldDef::new fails on a release with two origins and on an unreadable requirement.
Parses(def) ==
  /\ \A v \in DOMAIN def.releases : Cardinality(def.releases[v].origins) <= 1
  /\ \A i \in DOMAIN def.overrides : def.overrides[i].bases # None

\* Release::origin: the url first.
Origin(release) ==
  CASE "url" \in release.origins -> "url"
    [] release.origins = {"local"} -> "local"
    [] OTHER -> None

\* WorldDef::override_for: the override of a base, [ok |-> FALSE] when two apply.
OverrideFor(def, base) ==
  LET matching == {i \in DOMAIN def.overrides : base \in def.overrides[i].bases}
  IN [ok |-> Cardinality(matching) <= 1,
      change |-> IF matching = {} THEN [supported |-> None, disabled |-> None, default |-> None]
                 ELSE def.overrides[Min(matching)]]

\* The releases a base sees, with the origin of each.
VersionsOn(def, base, supported) ==
  LET run == {v \in DOMAIN def.releases : RunsOn(def.releases[v], base)}
      known == (DOMAIN def.versions \ DOMAIN def.releases) \cup run
  IN [v \in known \cup (IF supported THEN {base} ELSE {}) |->
        IF supported /\ v = base THEN "supported"
        ELSE IF v \in run THEN Given(Origin(def.releases[v]), IF v \in DOMAIN def.versions THEN def.versions[v] ELSE "default")
        ELSE def.versions[v]]

\* WorldDef::for_base: the world as a base sees it, None when it has no such world.
ForBase(def, base) ==
  LET change == OverrideFor(def, base).change
      supported == Given(change.supported, def.supported)
      versions == VersionsOn(def, base, supported)
  IN IF Given(change.disabled, def.disabled) \/ DOMAIN versions = {} THEN None
     ELSE [name |-> def.name, default |-> Given(change.default, def.default), versions |-> versions, supported |-> supported]

\* IndexSet::view_for_base
ViewForBase(index, base) ==
  LET Seen(worlds) == [n \in {m \in DOMAIN worlds : worlds[m] # None} |-> worlds[n]]
  IN [base |-> base, worlds |-> Seen([n \in DOMAIN index.worlds |-> ForBase(index.worlds[n], base)])]

\* The bases of IndexSet::new: the declared ones and the legacy one.
BasesOf(index) == index.bases \cup {index.legacy}

\* IndexSet::new succeeds when every file reads and no base has two overrides of one world.
Loads(index) ==
  \A n \in DOMAIN index.worlds :
    Parses(index.worlds[n]) /\ \A b \in BasesOf(index) : OverrideFor(index.worlds[n], b).ok

\* Whose entry all_releases keeps: the legacy base's comes first, then each base's in turn.
FirstOf(index, bases) == IF index.legacy \in bases THEN index.legacy ELSE Min(bases)

\* The views of every base, merged.
MergedViews(index, names) ==
  LET views == [b \in BasesOf(index) |-> ViewForBase(index, b).worlds]
      seers(n) == {b \in BasesOf(index) : n \in DOMAIN views[b]}
      versions(n) == UNION {DOMAIN views[b][n].versions : b \in seers(n)}
      origin(n, v) == views[FirstOf(index, {b \in seers(n) : v \in DOMAIN views[b][n].versions})][n].versions[v]
  IN [base |-> index.legacy,
      worlds |-> [n \in names |->
        [views[FirstOf(index, seers(n))][n] EXCEPT !.versions = [v \in versions(n) |-> origin(n, v)]]]]

\* IndexSet::all_releases: the worlds and releases of every base
AllReleases(index) ==
  MergedViews(index, UNION {DOMAIN ViewForBase(index, b).worlds : b \in BasesOf(index)})

-----------------------------------------------------------------------------
\* World::get_latest_release
GetLatestRelease(world) == IF DOMAIN world.versions = {} THEN None ELSE Max(DOMAIN world.versions)

\* World::get_latest_supported_release: the first one in the order of versions.
GetLatestSupportedRelease(world) ==
  LET core == {v \in DOMAIN world.versions : world.versions[v] = "supported"}
  IN IF core = {} THEN None ELSE Min(core)

\* World::get_version
GetVersion(world, v) == IF v \in DOMAIN world.versions THEN v ELSE None

\* Index::get_world_by_name: the first file whose game has that name.
GetWorldByName(view, name) ==
  LET named == {n \in DOMAIN view.worlds : view.worlds[n].name = name}
  IN IF named = {} THEN None ELSE Min(named)

\* Manifest::get_version_req. The game of the file's name is looked up, not the file.
GetVersionReq(manifest, file, view) ==
  LET byName == GetWorldByName(view, file)
  IN IF file \in DOMAIN manifest.worlds THEN manifest.worlds[file]
     ELSE IF manifest.policy = "disable" THEN Disabled
     ELSE IF byName = None THEN Latest ELSE view.worlds[byName].default

\* Manifest::resolve_world_version; None stands for either error.
ResolveWorldVersion(world, req) ==
  LET byDefault ==
        CASE world.default.req = "latest" -> GetLatestRelease(world)
          [] world.default.req = "latest_supported" -> GetLatestSupportedRelease(world)
          [] world.default.req = "specific" -> GetVersion(world, world.default.v)
          [] OTHER -> None
  IN CASE req.req = "latest_supported" -> GetLatestSupportedRelease(world)
       [] req.req = "latest" -> byDefault
       [] req.req = "specific" -> Given(GetVersion(world, req.v), GetLatestRelease(world))
       [] OTHER -> None

\* Manifest::resolve_with: the release of every world that resolves, and the worlds that do not.
ResolveWith(manifest, view) ==
  LET enabled == {n \in DOMAIN view.worlds : GetVersionReq(manifest, n, view) # Disabled}
      of(n) == ResolveWorldVersion(view.worlds[n], GetVersionReq(manifest, n, view))
  IN [resolved |-> [n \in {m \in enabled : of(m) # None} |-> of(n)], errors |-> {n \in enabled : of(n) = None}]

\* Manifest::resolve_from_game_name
ResolveFromGameName(manifest, game, view) ==
  LET file == GetWorldByName(view, game)
  IN IF file = None THEN None ELSE ResolveWorldVersion(view.worlds[file], GetVersionReq(manifest, file, view))

\* Manifest::is_enabled
IsEnabled(manifest, file) ==
  IF file \in DOMAIN manifest.worlds THEN manifest.worlds[file] # Disabled ELSE manifest.policy = "enable"

\* Manifest::from_index_with_default_versions
FromIndexWithDefaultVersions(view) ==
  [worlds |-> [n \in DOMAIN view.worlds |-> view.worlds[n].default], policy |-> "enable"]

(* Mistake: the worlds that the manifest does not name are left to the index. *)
UpdatedWithIndexNamed(manifest, view) ==
  [manifest EXCEPT !.worlds = [n \in DOMAIN view.worlds |-> IF n \in DOMAIN manifest.worlds THEN manifest.worlds[n] ELSE Latest]]

\* Manifest::updated_with_index
UpdatedWithIndex(manifest, view) ==
  [manifest EXCEPT !.worlds = [n \in DOMAIN view.worlds |-> GetVersionReq(manifest, n, view)]]

\* Manifest::freeze
Freeze(manifest, view) ==
  [manifest EXCEPT !.worlds = [n \in DOMAIN manifest.worlds |->
     IF manifest.worlds[n] = Latest /\ n \in DOMAIN view.worlds
     THEN Specific(GetLatestRelease(view.worlds[n])) ELSE manifest.worlds[n]]]

-----------------------------------------------------------------------------
\* unavailable_pin: the pin of a game that the view does not have, if there is one.
UnavailablePin(manifest, view, game) ==
  LET file == GetWorldByName(view, game)
      req == GetVersionReq(manifest, file, view)
  IN IF file = None THEN None
     ELSE IF req.req = "specific" /\ req.v \notin DOMAIN view.worlds[file].versions THEN req.v ELSE None

\* What a move of the room does to one game: the match in switch_report.
ChangeKind(manifest, current, target, game) ==
  LET from == ResolveFromGameName(manifest, game, current)
      to == ResolveFromGameName(manifest, game, target)
  IN IF from = to THEN IF from = None THEN "none" ELSE "unchanged"
     ELSE IF to = None THEN "lost"
     ELSE IF from = None THEN "gained"
     ELSE IF UnavailablePin(manifest, target, game) # None THEN "pin" ELSE "moved"

\* switch_report: games is one entry per YAML that can roll a game.
SwitchReport(manifest, current, target, games) ==
  LET kinds(ks) == {g \in Range(games) : ChangeKind(manifest, current, target, g) \in ks}
      counted(gs) == [g \in gs |-> Cardinality({i \in DOMAIN games : games[i] = g})]
  IN [warnings |-> counted(kinds({"lost", "pin"})), changes |-> counted(kinds({"moved", "gained"})),
      unchanged |-> Cardinality(kinds({"unchanged"}))]

-----------------------------------------------------------------------------
\* The errors of lint_versions_table and lint_releases_table: a release that runs nowhere.
LintReleasesTable(def) ==
  {v \in DOMAIN def.releases :
     LET r == def.releases[v] IN r.min # None /\ r.max # None /\ r.min > r.max}

\* The bases on which lint_world finds that a default is not available.
LintDefaults(index, file) ==
  {b \in BasesOf(index) : LET w == ForBase(index.worlds[file], b) IN
     /\ w # None
     /\ \/ w.default.req = "specific" /\ w.default.v \notin DOMAIN w.versions
        \/ w.default = LatestSupported /\ ~w.supported}

\* lint_world finds no error.
LintWorld(index, file) ==
  LET def == index.worlds[file]
  IN /\ LintReleasesTable(def) = {}
     /\ \A v \in DOMAIN def.versions \cap DOMAIN def.releases : RunsOn(def.releases[v], index.legacy)
     /\ DOMAIN def.versions # {} \/ def.supported \/ def.disabled
     /\ LintDefaults(index, file) = {}

\* apwm lint: the index loads and has no error.
Lint(index) == Loads(index) /\ \A n \in DOMAIN index.worlds : LintWorld(index, n)

-----------------------------------------------------------------------------
\* What a lobby from before [releases] offers of a world: its [versions], and the legacy base if supported.
OldLobbyOffers(index, file) ==
  LET def == index.worlds[file] IN DOMAIN def.versions \cup (IF def.supported THEN {index.legacy} ELSE {})

\* A base sees exactly the releases that may run on it, and no world without one, so that taking
\* the newest release of a world that is seen (from_index_with_default_versions, freeze) succeeds.
SeesWhatRuns(index) ==
  \A b \in BasesOf(index), n \in DOMAIN index.worlds :
    LET def == index.worlds[n]
        view == ViewForBase(index, b)
        constrained(v) == v \in DOMAIN def.releases /\ ~RunsOn(def.releases[v], b)
    IN n \in DOMAIN view.worlds =>
         /\ GetLatestRelease(view.worlds[n]) # None
         /\ \A v \in DOMAIN view.worlds[n].versions :
              view.worlds[n].versions[v] = "supported" \/ ~constrained(v)
         /\ \A v \in DOMAIN def.versions : constrained(v) \/ v \in DOMAIN view.worlds[n].versions

\* Of an index that the linter accepts, the default manifest of every base resolves without an
\* error, and what an older lobby offers is something, and runs on its base.
LintedIndexResolves(index) ==
  Lint(index) =>
    /\ \A b \in BasesOf(index) :
         LET view == ViewForBase(index, b) IN ResolveWith(FromIndexWithDefaultVersions(view), view).errors = {}
    /\ \A n \in DOMAIN index.worlds :
         index.worlds[n].disabled \/
           /\ OldLobbyOffers(index, n) # {}
           /\ \A v \in OldLobbyOffers(index, n) :
                v \in DOMAIN index.worlds[n].releases => RunsOn(index.worlds[n].releases[v], index.legacy) \/ v = index.legacy

\* Updating a manifest with an index changes no release of a room on that index, and a world is in
\* the room exactly if it is enabled and the index has a release that fits.
UpdateKeepsReleases(manifest, view) ==
  /\ ResolveWith(UpdatedWithIndex(manifest, view), view) = ResolveWith(manifest, view)
  /\ \A n \in DOMAIN ResolveWith(manifest, view).resolved : IsEnabled(manifest, n)

\* Freezing a manifest pins every release that was Latest; a room whose worlds default to the newest
\* release keeps what it resolved to, now and after the index gains a release.
FreezeKeepsReleases(manifest, view, later) ==
  (\A n \in DOMAIN manifest.worlds \cap DOMAIN view.worlds : view.worlds[n].default = Latest) =>
    /\ ResolveWith(Freeze(manifest, view), view).resolved = ResolveWith(manifest, view).resolved
    /\ \A n \in DOMAIN manifest.worlds \cap DOMAIN view.worlds \cap DOMAIN later.worlds :
         /\ manifest.worlds[n] = Latest
         /\ DOMAIN view.worlds[n].versions \subseteq DOMAIN later.worlds[n].versions
         => ResolveWith(Freeze(manifest, view), later).resolved[n] = GetLatestRelease(view.worlds[n])

\* The manifest that a room is generated with gives every world the release its YAMLs were validated on.
GeneratesWhatWasValidated(manifest, view) ==
  ResolveWith(Freeze(manifest, view), view).resolved = ResolveWith(manifest, view).resolved

\* The report of a move: a game with YAMLs that has another release, or none, after the move is in it, among the
\* warnings exactly if nobody asked for what it gets, and every YAML is counted.
ReportTellsTheMove(manifest, current, target, games) ==
  LET report == SwitchReport(manifest, current, target, games)
      before(g) == ResolveFromGameName(manifest, g, current)
      after(g) == ResolveFromGameName(manifest, g, target)
      asked(g) == \/ GetVersionReq(manifest, GetWorldByName(target, g), target).req # "specific"
                  \/ GetVersionReq(manifest, GetWorldByName(target, g), target).v = after(g)
      unlike == {g \in Range(games) : before(g) # after(g)}
  IN /\ DOMAIN report.warnings \cup DOMAIN report.changes = unlike
     /\ DOMAIN report.warnings = {g \in unlike : after(g) = None \/ (before(g) # None /\ ~asked(g))}
     /\ \A g \in DOMAIN report.warnings : report.warnings[g] = Cardinality({i \in DOMAIN games : games[i] = g})
     /\ report.unchanged + Cardinality(unlike) <= Cardinality(Range(games))
=============================================================================
