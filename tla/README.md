# ArchipelagoXL in TLA+

This directory models the parts of ArchipelagoXL that keep state between
requests and share it: between lobby processes, between requests of one process,
between workers and the lobby, between the goroutines of `apx`, and between the
users of the review tool; and the algorithms these parts rest on. Every
definition is translated from the code and `PROJECT.json` names the lines it
stands for. TLC checks small instances; TLAPS proves the properties that matter
most for every value of the constants.

    tlc -workers 2 -config MCQueueOps.cfg MCWorkQueue     # one run
    tlapm WorkQueueProofs.tla                             # one module's proofs

## 1. The system

| part | state | operations | talks to |
|---|---|---|---|
| `wq` job queue (Rust library) | keys of one queue in Valkey: descriptions, a sorted set per partition, claims, results, resolved statuses | enqueue, claim, reclaim, resolve, cancel, wait, reclaim checker, orphaned results | used by the lobby and community-ap-tools; workers reach it over HTTP (`rocket_routes.rs`) |
| `ap-worker` (Python) | the job at hand, its process, its reclaim loop | claim, reclaim every 7 s, resolve | the queue's routes; runs Archipelago in a child process |
| lobby: index manager | per process: a checkout, the loaded index, the announcement it has seen; in Valkey: the announced commit | start, follow, refresh, announce, join | the index repository (git), other lobby processes through Valkey |
| lobby: rooms and YAMLs | rows of `rooms` and `yamls` | upload, edit, delete, retry, edit room, move to another version, refresh, result callback | the queue `yaml_validation`, the index |
| lobby: generation | row of `generations`, output directories, patches of the YAMLs | start, cancel, upload, refresh patches, result callback | the queue `generation`, the room's version and manifest |
| lobby: option definitions | a cache in Valkey | look up or generate, preload | the queue `options_gen`, the bases on offer |
| lobby: room and template forms | rows of `rooms` and `room_templates`, forms open in browsers | open, post, save, delete | the index |
| lobby: sessions | a private cookie, `discord_users`, messages in Valkey | guards, login, logout, bans, redirects with a message | Discord |
| `apx` connections (Go) | per room: connection states, the registry with its indexes by slot, game and tag, the slot passwords | accept, Connect, ConnectUpdate, kick, unregister, password reload | game clients, the Archipelago server, the lobby |
| `apx` bounces | counters, cooldown, isolated slots, excluded tags | bounce, death link, edits of the rules | the registry |
| `apx` hosted rooms | registry of rooms, handler ids, an SQLite store | start, stop, delete, upload, edit, kill when idle, restore after a restart | the lobby, the Archipelago host |
| `apx` progress | checked locations, cached spheres, last activity | poll, answer, kill | the Archipelago host |
| `apx` data packages | packages shared by rooms, with two levels of reference counts | fetch, give back, answer | rooms |
| `apwm` (Rust library) | index, manifest and lock files, a folder of releases | parse, resolve versions, freeze, compute changes, lint, refresh | used by the lobby, apdiff-viewer and its command line |
| `community-ap-tools` | teams, presets, reviews, analysis rows, in-flight keys in Valkey, caches of rooms and trackers | requests on all of them, review rules and triggers, analysis poller and callback, dashboard | the lobby's database, the queue library, `apx` |
| `apdiff-viewer` | blobs on disk, submissions, fuzz results | submit, import, diff | Taskcluster, the index's CI |

What is hard in it, and hard to test:

* The queue has no transactions across round trips. Claims, results and
  descriptions are separate keys, and any number of processes act on them.
* Lobby processes agree on an index only through a Valkey key and a message that
  may be lost; each has one checkout shared by its follower and its refreshes.
* Requests read a room or a YAML, wait for a worker for up to 30 s, and write
  what they computed from the older row. Results come in any order. Forms are
  posted after the index, the row and the clock moved on.
* A generation can be cancelled while its result is being resolved.
* In `apx` every connection and every request is a goroutine; the registry, the
  store and the Archipelago server change one after the other, and `apx` may stop
  between any two of them.
* The review tool checks a role in one statement and writes in another.
* Two resolutions of a manifest, of the validation and of the generation, must
  agree.

`PROJECT.json` lists the 40 places that matter most under `hazards`, each with
the line and the properties that would catch it; section 5 has the races for
which no property is claimed.

## 2. The modules

| module | models | run as |
|---|---|---|
| `WorkQueue` | `wq/src/lib.rs`, `claim.rs`, `builder.rs`, `result.rs` | `MCWorkQueue`: `MCQueueOps.cfg`; `MCQueueLive` |
| `JobBoard` | abstract: what the queue promises to those who wait; the mapping is at the end of `WorkQueue` | `MCQueueOps.cfg` |
| `ClaimWait` | the timing loop of `claim_job_in` | proof only, in `WorkQueueProofs` |
| `WorkerLoop` | `ap-worker/wq.py` | `MCQueueLive` |
| `IndexFollow` | `lobby/src/index_manager.rs`, the refresh route of `views/apworlds.rs` | `MCIndexFollow` |
| `YamlValidation` | `lobby/src/yaml.rs`, `jobs.rs`, `db/yaml.rs`, `db/room.rs`, `views/room/*.rs`, `views/api.rs` | `MCRooms`: `MCRooms.cfg`, `MCYamlStaleContent.cfg` |
| `RoomGeneration` | `views/room/gen.rs`, `db/gen.rs`, the generation callback of `jobs.rs`, `generation.rs`, the move and the edit of a room | `MCLobby`; itself: `MCGenDoneByOther.cfg` |
| `BasesOnOffer` | `BaseConfig` and the queries of `index_manager.rs`, how a page names its base | `MCTools`, `MCLobby` |
| `OptionDefinitions` | the cache, the waiting pages and the callback of `views/options_gen.rs`, `jobs.rs` | `MCLobby` |
| `OptionForms` | the options page as a function: what it takes over, shows and gives back | `MCTools` |
| `RoomForms` | `views/room/edit.rs`, `room_templates.rs`, `room_settings.rs`, `manifest_editor.rs`, their rows | `MCLobby` |
| `Sessions` | `session.rs`, `views/auth.rs`, `error.rs`, `db/user.rs` | `MCLobby` |
| `Lobby` | `RoomGeneration`, `OptionDefinitions`, `RoomForms` and `Sessions` together: what the lobby promises | `MCLobby` |
| `ConnectionRegistry` | `apx/server.go`, `auth.go`, `lobby.go` | `MCConnectionRegistry` |
| `HostedRooms` | `apx/api.go`, `db.go`, `wsrouter.go`, the lobby's `views/room/host.rs` | `MCApxRooms`; itself: `MCAltNames.cfg` |
| `RoomProgress` | refreshes, spheres and the killer of `apx/api.go` | `MCApxRooms` |
| `Bounces` | `apx/bounce.go` and the broadcasts of `server.go` | `MCApxRooms` |
| `DataPackages` | `apx/datapackage.go` | `MCApxRooms` |
| `ApxRooms` | the last four together: what `apx` promises of a room and its inside | `MCApxRooms` |
| `WorldIndex` | `apwm`: views of bases, resolution, freezing, moves, the linter | `MCAlgorithms`, `MCTools` |
| `WorldReleases` | `apwm`: changes, checksums, retries | `MCTools` |
| `ReleaseFolder` | `apwm`: the refresh of a folder of releases against `index.lock` | `MCTools` |
| `Algorithms` | `WorldReleases`, `BasesOnOffer` and `OptionForms` on any input (`IsInput`): what their functions give | `MCAlgorithms`, `MCTools` |
| `ReviewTeams` | teams, presets, rules and reviews of `community-ap-tools` | `MCTools` |
| `ReviewRules`, `ReviewTriggers` | `review/rules.rs`; `triggers.rs`, `builtin.rs`, `api/evaluate.rs` | `MCTools` |
| `YamlAnalysis` | `community-ap-tools/src/jobs.rs` | `MCTools` |
| `Dashboard` | the caches and the requests that go through to `apx` and the lobby | `MCTools` |
| `CommunityTools` | `ReviewTeams`, `YamlAnalysis`, `Dashboard` and `ReleaseFolder` together | `MCTools` |
| `*Proofs` | theorems about the modules they extend (`LobbyProofs`: `Lobby`; `ToolsProofs`: `CommunityTools` and `Algorithms`) | tlapm |

An `MC` module instantiates what it names for TLC. `MCRooms`, `MCApxRooms`,
`MCTools`, `MCLobby` and `MCQueueLive` hold several instances that share no
state: the variable `part` (or `side`) is fixed in the initial state and says
which one a behaviour follows. Modules that interact are composed where it
matters: `HostedRooms` has the lobby's requests and `apx` in one module,
`Dashboard` the review tool, `apx` and the lobby, `RoomGeneration` the queue and
the callback, `WorldReleases` extends `WorldIndex`, `RoomForms` and
`OptionDefinitions` extend `BasesOnOffer`.

### WorkQueue and JobBoard

The keys of a queue are relations (`desc`, `pending`, `partitions`, `claims`,
`results`, `resolved`). A call of an operation occupies a slot in `Calls`;
`call[t]` holds where it is and what it has read. One command, or one pipeline,
is one action; other calls run in between. `claim_job_in` is
`ClaimPop` ... `ClaimHset`, `resolve_job` is `ResolveHget` ... `ResolveCleanup`,
`wait_for_job` is `WaitStatus` ... `DeleteJobResult`, and the reclaim checker is
`CheckerScan` (the HGETALL) and one `CheckerReinsert` per expired claim. Time
enters as `ClaimExpires`, `DeadlinePasses`, `ResolvedExpires`; `CallDies` cuts a
call off anywhere. Channels are modelled by a mark on the calls that subscribed.
`home`, `handled` and `dropped` are history variables. A subscription counts from
its confirmation, which arrives as the first message. The statistics counters are
left out.

The pipelines of the code (`redis::pipe()` without `atomic()`) are no
transactions: the model assumes that Valkey works off a pipeline of these few
commands in a row, as it does with the commands it finds in a client's buffer, and
that the connection does not break in the middle of one. A pipeline that is cut
there (a description without its place in the sorted set, a result without its
resolved status) is not covered.

`JobBoard` is what a caller of the queue may rely on: statuses are posted on a
board, a success only after its owner accepted it, and a client that asks is told
what is on the board, or what was posted while it was waiting. The refinement
maps the board to results and resolved statuses, and a client's answer to what
its call has read or its subscription received.

### WorkerLoop

Workers claim, run a job in a process of its own, reclaim it while it runs and
report. Requests and answers are lost (`MaxLosses`), claims run out while a
reclaim is slow (`MaxSlow`), workers restart (`MaxCrashes`), and a process may
die without a word (`MaxDeaths`): its worker then keeps the claim until the job is
cancelled. A job that the worker cannot run (`Misplaced`) is answered with the
fallback. The queue is its routes' answers; `WorkQueue` has its inside.

### IndexFollow

Each process has a checkout, an object store, a loaded index and the last
announcement it acted on; `announced` is the Valkey key. A process runs a main
task (start, join, follow) and possibly a refresh request. `Push` moves the
branch to any commit, a rewritten history included. The follower may look at any
time, which covers every delay and loss of the message.

### YamlValidation

One room with several YAMLs of one world. A manifest and an index come down to
the release they give that world. A request is a sequence of statements;
consecutive reads of one request are one step, transactions lock the rows they
wrote. The queue is the set of unanswered jobs. `basis` records what a verdict
was found for; it is not a column. `past` is a history of what the properties make
exceptions of: retries, edits and moves of the room, requests or callbacks that
overlapped, failures, an expired job included, and content that could not be parsed
again when it was to be validated (`Unreadable`; `queue_yaml_validation` then marks the
YAML Failed without a job).

### RoomGeneration

The row of `generations`, the jobs it queues and the callback, with the room's
version and manifest. A manifest is its requirement of one world, `None` being
"Latest". Patches are the job whose output they are names in. Any requests overlap
and fail at any statement; a start may also fail because the answer to its enqueue
is lost (`StartUnanswered`). Two histories name what the code gives up: `lost`, the
jobs of starts that failed after queueing them and of rows that a request deleted
after it had cancelled another job, and `overwritten`, the jobs and starts whose
manifest an edit or an older start's freeze replaced (`Watch`).

### OptionDefinitions, RoomForms, Sessions

`OptionDefinitions`: a request looks into the cache, queues a job, waits and reads
the cache again; entries expire, processes that run the callback differ from the
one that waits, workers die, and a success may come without a result, which the
callback reports all the same (`jobs.rs:210`). `RoomForms`: a form remembers the page it was made
as; posting reads the row, chooses the base, reads the index and writes, and other
requests and new indexes come in between. A picked release that is gone when the form
is posted is saved as it is, because `resolve_world_version` falls back to the newest
(`Found`). Dates are in half minutes since a form
has whole minutes and a stored date may not. `Sessions`: a request carries the
cookie as it was when it was sent and sets it when its answer arrives; the lobby
restarts with another configuration while cookies stay. The operator's token may come
with any request, a login included. Valkey may fail wherever messages are read, pushed
or deleted.

### ConnectionRegistry

One room with per-slot passwords. A connection reads a packet, handles its
messages in turn and reads again; the registry's methods hold its mutex and are
one step each. Checking a password, the answer of the Archipelago server and
registering are three steps. A tag's list holds a client as often as its own
list of tags names the tag, as the Go slices do. A reload reads, writes and
kicks in three steps per slot, and any number of reloads run at once (`crossed`: the
slots where one compared with a password that another replaced since). A cancelled context closes the socket at some
later time. Whether a full-feed client is refused is any choice; rate limits,
alternative names, chat commands, logging and metrics are left out.

### HostedRooms and what runs in a room

A hosted room is in the registry, under two handler ids, in the tables of the
store and on the Archipelago server, and every handler changes these one at a
time. Starting and uploading are two requests of the lobby that are chosen by what
the state request answered, a timeout counting as "no such room". `Crash` and
`Boot` are a restart, which loads the enabled rooms of the store. `calm` and
`failed` are histories: the rooms to which nothing irregular happened (a failed
write, a restart in the middle, two requests that overlapped), and those whose
last start failed; less is claimed of the others. A deletion is one step per table,
and each statement of a start, a restoration or a deletion may fail on its own.
`RoomProgress`, `Bounces` and `DataPackages` are a hosted room's inside, with one
step per lock that is taken.

### The algorithms

`MCAlgorithms` has an input in `inp`; every step picks one of a part's inputs and
the properties say what the code makes of it, against a definition made from what
the algorithm is for: checks and predicates against everything the generator may
roll from a YAML, triggers against a fixpoint, games that are reviewed against the
games with a weight, views and resolution against the releases a base can run,
freezing and updating against resolution before and after, changes against the
releases of two indexes on every base, the options page against the values an
option may be rolled to. What the standard library says of a string (its number, its
parts) is a table over the strings that occur; in `OptionForms` the tables are the
constants `Numerals` and `Randoms`. `Algorithms` says what an input is (`IsInput`):
what the code reads files, rows, settings and forms as. The inputs of the run are
such ones, which TLC evaluates as `FilesAreRead`, `BasesAreRead` and `OptionsAreRead`.

In `OptionForms` what a text is as JSON is the constant `Jsons`, with null, floats,
quoted texts, arrays and objects in the run; in `ReviewTriggers` a key is written as its
text and read back as what that text is, and a YAML with a key that cannot be read back
stays as it was.

`ReleaseFolder` is a state machine: lobby processes that refresh one folder, each
against the `index.lock` of the commit it has checked out, and `apwm update` in the
maintainers' checkout, while servers change files. A download writes a temporary file
that is half until it is through, then takes the place of the old one; a process may
die at any step, in the write of `index.lock` too, which then is cut or does not parse
(`torn`).

`Dashboard`: each change goes to the lobby or to `apx` and then on to the others; the
answer to each may be lost after the write, and the request then ends where it is
(`LobbyAnswerLost`, `AnswerLost`). `YamlAnalysis`: the answer to an enqueue may be lost
after the job was queued; the key is released all the same (`freed` counts these and the
forced analyses that gave up the key of a job).

## 3. What the runs check

| run | properties | instance |
|---|---|---|
| `queue_ops` | `JobKeepsItsPlace`, `NoJobLost`, `NobodySleeps`, `ImplementsBoard` (refinement) | one job, one worker, two calls, one checker, the default partition and one more, every operation, calls cut off |
| `queue_live` | `StaleClaimGoes`, `CallsReturn`; `WorkersServe`: `EveryJobAnswered`, `FreedWhenLost`, `AnswerStands` | one job, two calls, one checker; two workers, two jobs, two lost requests, a slow reclaim, a restart and a dead process |
| `index_follow` | `SeenIsLoaded`, `IndexIsOfItsCommit`, `Converges` | two processes, one of them serves a refresh; three commits, one of them a rewritten history; one restart, failures |
| `rooms` | `NoneForgotten` | one request at a time that uploads, edits or moves the room, two versions with a worker each, callbacks that overlap, two YAMLs, three time stamps |
| | `VerdictOnRoomRelease` | two refreshes of the index, each with a new release, uploads, retries and deletions, four time stamps |
| | `DeletedStaysDeleted` | two requests at a time that edit and delete a YAML and edit the room, and fail anywhere; jobs that expire, content that cannot be parsed again |
| `apx_clients` | `IndexesAgree`, `EndedIsForgotten`, `KickedOnChange`, `KickedEnds` | two clients with three messages in all, one slot and the pseudo-slot 0, lists of tags that repeat a tag, two passwords; either two clients and one reload, or one client and two reloads at a time |
| `apx_rooms` | `IdsLeadToTheRoom`; `StoreTellsRooms`: `TypeOK`, `RestartRestores`, `EnabledIsHosted`, `DeletedIsGone` | one lobby room, four handler ids, two requests at a time and the killer, three operations, one restart |
| | `ProgressIsTrue`: `TypeOK`, `CacheIsFresh`, `CompleteIsComplete`, `KilledWasIdle`, `CatchesUp` | one slot with two locations in sphere 1, the poller and the killer, one request at a time, one failed fetch |
| | `BouncesAsRuled`: `StaysInside`, `ReachesMatches`, `DeathsApart` | three clients in two slots, two messages, one change of the rules |
| | `PackagesServed`: `CountsAreExact`, `AnswersWhatIsAsked` | three rooms whose games share checksums, requests for up to three games |
| `tools` | `EntitledOnly`: `TypeOK`, `RowsBelong`, `AuthorsWereEntitled`, `ListedIsViewable`, `GrantedBySuper` | three users, two teams, two presets, one room, three operations from an empty and from a filled database |
| | `OneJobAtATime`, `AnalysedInTheEnd` | one YAML, two pollers, three jobs, two failures, one forced analysis |
| | `DashboardIsTrue`: `ShowsWhatIs`, `AnswersAreRecent`, `PasswordsAgree` | two readers, two writers, two changes, one of which may be an error instead |
| | `RulesAreRight`, `ReviewIsComplete` | every check on scalars, lists, weighted choices and switches; three predicates; two triggers; three players' plando |
| | `ReleasesResolve`, `ChangesExact` | two bases, two worlds, up to four releases with limits, origins and overrides; every manifest over them; six answers of a server |
| | `LocksAreTrue`: `TypeOK`, `LockSaysWhatIsOnDisk`, `LocksAreKept` | two releases, two contents, two processes with three commits to be at; apart from them `apwm update` |
| | `FormsRoundTrip` | one option of each kind with a value of each kind, texts that are JSON among them, two controls of a page |
| `lobby` | `RowKeepsItsJob`, `NoOrphanJob`, `ManifestOfGeneration` | any two requests at a time, failing anywhere, two jobs, two versions: those about the job with generators and callbacks, those about the manifest and the version with jobs that wait |
| | `OptionsOfTheBase`: `DefinitionsOfTheBase`, `StoredBeforeReported`, `LinksStayOnBase`; `RequestsEnd` | one request with two jobs, two releases, three indexes, one refresh |
| | `FormsHold`: `SavesAreThePicks`, `VersionAsNamed`, `OnlyOwnersChange`, `CloseDatesHeld`, `SelectorShowsVersion`, `ListsAreOpen` | two users, a template or a room, two indexes with different bases, two forms |
| | `SessionsHold`: `BannedActNowhere`, `AdminsOnly`, `ErrorsReach`, `CreationRight` | two tabs, three requests with or without the operator's token, one of which may be a restart with another configuration instead |
| `yaml_stale_content` | `VerdictOnContent` (violated) | a retry and an edit |
| `gen_done_by_other` | `DoneHasOutput` (violated) | a generation started, cancelled and started again |
| `generated_as_validated` | `GeneratedAsValidated` (violated) | the indexes and manifests of `tools` |
| `alt_names_reset` | `AltNamesReset` (violated) | one room that is given an alternative name, one restart |

Why the bounds are enough to be interesting: each race that is looked for needs
two actors on one object, so there are two calls, two requests, two processes or
two connections, and one job, YAML, room or slot they share; a second job, YAML
or version is there where the property compares two. Counters that only bound
the run (every constant called `Max...`) are large enough for every mutant to be
caught and every action to be taken. `MaxFails` of `apx_clients` is 10 in the code
and 0 in the run, so that one packet holds both the last refusal and the message
after it. `Throttle` is the two-second cooldown in the run's clock; `TTL` and
`Deadline` of the analysis keep the order they have in the code. Where a property
is claimed only for requests made one after the other, or of rooms to which
nothing irregular happened, the definition or the instance says so, and section 5
says what the others meet.

Every property of a passing run has a mutant in `PROJECT.json`: a plausible bug
in a mapped definition under which TLC finds the property violated. A property
with a colon is the conjunction of the ones behind it, each of which is defined
and explained in the component's module; it has one mutant. The properties of the
algorithms are conjunctions over the kinds of input, spelled out in `Algorithms` and
`MCAlgorithms`.

Deadlock is checked for the queue and the index. The other systems may stop:
their requests, messages and time stamps are bounded.

### Fairness

* Queue: a lobby that stays up lets a call go on to its next round trip (weak), a
  call's timer fires even though messages may keep coming first (strong;
  `ClaimWithinTimeout` bounds how long they can), the checker wakes up every half
  `reclaim_timeout` (weak) and gets to reinsert a claim it lists again and again
  (strong).
* Workers: the loop goes on and the process of a job ends unless it died (weak); a
  claim that nobody refreshes expires (weak).
* Index: tasks run (weak); a load and an announcement of the follower get
  through in the end (strong), because it retries every `FOLLOW_INTERVAL`.
  Nothing is assumed of a refresh that failed: nobody repeats it.
* apx: a goroutine that has something to do runs, and `coder/websocket` closes a
  connection whose context was cancelled during a read (weak). The poller's timer
  fires and a refresh that has begun goes on (weak). No fairness for clients or
  for the Archipelago server beyond its dial timeout.
* Analysis: pollers have timers, workers and the clock do not stop (weak).
* Option pages: a request goes on to its next step, its wait ends (weak). Nothing
  is assumed of workers.

### Disagreements with the documentation

1. `yaml_stale_content`: the result of a validation queued before an edit
   overwrites the verdict on the edited YAML (`lobby/src/db/yaml.rs:363`).
2. `gen_done_by_other`: the result of a cancelled job marks the generation that
   was started after it as done (`lobby/src/jobs.rs:364`).
3. `generated_as_validated`: freezing a manifest pins "Latest" to the newest
   release, resolving it follows the world's default version
   (`apwm/src/manifest.rs:285` and 214), so a room may be generated with a release
   that no YAML was validated on.
4. `alt_names_reset`: the comment at `apx/api.go:278` says that alternative names reset on
   restart; they are stored, and `restoreAltConnectNames` (641) brings them back.
   `RestartRestores` states what the code does.

## 4. What is proved

For every value of the constants (any jobs, workers, calls, checkers,
processes, commits, requests, connections, slots, tags, bounds), from the named
`ASSUME`s of the modules only, which TLC evaluates on every run:

| theorem | states |
|---|---|
| `QueueTypeCorrect`, `QueueLosesNoJob`, `QueueKeepsPlaces`, `QueueWakesSleepers`, `QueueHandlesSuccess` | `TypeOK`, `NoJobLost`, `JobKeepsItsPlace`, `NobodySleeps`, `SuccessIsHandled` |
| `QueueImplementsBoard` | the refinement `ImplementsBoard`: `WorkQueue` implements `JobBoard` |
| `ClaimWithinTimeout` | no call of `claim_job_in` outlasts `claim_timeout` |
| `IndexTypeCorrect`, `LoadedIndexIsOfItsCommit`, `FollowerRestsOnItsCommit` | `TypeOK`, `IndexIsOfItsCommit`, `SeenIsLoaded` |
| `GenerationTypeCorrect`, `GenerationKeepsItsJob` | `TypeOK`, and the action property `RowKeepsItsJob` |
| `NoJobIsOrphaned`, `ManifestIsThatOfTheGeneration` | `NoOrphanJob` and `ManifestOfGeneration`, for any requests that overlap and fail, with the exceptions the properties name |
| `RegistryTypeCorrect`, `RegistryIndexesAgree`, `EndedClientsAreForgotten`, `RefusedClientsStayOut` | `TypeOK`, `IndexesAgree`, `EndedIsForgotten`, `LockedOut` |
| `PasswordChangeKicks` | `KickedOnChange`, for any number of reloads at a time, with the exceptions the property names |
| `ValidationTypeCorrect`, `DeletedYamlsStay` | `TypeOK`, and the action property `DeletedStaysDeleted`, under every overlap and failure |
| `NoYamlIsForgotten`, `VerdictsOnRoomRelease` | `NoneForgotten`, `VerdictOnRoomRelease`, with the exceptions the properties name |
| `HostedIdsLead`, `StoreTellsHosted` | `IdsLeadToTheRoom`, `StoreTellsRooms`, for any requests, failures and restarts that overlap |
| `BouncesAreDelivered` | `BouncesAsRuled`, for a throttle that is a natural number |
| `PackagesAreServed` | `PackagesServed`, for finitely many rooms and games (`PackageConstants`) |
| `ProgressStaysTrue` | `ProgressIsTrue`, for finitely many locations |
| `AnalysedOneAtATime` | `OneJobAtATime`, where a key lives longer than a job may wait (`AnalysisConstants`) |
| `DashboardStaysTrue` | `DashboardIsTrue`, for any moderators, readers and passwords |
| `SessionsAreKept` | `SessionsHold`, for any users, tabs, requests and configurations (`SessionAssumption`) |
| `OptionsAreOfTheBase` | `OptionsOfTheBase`, for any requests, jobs and indexes (`OptionAssumption`) |
| `FormsSaveThePicks` | `FormsHold`, for any users, rooms, indexes and forms (`FormAssumption`) |
| `LocksStayTrue` | `LocksAreTrue`, for any releases, contents, commits and processes |
| `ReleasesAlwaysResolve` | `ReleasesResolve`, for every input: any index, manifest, games and configuration that can be read |
| `ChangesStayExact` | `ChangesExact`, for every two indexes that can be read and any answers of the servers |
| `OptionsRoundTrip` | `FormsRoundTrip`, for any definitions, YAMLs with options for their game, and values of the controls |
| `TeamsAreEntitled` | `EntitledOnly`, for any users, teams, rooms and presets; roles are the numbers the code gives them (`TeamConstants`) |

The arguments:

* Queue. None of the five is inductive alone. `QueueInv` adds what a call knows at
  each of its stages: a call that holds a popped job has the place it was
  enqueued with; a call that is past its HDEL of a claim still holds the job; a
  subscriber that has not looked again carries a mark if anything was published
  since; a description names the partition its job is kept in. `NoJobLost` then
  follows because each step that takes a job out of one key puts it into another
  or into the hands of a call.
* Refinement. The board's steps are few, so most steps of the queue are shown to be
  one of two kinds: the call of one slot leaves `wait_for_job` or stays outside of
  it (`Leaves`), which is a client that leaves, or no client's call changes
  (`NoClient`), which at most takes statuses down. The reads of `wait_for_job`, the
  callback and the publishing of a result are the others. Besides `QueueInv` it
  needs that a call has received nothing before it subscribed (`NothingReceived`).
* Index. The invariant ties `load_lock` to the one task of a process that is
  between fetch and swap, so that the checkout it reads is the one it reset.
  `SeenInv` follows the follower of a process without refreshes through its
  stages: what it will mark as seen is what it has loaded.
* Generation. `OwnerInv` adds to `NoOrphanJob` that a request which is about to
  delete the row has cancelled its job, so that the row it deletes has another live
  job only if that job is in `lost`. `ManifestInv` says of every start between its
  freeze and its insertion, and of every job, that the room still has its manifest or
  it is in `overwritten`; and that a start which read the room after a freeze read a
  frozen manifest, which freezing again leaves as it is (`ReadIsFresh`).
* apx. `RegistryInv` has the agreement of the indexes, that a goroutine's record
  and the registry name the same slot (`EntryInv`), and what a goroutine may hold
  at each of its stages (`LocalInv`). `PasswordInv` says of every client past its
  check that its password is still the stored one, or its kick is to come, or it
  is in `late`, or its slot is in `crossed`. A reload that is about to set a password
  compared with the one that is stored, or its slot is crossed; that is all the argument
  needs of how many reloads there are.

* YAML validation. `HeldInv` (what an open transaction has written is there) and
  `UploadInv` (an upload's YAML is nobody else's) keep a deleted YAML deleted. For
  `NoneForgotten`, `KnownInv` says of every row without a status, as it will be when
  the open transaction commits, that an answer the callback will take is on its way
  (`Answer`), a request will have it validated (`Will`), or the room validates nothing
  and the row has no release (`Cleared`). The last needs `OffInv`, which a retry in a
  room that validates nothing breaks: hence the exception. Requests that do not overlap
  are argued about one at a time: with one request under way `KnownInv` is `SoloInv`
  (`SoloFacts`), and there is a lemma for each of its steps. For `VerdictOnRoomRelease`,
  `FreshInv` says that a row is `Fine` or a request is about to have it validated:
  `Fine` rows have the room's release or a live job for it that the callback's time
  check will let pass, and every live job for another release is older than the row or
  older than such a job. A refresh makes every row outdated at once because a new
  release is none that was seen before (`NewRelease`); a stale result may be written
  only if a current one follows (`FineWritten`); a result that is dropped held nothing
  up (`FineDropped`). Both need that one callback runs at a time, since the row's
  time is read in one statement and the row written in another (`ChecksInv`).
* Hosted rooms. `IdsInv` ties ids, registry and the objects that requests are still
  building; `Apart` and `HostedAsDue` say of calm rooms that no two requests are in each
  other's way. `StoreInv` compares what the store has of a calm room with what memory
  has, step by step of the one request that changes both, but for edits that are between
  their two steps (`Agree`).
* Inside a room. Bounces: the rules in force are between the ones that were all the while
  and the ones that were at some moment (`Between`); each stage fixes whom the message has
  reached (`OnItsWay`). Packages: a game is added to a room once (`AddedOnce`), so that
  references are cardinalities. Progress: the server's locations only grow, so what is
  known and what was fetched are comparable (`Chained`), and equal numbers mean equal
  locations; `Timed` relates the time of the last activity to each fetch.
* Review tool. Analysis: who holds a YAML's key, a job that may run or a request about to
  queue one, is at most one and one more for each key given up (`Counted`), because a key
  is as old as the oldest such holder's claim to it (`NoneYounger`, `NewKeys`). Dashboard: while nothing changes,
  what is said of the switches is so wherever it has got to (`SaidIsTrue`). Teams: `held`
  is at least the role a user has now (`HeldOK`), and what a request was checked for it
  has held (`Checked`).
* Sessions. `TabOK` says of every request on its way what it was served for: the cookie it
  came with or a new session that its answer will set (`FromCookie`), never a banned user's,
  and an admin's only if the database had him as one (`Honest`). `ErrorsReach` needs a chain:
  while requests do not overlap, a message that is owed waits under the session the browser
  has, or under the one that the only answer on its way sets (`MessagesLead`).
* Option definitions. `OptionsInv`: what is cached under a key is of that key's base and
  release, a job is for the base whose workers take it (`JobOK`), and a page that waits for a
  job waits for one of its own base and release, after whose success the cache has it unless
  the entry was lost (`PageOK`).
* Forms. `FormsInv` relates an open form to the row it is for (`FormOK`), and a request between
  reading and writing to its form, its user and the clock (`PostOK`); `RowsMove` is what other
  requests may do to both meanwhile: rows are never made again, and keep their authors.
* Folder of releases. `OnDisk`: what a refresh is through with is on disk with the checksum it
  expects, or a rival has put another file there; `TakenOver`: the lock a running update will
  write has what `index.lock` has for what is still listed.
* Algorithms. The theorems have the form `IsInput => ...` and hold in every state. An order
  that is a `CHOOSE` exists because the least of a smallest set without one could be put last
  (`OrderExists`); the changes between two indexes are a recursive function over the bases in
  order, and the first place where it told something wrong would be one more base merged into
  changes that were right (`ChangesTellAll`, by least counterexample: the library's induction
  rules cannot be used); freezing and updating are compared with resolution requirement by
  requirement. The options page: validation of any value says the same as `MayBe` of all it can
  be rolled to (`RollsJudged`), weights that leave one choice roll to the same
  (`CoalescedRolls`), what is posted is the value or a number or flag its text reads as
  (`PostedValue`), and a control shows what it can hold (`HeldIsShown`).

Assumptions of these: `SessionAssumption`, `OptionAssumption` and `FormAssumption` give the
types of what operators configure, indexes describe and rows hold, and say that `None`,
`Gone` and `Blank` are none of these values; `NoneIsNoVersion` and `TextAssumption` say so for
releases and texts, and how the texts that read as numbers, as flags, as random draws and as
JSON (`Numerals`, `Randoms`, `Jsons`) relate.

The type invariants and `SuccessIsHandled`, `LockedOut` are proved for every instance and
not repeated in the runs.

Only model-checked: liveness (`StaleClaimGoes`, `CallsReturn`, `EveryJobAnswered`,
`FreedWhenLost`, `Converges`, `KickedEnds`, `CatchesUp`, `AnalysedInTheEnd`,
`RequestsEnd`), which needs fairness and `ENABLED`; and the review rules and triggers
(`RulesAreRight`, `ReviewIsComplete`), which are recursive operators on nested values:
modules that reach a `RECURSIVE` operator have no theorems.

## 5. Known races

Interleavings met while modelling for which no property is claimed. Each is in
the model unless it says otherwise.

* `wq/src/lib.rs:453`: a cancel between the HGET and the HSET of a reclaim is undone, so
  the worker never gets the error the comment at 888 promises.
* `wq/src/lib.rs:349`: the checker reinserts from a snapshot, so a job resolved or
  cancelled since is queued again; the comment at 460 expects a resolved job to
  stay away.
* `wq/src/lib.rs:807`: the time since the start of the call is subtracted again at
  every message, so a worker woken for nothing gives up before `claim_timeout`
  (749).
* `lobby/src/index_manager.rs:305`: `announce` marks as seen the commit it read,
  while the follower of the same process may have loaded another: that process
  then stays on the wrong index until the next announcement. `Converges` and
  `SeenIsLoaded` are therefore stated for processes that serve no refresh.
* `lobby/src/index_manager.rs:360`: a process that joins may replace a newer
  announcement with the older commit it compared before.
* `lobby/src/jobs.rs:292`: a result compared with the room's version before a move
  (`views/room/edit.rs:338`) is written after it. The row's time is compared at 281 and
  the row written later: of two callbacks for one YAML that overlap, the one with the
  older result may write last, and a result past the comparison replaces the
  "Unsupported" that a refresh without the release wrote meanwhile.
* `lobby/src/yaml.rs:539`: an index that goes back to an earlier release while a job for
  the one between is pending queues nothing, and the answer for the other one stays.
* `lobby/src/views/room/main.rs:319`: an upload that overlaps a move is stored with
  the verdict of the version the room left; `README.md:272` describes a move as
  revalidating all YAMLs.
* `lobby/src/views/room/edit.rs:436`: saving the settings writes the row read at 432
  and puts a room that moved meanwhile back.
* `lobby/src/yaml.rs:638`: a retry that overlaps a move queues a job for the version
  the room left; its result is dropped and the YAML stays Unknown.
* `lobby/src/yaml.rs:539`: pinning a world to another release and back while the
  first validation is pending queues nothing the second time, and the answer for
  the other release stays.
* `lobby/src/views/room/edit.rs:297`: a move that overlaps a start leaves a
  generation made for the version the room left.
* `lobby/src/views/room/gen.rs:517`: two starts both find no generation and queue two
  jobs; the second has no row to cancel it by. So has the job of a start that fails, or
  whose answer from the queue is lost, after it was queued; and a cancel (224) deletes the
  row of a generation that was started after it had cancelled another (`lost`).
* `lobby/src/views/room/gen.rs:481`: a start that read the room before another one froze its
  manifest, or before an edit, saves the manifest it read, frozen; an edit replaces the manifest of
  a generation under way (`overwritten`).
* `lobby/src/jobs.rs:407`: patches are written from a row read before a cancel.
* `apx/auth.go:109`: a client being let in while its slot is kicked keeps the old
  password (`late` in the model); `README.md:146` and `ROOM_GUIDE.md:124` say
  that changing a password disconnects the slot.
* `apx/lobby.go:48`: two reloads that overlap may leave a client on a password that
  is no longer stored: the second compares with what it read before the first wrote
  (`crossed`; `KickedOnChange` has the exception).
* `apx/server.go:286`: a kicked client whose goroutine still handles a ConnectUpdate
  is put back into the tag index and never removed (`EndedIsForgotten` has the
  exception).
* `lobby/src/views/room/gen.rs:517`: a worker may answer before the row of its
  generation was inserted; the generation then stays Pending until it is cancelled.
* `lobby/src/yaml.rs:214`: two uploads check the player names of a room before either
  is inserted (names are not in the model).
* `wq/src/lib.rs:904`: a result stored after its job was cancelled is never deleted; it
  costs memory only.
* `wq/src/lib.rs:792`: a validation that expires in the queue leaves its YAML Unknown, as
  does a retry or a move whose enqueue fails; the page offers a retry.
* `lobby/src/lib.rs:325`: the queues take the legacy version of the index as their
  default partition once, at the start of the process (not in the model).
* `ap-worker/wq.py:155`: claims are refreshed every 7 s against a timeout of 10 s; a slow
  call lets a second worker have the job.
* `ap-worker/wq.py:280`: a resolve that failed on the network is repeated as
  `InternalError`; the queue refuses it if the first one got through (`AnswerStands`).
* `ap-worker/wq.py:163`: a worker whose job process died silently holds its job until it is
  cancelled.
* `community-ap-tools/src/jobs.rs:235`, 363: an enqueue whose answer is lost after the queue
  has the job (`wq/src/lib.rs:874`) releases the key, and the next poll queues a second one
  (`OneJobAtATime` counts it).
* `community-ap-tools/src/main.rs:914`, 952, 1009: when the lobby's answer is lost or is an error
  after it wrote, `apx` is not told to reload and the tracker's cache is not dropped: clients
  go on with the old password until the next change (`PasswordsAgree` has the exception).
* `community-ap-tools/src/jobs.rs:105`: a success without a result keeps the in-flight key
  for an hour; a forced analysis's older job may overwrite the newer result (183); an
  analysis that takes longer than the key's time to live is queued again.
* `apx/server.go:281`: the gauge of connected slots is set outside the lock (not in
  the model).
* `apx/api.go:828`: two starts of one room that overlap: the one that loses leaves its
  pollers, ids and data packages behind, and its ids still serve clients
  (`IdsLeadToTheRoom` has the exception).
* `lobby/src/views/room/host.rs:130`: a state request that times out makes the lobby upload
  a generation over the row of a room that exists.
* `apx/api.go:1669`: a request that overlaps a refresh may leave an old answer in the
  cache as clean until the slot's next change.
* `lobby/src/yaml.rs:575`: an edited YAML that was taken but cannot be parsed as it was stored is
  marked Failed when it is validated again, whatever release the room has.
* `lobby/src/jobs.rs:210`: a success of the options worker without a result is reported as a
  success although nothing was stored; the page then has no definitions.
* `lobby/src/index_manager.rs:273`: processes that share the folder of releases and are at commits
  with different checksums, or with none, for a release replace each other's file, although each
  has checked its own (`rival`).
* `apwm/src/index/lock.rs:39`: an update that is killed while it writes `index.lock` leaves a part
  of it: checksums are forgotten, and the next update locks what the servers have then.
* `lobby/src/views/manifest_editor.rs:98`: a form whose picked release is gone is saved; the room
  gets the newest release instead, without a message.
* `apwm/src/index/mod.rs:314`: a file that does not match its lock stays on disk when its
  download fails. `RefreshGetsEveryRelease` has an exception: a release with the number
  of a base that ships the world is taken for the shipped one.
* `apwm/src/manifest.rs`: a pin that is not available falls back to the newest release,
  while "Latest" with a default that is not available is an error; `get_version_req`
  looks a file name up as the name of a game.
* `community-ap-tools/src/review/triggers.rs:221`: after a trigger has fired, mappings
  inside lists are null, so that `NoCrossPlando` (`builtin.rs:56`) misses what they say; keys that
  are no strings, such as the numbers of a weighted range, are written as nothing (277), and one
  key that cannot be read back undoes every trigger of the YAML (266).
* `community-ap-tools/src/review/rules.rs`: mappings with keys that are not strings are only
  seen by checks; `not_equals` with a text is false of a random range; contains and not
  contains both alert on a bare `random`.
* `community-ap-tools/src/review/api/review.rs:485`: the owner of a room may be cached again
  after it changed.
* `lobby/src/views/options_gen.rs`: texts and weights of ranges are not checked against
  their bounds; a text of one's own for a text choice, which the page offers, is marked invalid
  when the YAML is edited (`validate_single_value`, 718), as is the name of a named range that
  reads as a number outside it; the keys of counters and dictionaries are not judged; a number in a
  named range whose default is a name shows the default when edited; names of choices
  that are JSON (numbers, flags, null, quoted texts) are posted as that;
  a `random` that was taken over is not shown by a choice, a number or a flag, whose control has
  its first option, its default or off instead (`options.html:198`); preloading skips cache entries it
  cannot read; the legacy base of the cache is fixed at the start.
* `lobby/src/views/room/edit.rs:157`: a form for a new room without `?base` creates the room
  on the default base of the time it is posted, which may not be the one it showed; a
  world that was not on the form is saved as disabled.
* `lobby/src/views/room/edit.rs:432`: two saves that overlap may write an old closing time
  back beyond the limit, and the version the first one read; an admin who does not own a
  template gets a read-only form for it although posting is allowed.
* `lobby/src/error.rs`: `create_room` and `create_room_submit` refuse before a target for the
  redirect is set, and answering such an error unwraps an empty cell; a session of an
  operator's token without a user does the same in `user_id()`.
* `lobby/src/session.rs:110`: `/login` with the operator's token saves that session
  (`views/auth.rs:29`): the browser has an admin's cookie without a user until it has logged in
  (`AdminsOnly` has the exception).
* `lobby/src/session.rs`: overlapping requests of a new browser each make a session, and a
  message may wait under the one that is not kept; a login's late answer undoes a logout;
  reading messages and deleting them is not atomic; the admin flag of a cookie is as old
  as its login; `can_create_room` (`lib.rs:120`) does not look at the users the database
  allows.

## 6. Not modelled

`PROJECT.json` lists every component with its status. Left out:

* YAML parsing and player names (`yaml.rs:213`): operations on strings, character by
  character; any verdict on them is possible in `YamlValidation`.
* The feature extractor and its tables: a pure function of a YAML whose content is
  game-specific data.
* What the job handlers of `ap-worker` compute: they run Archipelago; any answer is possible.
* Pages, templates, logging, metrics, statistics, OAuth's own protocol, database
  pools: their state lives in other services, or no property tells their data apart.
* `apdiff-viewer`: content-addressed files written before the rows that name them,
  nothing of which is deleted, and text diffs on top of a library.
* `apwm install`, the linter's warnings about layout, cloning of repositories.
* Data packages of the review tool's pages, the stress tester, scripts and CI.

## 7. Plan

Done: the queue, its refinement of the job board, the workers, the index manager,
YAML validation, generation, forms, sessions, option definitions, the clients and
the rooms of `apx`, the index and its releases, the options page and the review tool;
proofs of every safety property of the runs but those of the review rules and triggers.
Next:

1. `ReviewRules` and `ReviewTriggers` with recursive functions over values of a bounded
   depth in place of recursive operators, which would let their laws be proved.
2. `JobBoard` in place of the set of jobs in `YamlValidation`, `RoomGeneration`,
   `OptionDefinitions` and `YamlAnalysis`.
3. Player names (`yaml.rs:213`) over a table of names, and the limits per user.
4. Larger instances: two jobs in `queue_ops`, two rooms in `apx_rooms`.
