---------------------------- MODULE YamlValidation ----------------------------
(***************************************************************************)
(* How the YAMLs of one lobby room get and keep their validation status    *)
(* (lobby/src/yaml.rs, jobs.rs, db/yaml.rs, db/room.rs and the views that  *)
(* call them).  A YAML is validated with the release of its world that the *)
(* room's manifest gives in the index, by a worker of the room's           *)
(* Archipelago version.  Uploads and edits of a YAML wait for the worker;  *)
(* retries, room edits, index refreshes and moves to another version queue *)
(* a job, whose result the validation callback writes to the row.          *)
(*                                                                         *)
(* A request (a handler) is a sequence of database and queue statements;   *)
(* requests and callbacks interleave between them.  Consecutive reads of   *)
(* one request are one step.  Every YAML is of the same world, so a        *)
(* manifest and an index come down to the release they give it.  Whether a *)
(* YAML is valid is the worker's choice each time.  The queue is modelled  *)
(* in WorkQueue; here it is the set of the jobs nobody answered yet, each  *)
(* answered at most once, in any order.                                    *)
(***************************************************************************)
EXTENDS Naturals

CONSTANTS
  Yamls,          \* the YAMLs the room may have, numbered as get_yamls_for_room orders them
  FirstYamls,     \* the ones it starts with
  Versions,       \* Archipelago versions
  FirstVersion,   \* the one the room starts on
  Manifests,      \* manifests the owner may choose
  FirstManifest,
  Indexes,        \* the index, before and after each refresh
  Release,        \* Release[i][v][m]: the release of the YAMLs' world, None if there is none
  Releases,
  Handlers,       \* requests that may run at the same time
  Workers,        \* validation workers
  WorkerVersion,  \* WorkerVersion[w]: the version worker w runs
  Kinds,          \* the requests that are made
  DeadlinesPass,  \* whether a job may stay pending beyond its deadline
  Unreadable,     \* the edits parse_raw_yamls takes, but read_yaml does not as they are stored
  Failures,       \* whether a request may fail or be dropped half-way
  MaxTime,        \* bound: how many time stamps are taken
  MaxContent,     \* bound: how many times a YAML is edited
  None,           \* Rust's None, and a YAML that is not uploaded yet
  Deleted         \* a YAML that was

Statuses == {"Unknown", "Validated", "Failed", "Unsupported"}
AllKinds == {"upload", "edit", "delete", "retry", "editRoom", "refresh", "switch"}

VARIABLES
  room,     \* the room's row: its version, manifest and yaml_validation
  index,    \* the index that is loaded
  yamls,    \* yamls[y]: the row, None before the upload, Deleted after
  queue,    \* the validation jobs that wait for a worker
  worker,   \* worker[w]: the result callback of the job w reports on
  handler,  \* handler[h]: the request, where it is and what it has read
  clock,    \* the last time stamp taken
  past      \* history: what has happened of that which the properties make exceptions of

ASSUME ConstantsAssumption ==
  /\ FirstYamls \subseteq Yamls /\ Yamls \subseteq Nat
  /\ FirstVersion \in Versions /\ FirstManifest \in Manifests
  /\ 0 \in Indexes /\ Indexes \subseteq Nat
  /\ Release \in [Indexes -> [Versions -> [Manifests -> Releases \cup {None}]]]
  /\ Kinds \subseteq AllKinds
  /\ MaxTime \in Nat /\ MaxContent \in Nat
  /\ Unreadable \subseteq 1..MaxContent

validationVars == <<room, index, yamls, queue, worker, handler, clock, past>>

Rooms == [version : Versions, manifest : Manifests, validation : BOOLEAN]

\* What a status was found for; no part of the row, kept to state the properties.
Bases == [content : 0..MaxContent, version : Versions, apworlds : Releases \cup {None}]

\* last_validation_time is `time'; an empty list of apworlds is None.
Rows == [content : 0..MaxContent, status : Statuses, apworlds : Releases \cup {None},
         time : 0..MaxTime, basis : Bases \cup {None}]

ASSUME NoneAssumption ==
  /\ None # Deleted
  /\ {None, Deleted} \cap Rows = {}
  /\ None \notin Releases /\ None \notin Yamls /\ None \notin Rooms

\* JobDesc<YamlValidationParams>, with `time' for submitted_at; it identifies the job.
JobRecords == [yaml : Yamls, content : 0..MaxContent, version : Versions, apworlds : Releases,
               time : 0..MaxTime]

\* `rows' are the YAMLs a request has read and still has to queue, `writes' the rows its
\* open transaction has changed, `old' the release before the change it is about.
IsRowMap(f) == DOMAIN f \subseteq Yamls /\ \A y \in DOMAIN f : f[y] \in Rows
NoRows == [y \in {} |-> None]
Pcs == {"idle", "validate", "store", "delete", "reset", "write", "list", "revalidate",
        "queue", "enqueue", "commit", "reread"}
Idle == [kind |-> "none", pc |-> "idle", room |-> None, yaml |-> None, old |-> None,
         target |-> None, rows |-> NoRows, writes |-> NoRows, txn |-> FALSE, result |-> None]
WorkerIdle == [pc |-> "idle", job |-> None, status |-> None]

Present == {y \in Yamls : yamls[y] \notin {None, Deleted}}
\* The release a room snapshot gives the YAMLs' world with the loaded index
ReleaseFor(r) == Release[index][r.version][r.manifest]
\* A row that an open transaction has written is locked until the transaction ends.
Locked(y) == \E h \in Handlers : y \in DOMAIN handler[h].writes
Without(f, y) == [z \in DOMAIN f \ {y} |-> f[z]]
With(f, y, row) == [z \in DOMAIN f \cup {y} |-> IF z = y THEN row ELSE f[z]]
Least(S) == CHOOSE y \in S : \A z \in S : y <= z

SetHandler(h, l) == handler' = [handler EXCEPT ![h] = l]
Goto(h, pc) == SetHandler(h, [handler[h] EXCEPT !.pc = pc])
Finish(h) == SetHandler(h, Idle)
Tick == clock < MaxTime /\ clock' = clock + 1

Busy(h) == handler[h].pc # "idle"
Reports(w) == worker[w].pc # "idle"

Begin(h, kind) == kind \in Kinds /\ handler[h].pc = "idle"

-----------------------------------------------------------------------------
(* db/yaml.rs                                                              *)

\* reset_yaml_validation_status
Reset(row) == [row EXCEPT !.status = "Unknown", !.basis = None]
\* update_yaml_status
Judged(row, status, apworlds, time, basis) ==
  [row EXCEPT !.status = status, !.apworlds = apworlds, !.time = time, !.basis = basis]
Basis(content, version, apworlds) ==
  [content |-> content, version |-> version, apworlds |-> apworlds]

ResetAll == [y \in Yamls |-> IF y \in Present THEN Reset(yamls[y]) ELSE yamls[y]]

-----------------------------------------------------------------------------
(* Uploading, editing and deleting a YAML                                  *)

UploadYaml(h, y) ==
  /\ Begin(h, "upload")
  /\ yamls[y] = None
  /\ \A g \in Handlers : handler[g].yaml # y
  /\ SetHandler(h, [Idle EXCEPT !.kind = "upload", !.pc = "validate", !.room = room, !.yaml = y])
  /\ UNCHANGED <<room, index, yamls, queue, worker, clock>>

EditYaml(h, y) ==
  /\ Begin(h, "edit")
  /\ y \in Present /\ yamls[y].content < MaxContent
  /\ SetHandler(h, [Idle EXCEPT !.kind = "edit", !.pc = "validate", !.room = room, !.yaml = y,
                                !.rows = [z \in {y} |-> yamls[y]]])
  /\ UNCHANGED <<room, index, yamls, queue, worker, clock>>

\* validate_yaml: the verdict on a document, with the room the request has read.  The job
\* has no yaml_id, so the callback leaves it to the request that waits for it.
Verdicts(r) ==
  IF ~r.validation THEN {"Unknown"}
  ELSE IF ReleaseFor(r) = None THEN {"Unsupported"}
  ELSE {"Validated", "Failed"}

ValidateYaml(h) ==
  LET l == handler[h]
      apworlds == IF l.room.validation THEN ReleaseFor(l.room) ELSE None
      content == IF l.kind = "edit" THEN l.rows[l.yaml].content + 1 ELSE 0
  IN /\ l.pc = "validate"
     /\ \E status \in Verdicts(l.room) :
          \* The room takes no such YAML, or no answer came in time: the request ends.
          \/ l.room.validation /\ Finish(h)
          \/ SetHandler(h, [l EXCEPT !.pc = "store", !.result =
               [content |-> content, status |-> status, apworlds |-> apworlds, time |-> 0,
                basis |-> IF status = "Unknown" THEN None
                          ELSE Basis(content, l.room.version, apworlds)]])
     /\ UNCHANGED <<room, index, yamls, queue, worker, clock>>

\* The row gets the verdict; add_yaml_to_room takes the time from the column's default.
StoreUpload(h) ==
  LET l == handler[h] IN
  /\ l.pc = "store" /\ l.kind = "upload"
  /\ Tick
  /\ yamls' = [yamls EXCEPT ![l.yaml] = [l.result EXCEPT !.time = clock']]
  /\ Finish(h)
  /\ UNCHANGED <<room, index, queue, worker>>

\* Mistake: the edit inserts the row when it finds none.
StoreEditUpsert(h) ==
  LET l == handler[h] IN
  /\ l.pc = "store" /\ l.kind = "edit"
  /\ ~Locked(l.yaml)
  /\ yamls' = [yamls EXCEPT ![l.yaml] = [l.result EXCEPT !.time = l.rows[l.yaml].time]]
  /\ Finish(h)
  /\ UNCHANGED <<room, index, queue, worker, clock>>

\* update_yaml_edited_content leaves last_validation_time alone.
StoreEdit(h) ==
  LET l == handler[h] IN
  /\ l.pc = "store" /\ l.kind = "edit"
  /\ ~Locked(l.yaml)
  /\ yamls' = [yamls EXCEPT ![l.yaml] = IF l.yaml \notin Present THEN @
                                        ELSE [l.result EXCEPT !.time = yamls[l.yaml].time]]
  /\ Finish(h)
  /\ UNCHANGED <<room, index, queue, worker, clock>>

DeleteYaml(h, y) ==
  /\ Begin(h, "delete")
  /\ y \in Present /\ ~Locked(y)
  /\ yamls' = [yamls EXCEPT ![y] = Deleted]
  /\ UNCHANGED <<room, index, queue, worker, handler, clock>>

-----------------------------------------------------------------------------
(* queue_yaml_validation, for the first of the YAMLs the request has read  *)

\* A statement of the request on row y: it waits for its transaction, or takes effect.
WriteRow(h, y, row, l) ==
  /\ y \in DOMAIN l.writes \/ ~Locked(y)
  /\ IF y \notin Present
     THEN SetHandler(h, l) /\ UNCHANGED yamls
     ELSE IF l.txn
     THEN SetHandler(h, [l EXCEPT !.writes = With(l.writes, y, row)]) /\ UNCHANGED yamls
     ELSE SetHandler(h, l) /\ yamls' = [yamls EXCEPT ![y] = row]

\* The content cannot be parsed again: an edit is stored as it was posted, while what was
\* parsed at the time had its document markers stripped.
QueueUnreadable(h) ==
  LET l == handler[h]
      y == Least(DOMAIN l.rows)
  IN /\ l.pc = "queue" /\ DOMAIN l.rows # {}
     /\ l.rows[y].content \in Unreadable
     /\ Tick
     /\ WriteRow(h, y, Judged(yamls[y], "Failed", None, clock',
                              Basis(l.rows[y].content, l.room.version, None)),
                 [l EXCEPT !.rows = Without(l.rows, y)])
     /\ UNCHANGED <<room, index, queue, worker>>

\* The world has no release in this room: the row says so, unless it was read saying it.
QueueUnsupported(h) ==
  LET l == handler[h]
      y == Least(DOMAIN l.rows)
      done == [l EXCEPT !.rows = Without(l.rows, y)]
  IN /\ l.pc = "queue" /\ DOMAIN l.rows # {}
     /\ l.rows[y].content \notin Unreadable /\ ReleaseFor(l.room) = None
     /\ \/ /\ l.rows[y].status = "Unsupported"
           /\ SetHandler(h, done)
           /\ UNCHANGED <<yamls, clock>>
        \/ /\ l.rows[y].status # "Unsupported"
           /\ Tick
           /\ WriteRow(h, y, Judged(yamls[y], "Unsupported", None, clock',
                                    Basis(l.rows[y].content, l.room.version, None)), done)
     /\ UNCHANGED <<room, index, queue, worker>>

\* Mistake: the status is reset, and the job is taken to be under way.
QueueResetOnly(h) ==
  LET l == handler[h]
      y == Least(DOMAIN l.rows)
  IN /\ l.pc = "queue" /\ DOMAIN l.rows # {}
     /\ l.rows[y].content \notin Unreadable /\ ReleaseFor(l.room) # None
     /\ WriteRow(h, y, Reset(yamls[y]), [l EXCEPT !.rows = Without(l.rows, y)])
     /\ UNCHANGED <<room, index, queue, worker, clock>>

\* reset_yaml_validation_status; the release is the one found before it
QueueReset(h) ==
  LET l == handler[h]
      y == Least(DOMAIN l.rows)
  IN /\ l.pc = "queue" /\ DOMAIN l.rows # {}
     /\ l.rows[y].content \notin Unreadable /\ ReleaseFor(l.room) # None
     /\ WriteRow(h, y, Reset(yamls[y]),
                 [l EXCEPT !.pc = "enqueue", !.result = ReleaseFor(l.room)])
     /\ UNCHANGED <<room, index, queue, worker, clock>>

Enqueue(h) ==
  LET l == handler[h]
      y == Least(DOMAIN l.rows)
  IN /\ l.pc = "enqueue"
     /\ Tick
     /\ queue' = queue \cup {[yaml |-> y, content |-> l.rows[y].content,
                              version |-> l.room.version, apworlds |-> l.result, time |-> clock']}
     /\ SetHandler(h, [l EXCEPT !.pc = "queue", !.rows = Without(l.rows, y)])
     /\ UNCHANGED <<room, index, yamls, worker>>

\* Every YAML is queued: the transaction, if there is one, commits.
Queued(h) ==
  LET l == handler[h] IN
  /\ l.pc = "queue" /\ DOMAIN l.rows = {}
  /\ yamls' = [y \in Yamls |-> IF y \in DOMAIN l.writes THEN l.writes[y] ELSE yamls[y]]
  /\ Finish(h)
  /\ UNCHANGED <<room, index, queue, worker, clock>>

-----------------------------------------------------------------------------
(* The requests that queue validations                                     *)

RetryYaml(h, y) ==
  /\ Begin(h, "retry")
  /\ y \in Present
  /\ SetHandler(h, [Idle EXCEPT !.kind = "retry", !.pc = "queue", !.room = room,
                                !.rows = [z \in {y} |-> yamls[y]]])
  /\ UNCHANGED <<room, index, yamls, queue, worker, clock>>

\* edit_room_submit: the room as it will be, on the version it was read on
EditRoom(h, manifest, validation) ==
  /\ Begin(h, "editRoom")
  /\ SetHandler(h, [Idle EXCEPT !.kind = "editRoom",
                      !.pc = IF validation THEN "write" ELSE "reset",
                      !.room = [version |-> room.version, manifest |-> manifest,
                                validation |-> validation],
                      !.old = ReleaseFor(room)])
  /\ UNCHANGED <<room, index, yamls, queue, worker, clock>>

\* update_room, without yaml_validation: no YAML has a status any more
UpdateRoomReset(h) ==
  /\ handler[h].pc = "reset"
  /\ \A y \in Present : ~Locked(y)
  /\ Tick
  /\ yamls' = [y \in Yamls |-> IF y \in Present THEN Judged(yamls[y], "Unknown", None, clock', None)
                               ELSE yamls[y]]
  /\ Goto(h, "write")
  /\ UNCHANGED <<room, index, queue, worker>>

\* update_room writes the whole row
UpdateRoom(h) ==
  /\ handler[h].pc = "write"
  /\ room' = handler[h].room
  /\ Goto(h, "revalidate")
  /\ UNCHANGED <<index, yamls, queue, worker, clock>>

\* refresh_worlds: the next index is loaded, with the old one kept at hand
RefreshWorlds(h) ==
  /\ Begin(h, "refresh")
  /\ index + 1 \in Indexes
  /\ index' = index + 1
  /\ SetHandler(h, [Idle EXCEPT !.kind = "refresh", !.pc = "list", !.target = index])
  /\ UNCHANGED <<room, yamls, queue, worker, clock>>

\* list_rooms: the room as it is when the refresh lists the open rooms
ListRooms(h) ==
  /\ handler[h].pc = "list"
  /\ SetHandler(h, [handler[h] EXCEPT !.pc = "revalidate", !.room = room,
                      !.old = Release[handler[h].target][room.version][room.manifest]])
  /\ UNCHANGED <<room, index, yamls, queue, worker, clock>>

\* should_revalidate_yaml; with a single world, a new world is available when this one is
ShouldRevalidate(row, release, old) ==
  IF row.apworlds = None
  THEN row.status = "Unsupported" => release # None /\ old = None
  ELSE release # row.apworlds

\* revalidate_yamls_if_necessary: reads the YAMLs and opens the transaction
Revalidate(h) ==
  LET l == handler[h]
      S == {y \in Present : ShouldRevalidate(yamls[y], ReleaseFor(l.room), l.old)}
  IN /\ l.pc = "revalidate"
     /\ IF l.room.validation
        THEN SetHandler(h, [l EXCEPT !.pc = "queue", !.txn = TRUE, !.rows = [y \in S |-> yamls[y]]])
        ELSE Finish(h)
     /\ UNCHANGED <<room, index, yamls, queue, worker, clock>>

\* switch_base: the room and its YAMLs are read
SwitchBase(h, target) ==
  /\ Begin(h, "switch")
  /\ target # room.version
  /\ SetHandler(h, [Idle EXCEPT !.kind = "switch", !.pc = "commit", !.room = room,
                                !.target = target, !.rows = [y \in Present |-> yamls[y]]])
  /\ UNCHANGED <<room, index, yamls, queue, worker, clock>>

\* The transaction of switch_base
SwitchCommit(h) ==
  LET l == handler[h] IN
  /\ l.pc = "commit"
  /\ room' = [room EXCEPT !.version = l.target]
  /\ IF l.room.validation
     THEN /\ \A y \in Present : ~Locked(y)
          /\ yamls' = ResetAll
          /\ Goto(h, "reread")
     ELSE Finish(h) /\ UNCHANGED yamls
  /\ UNCHANGED <<index, queue, worker, clock>>

\* The room is read again, and the YAMLs read before are taken to be Unknown.
SwitchReread(h) ==
  LET l == handler[h] IN
  /\ l.pc = "reread"
  /\ SetHandler(h, [l EXCEPT !.pc = "queue", !.room = room,
                      !.rows = [y \in DOMAIN l.rows |-> [l.rows[y] EXCEPT !.status = "Unknown"]]])
  /\ UNCHANGED <<room, index, yamls, queue, worker, clock>>

\* A statement fails, or the process stops: the open transaction is rolled back.
HandlerFails(h) ==
  /\ Failures
  /\ Busy(h)
  /\ Finish(h)
  /\ UNCHANGED <<room, index, yamls, queue, worker, clock>>

-----------------------------------------------------------------------------
(* The queue, the workers and get_yaml_validation_callback                 *)

SetWorker(w, l) == worker' = [worker EXCEPT ![w] = l]

\* A worker of the job's version claims it and reports on it.
WorkerResolves(w, job) ==
  /\ worker[w].pc = "idle"
  /\ job \in queue /\ job.version = WorkerVersion[w]
  /\ queue' = queue \ {job}
  /\ \E status \in {"Validated", "Failed"} :
       SetWorker(w, [pc |-> "read", job |-> job, status |-> status])
  /\ UNCHANGED <<room, index, yamls, handler, clock>>

\* The queue drops a job that is claimed after its deadline; no callback hears of it.
JobExpires(job) ==
  /\ DeadlinesPass
  /\ queue' = queue \ {job}
  /\ UNCHANGED <<room, index, yamls, worker, handler, clock>>

\* Mistake: the time of the job is not looked at.
CallbackReadAny(w) ==
  /\ worker[w].pc = "read"
  /\ IF worker[w].job.yaml \notin Present
     THEN SetWorker(w, WorkerIdle)
     ELSE SetWorker(w, [worker[w] EXCEPT !.pc = "version"])
  /\ UNCHANGED <<room, index, yamls, queue, handler, clock>>

\* The YAML is gone, or was validated by something submitted later: the result is ignored.
CallbackRead(w) ==
  LET job == worker[w].job IN
  /\ worker[w].pc = "read"
  /\ IF job.yaml \in Present /\ yamls[job.yaml].time <= job.time
     THEN SetWorker(w, [worker[w] EXCEPT !.pc = "version"])
     ELSE SetWorker(w, WorkerIdle)
  /\ UNCHANGED <<room, index, yamls, queue, handler, clock>>

\* The result is for another version than the room is on: it is ignored.
CallbackVersion(w) ==
  LET job == worker[w].job IN
  /\ worker[w].pc = "version"
  /\ IF job.yaml \in Present /\ room.version = job.version
     THEN SetWorker(w, [worker[w] EXCEPT !.pc = "update"])
     ELSE SetWorker(w, WorkerIdle)
  /\ UNCHANGED <<room, index, yamls, queue, handler, clock>>

CallbackUpdate(w) ==
  LET job == worker[w].job IN
  /\ worker[w].pc = "update"
  /\ ~Locked(job.yaml)
  /\ yamls' = [yamls EXCEPT ![job.yaml] =
                 IF job.yaml \notin Present THEN @
                 ELSE Judged(@, worker[w].status, job.apworlds, job.time,
                             Basis(job.content, job.version, job.apworlds))]
  /\ SetWorker(w, WorkerIdle)
  /\ UNCHANGED <<room, index, queue, handler, clock>>

-----------------------------------------------------------------------------
Init ==
  /\ room = [version |-> FirstVersion, manifest |-> FirstManifest, validation |-> TRUE]
  /\ index = 0
  /\ yamls = [y \in Yamls |->
       LET release == Release[0][FirstVersion][FirstManifest] IN
       IF y \notin FirstYamls THEN None
       ELSE [content |-> 0, apworlds |-> release, time |-> 0,
             status |-> IF release = None THEN "Unsupported" ELSE "Validated",
             basis |-> Basis(0, FirstVersion, release)]]
  /\ queue = {}
  /\ worker = [w \in Workers |-> WorkerIdle]
  /\ handler = [h \in Handlers |-> Idle]
  /\ clock = 0
  /\ past = {}

HandlerStep(h) ==
  \/ \E y \in Yamls : UploadYaml(h, y) \/ EditYaml(h, y) \/ DeleteYaml(h, y) \/ RetryYaml(h, y)
  \/ \E manifest \in Manifests, validation \in BOOLEAN : EditRoom(h, manifest, validation)
  \/ \E target \in Versions : SwitchBase(h, target)
  \/ ValidateYaml(h) \/ StoreUpload(h) \/ StoreEdit(h)
  \/ QueueUnsupported(h) \/ QueueReset(h) \/ Enqueue(h) \/ Queued(h)
  \/ UpdateRoomReset(h) \/ UpdateRoom(h) \/ Revalidate(h)
  \/ RefreshWorlds(h) \/ ListRooms(h)
  \/ SwitchCommit(h) \/ SwitchReread(h)

WorkerStep(w) ==
  \/ \E job \in queue : WorkerResolves(w, job)
  \/ CallbackRead(w) \/ CallbackVersion(w) \/ CallbackUpdate(w)

Happening ==
  {x \in {"retry", "editRoom", "switch"} : \E h \in Handlers : handler[h].kind = x}
  \cup {x \in {"overlap"} : \E g, h \in Handlers : g # h /\ Busy(g) /\ Busy(h)}
  \cup {x \in {"callbacks"} : \E v, w \in Workers : v # w /\ Reports(v) /\ Reports(w)}

Next ==
  \/ /\ (\E h \in Handlers : HandlerStep(h)) \/ (\E w \in Workers : WorkerStep(w))
     /\ past' = past \cup Happening'
  \/ /\ \E h \in Handlers : QueueUnreadable(h)
     /\ past' = past \cup Happening' \cup {"unreadable"}
  \/ /\ (\E h \in Handlers : HandlerFails(h)) \/ (\E job \in queue : JobExpires(job))
     /\ past' = past \cup {"failure"}

Spec == Init /\ [][Next]_validationVars

-----------------------------------------------------------------------------
(* Properties                                                              *)

\* Every variable has its type: rows, jobs and what the requests keep of them.
TypeOK ==
  /\ room \in Rooms
  /\ index \in Indexes
  /\ yamls \in [Yamls -> Rows \cup {None, Deleted}]
  /\ queue \subseteq JobRecords
  /\ \A w \in Workers : \/ worker[w] = WorkerIdle
                        \/ /\ worker[w].pc \in {"read", "version", "update"}
                           /\ worker[w].job \in JobRecords
                           /\ worker[w].status \in {"Validated", "Failed"}
  /\ \A h \in Handlers : /\ handler[h].pc \in Pcs
                         /\ handler[h].room \in Rooms \cup {None}
                         /\ IsRowMap(handler[h].rows) /\ IsRowMap(handler[h].writes)
  /\ clock \in 0..MaxTime
  /\ past \subseteq {"retry", "editRoom", "switch", "overlap", "callbacks", "failure", "unreadable"}

\* Nothing is under way that could still write a status.
Quiet ==
  /\ queue = {}
  /\ \A h \in Handlers : ~Busy(h)
  /\ \A w \in Workers : ~Reports(w)

Judgements == {y \in Present : yamls[y].status \in {"Validated", "Failed"}}

\* queue_yaml_validation and the callback: once everything is answered, no YAML of a room that
\* validates is left without a status: whatever resets one also has it validated, and the answer
\* is not dropped, wherever the room went meanwhile. Excepted are rooms with requests that
\* overlapped or failed, with jobs that expired, and rooms that were edited, moved and had a
\* YAML retried.
NoneForgotten ==
  Quiet /\ room.validation /\ past \cap {"overlap", "failure"} = {}
        /\ ~({"retry", "editRoom", "switch"} \subseteq past)
    => \A y \in Present : yamls[y].status # "Unknown"

\* The indexes never withdraw the release the room uses, and never go back to an earlier one.
Offered(i) == Release[i][FirstVersion][FirstManifest]
NewReleasesOnly ==
  \A i, k \in Indexes :
    /\ Offered(i) # None
    /\ i <= k /\ Offered(i) = Offered(k) => \A j \in Indexes : i <= j /\ j <= k => Offered(j) = Offered(i)

\* The callback of a validation: once everything is answered, a verdict was found with the
\* release the room uses, in whatever order results and new indexes arrive. Excepted are rooms
\* that were edited or moved, requests and callbacks that overlapped, failures, YAMLs that
\* could not be parsed again, and indexes that withdraw a release or go back to one.
VerdictOnRoomRelease ==
  Quiet /\ room.validation /\ past \subseteq {"retry"} /\ NewReleasesOnly
    => \A y \in Judgements : yamls[y].basis.apworlds = ReleaseFor(room)

\* Once everything is answered, a verdict is on the YAML as it reads now.
VerdictOnContent ==
  Quiet => \A y \in Judgements : yamls[y].basis.content = yamls[y].content

\* Nothing that was under way when a YAML was deleted brings it back: not the edit that
\* still waits for its validation, not a transaction, not the result of a job.
DeletedStaysDeleted ==
  [][\A y \in Yamls : yamls[y] = Deleted => yamls'[y] = Deleted]_validationVars
=============================================================================
