---------------------------- MODULE RoomGeneration ----------------------------
(***************************************************************************)
(* The generation of one lobby room: its row in `generations', which the   *)
(* room's page starts, cancels and uploads (lobby/src/views/room/gen.rs),  *)
(* the jobs it queues, the callback that writes their results to the row   *)
(* and to the patches of the room's YAMLs (jobs.rs), and what of the room  *)
(* the generation is made from: its Archipelago version, which may change  *)
(* until there is a generation, and its manifest, which a start freezes    *)
(* (views/room/edit.rs).                                                   *)
(*                                                                         *)
(* A request is a sequence of database and queue statements; requests and  *)
(* callbacks interleave between them.  Of the conditions for a start, that *)
(* there is no generation is the one kept: the others only make a start    *)
(* end sooner.  The queue (WorkQueue) is reduced to the place of each job. *)
(* Patches are file names inside the output of a job; here they are the    *)
(* job.  A manifest is its requirement of one world: None is "Latest", and *)
(* v the release that is the latest one for version v.                     *)
(***************************************************************************)
EXTENDS Naturals, FiniteSets

CONSTANTS
  Jobs,          \* job ids
  Versions,      \* Archipelago versions
  FirstVersion,
  Requests,      \* requests that may run at the same time
  Kinds,         \* what is requested
  Failures,      \* whether a request may fail or be dropped half-way
  None

AllKinds == {"start", "cancel", "upload", "patches", "switch", "edit"}

ASSUME GenerationAssumption ==
  /\ FirstVersion \in Versions
  /\ None \notin Jobs \cup Versions /\ Requests \cap Jobs = {}
  /\ Kinds \subseteq AllKinds
  /\ Failures \in BOOLEAN

VARIABLES
  room,      \* what the room's row says: [version, manifest]
  row,       \* the row of `generations': [job, status], or None
  patches,   \* the job whose output the YAMLs' patches are names in, or None
  place,     \* place[j]: where the queue has job j
  madeFrom,  \* madeFrom[j]: the room that job j was enqueued for
  output,    \* the jobs whose output directory holds a .zip
  request,   \* request[r]: where a request is, and what it has read
  callback,  \* callback[j]: the resolution of job j
  lost,        \* history: the jobs that a request left without the row it had or was to have
  stale,       \* history: the requests that have read another manifest than the room's
  overwritten  \* history: the requests and jobs whose manifest was saved over

generationHistory == <<lost, stale, overwritten>>
generationVars == <<room, row, patches, place, madeFrom, output, request, callback, lost, stale, overwritten>>

Places == {"new", "pending", "claimed", "gone"}
Room == [version : Versions, manifest : Versions \cup {None}]
GenerationStatus == {"Pending", "Failed", "Done"}
Generation == [job : Jobs, status : GenerationStatus]

ASSUME NoneIsNoRow == None \notin Generation

Request == [pc : {"idle", "startCheck", "freeze", "enqueue", "insert", "cancel", "delete",
                  "uploadCheck", "insertDone", "read", "associate", "switchCheck", "switch", "save"},
            job : Jobs \cup {None}, room : Room]
Idle == [pc |-> "idle", job |-> None, room |-> [version |-> FirstVersion, manifest |-> None]]

Callback == [pc : {"none", "update", "read", "associate", "ended"}, ok : BOOLEAN,
             job : Jobs \cup {None}]
NoCallback == [pc |-> "none", ok |-> FALSE, job |-> None]

SetRequest(r, l) == request' = [request EXCEPT ![r] = l]
Finish(r) == SetRequest(r, Idle)
Begin(r, kind, pc) ==
  /\ kind \in Kinds /\ request[r].pc = "idle"
  /\ SetRequest(r, [Idle EXCEPT !.pc = pc, !.room = IF kind = "start" THEN room ELSE @])
  /\ UNCHANGED <<room, row, patches, place, madeFrom, output, callback>>
Move(j, p) == place' = [place EXCEPT ![j] = p]

\* JobId::new
Fresh(j) == /\ place[j] = "new"
            /\ \A r \in Requests : request[r].job # j

-----------------------------------------------------------------------------
(* gen_room_start                                                          *)

\* The room is read, its version and its manifest with it.
StartGeneration(r) == Begin(r, "start", "startCheck")

\* get_info_for_gen: there must be no generation
StartCheck(r) ==
  /\ request[r].pc = "startCheck"
  /\ IF row = None THEN SetRequest(r, [request[r] EXCEPT !.pc = "freeze"]) ELSE Finish(r)
  /\ UNCHANGED <<room, row, patches, place, madeFrom, output, callback>>

\* Manifest::freeze, for the index of a version
Freeze(manifest, v) == IF manifest = None THEN v ELSE manifest

\* Mistake: the frozen manifest is not saved.
StartFreezeUnsaved(r) ==
  /\ request[r].pc = "freeze"
  /\ LET read == request[r].room IN
       SetRequest(r, [request[r] EXCEPT !.pc = "enqueue",
                                        !.room.manifest = Freeze(read.manifest, read.version)])
  /\ UNCHANGED <<room, row, patches, place, madeFrom, output, callback>>

\* enqueue_gen_job: the manifest that was read is frozen and saved
StartFreeze(r) ==
  /\ request[r].pc = "freeze"
  /\ LET read == request[r].room
         frozen == Freeze(read.manifest, read.version)
     IN  /\ room' = [room EXCEPT !.manifest = frozen]
         /\ SetRequest(r, [request[r] EXCEPT !.pc = "enqueue", !.room.manifest = frozen])
  /\ UNCHANGED <<row, patches, place, madeFrom, output, callback>>

\* The job is for the version that was read, and the releases of the frozen manifest.
StartEnqueue(r, j) ==
  /\ request[r].pc = "enqueue" /\ Fresh(j)
  /\ Move(j, "pending")
  /\ madeFrom' = [madeFrom EXCEPT ![j] = request[r].room]
  /\ SetRequest(r, [request[r] EXCEPT !.pc = "insert", !.job = j])
  /\ UNCHANGED <<room, row, patches, output, callback>>

\* The job is queued, but the answer of the queue is lost.
StartUnanswered(r, j) ==
  /\ Failures /\ request[r].pc = "enqueue" /\ Fresh(j)
  /\ Move(j, "pending")
  /\ madeFrom' = [madeFrom EXCEPT ![j] = request[r].room]
  /\ Finish(r)
  /\ UNCHANGED <<room, row, patches, output, callback>>

\* Mistake: the insertion replaces the row there is.
InsertRowOver(job, status) == row' = [job |-> job, status |-> status]

\* An insertion into `generations': room_id is its primary key.
InsertRow(job, status) == row' = IF row = None THEN [job |-> job, status |-> status] ELSE row

StartInsert(r) ==
  /\ request[r].pc = "insert"
  /\ InsertRow(request[r].job, "Pending")
  /\ Finish(r)
  /\ UNCHANGED <<room, patches, place, madeFrom, output, callback>>

-----------------------------------------------------------------------------
(* gen_room_cancel                                                         *)

CancelGeneration(r) ==
  /\ "cancel" \in Kinds /\ request[r].pc = "idle"
  /\ row # None
  /\ SetRequest(r, [Idle EXCEPT !.pc = "cancel", !.job = row.job])
  /\ UNCHANGED <<room, row, patches, place, madeFrom, output, callback>>

\* Mistake: the job is left in the queue.
CancelJobKept(r) ==
  /\ request[r].pc = "cancel"
  /\ SetRequest(r, [request[r] EXCEPT !.pc = "delete"])
  /\ UNCHANGED <<room, row, patches, place, madeFrom, output, callback>>

\* WorkQueue::cancel_job
CancelJob(r) ==
  /\ request[r].pc = "cancel"
  /\ Move(request[r].job, "gone")
  /\ SetRequest(r, [request[r] EXCEPT !.pc = "delete"])
  /\ UNCHANGED <<room, row, patches, madeFrom, output, callback>>

\* delete_generation_for_room: whatever row the room has by now
DeleteGeneration(r) ==
  /\ request[r].pc = "delete"
  /\ row' = None /\ patches' = None
  /\ Finish(r)
  /\ UNCHANGED <<room, place, madeFrom, output, callback>>

-----------------------------------------------------------------------------
(* gen_room_manual_upload, refresh_patches                                 *)

UploadGeneration(r) == Begin(r, "upload", "uploadCheck")

\* There must be no generation; then the .zip is written to the directory of a new job id.
UploadWrite(r, j) ==
  /\ request[r].pc = "uploadCheck"
  /\ IF row = None
     THEN /\ Fresh(j)
          /\ Move(j, "gone")
          /\ output' = output \cup {j}
          /\ SetRequest(r, [request[r] EXCEPT !.pc = "insertDone", !.job = j])
     ELSE Finish(r) /\ UNCHANGED <<place, output>>
  /\ UNCHANGED <<room, row, patches, madeFrom, callback>>

\* insert_generation_for_room_as_done; a failed insertion ends the request
UploadInsert(r) ==
  /\ request[r].pc = "insertDone"
  /\ InsertRow(request[r].job, "Done")
  /\ IF row = None THEN SetRequest(r, [request[r] EXCEPT !.pc = "read"]) ELSE Finish(r)
  /\ UNCHANGED <<room, patches, place, madeFrom, output, callback>>

RefreshPatches(r) == Begin(r, "patches", "read")

\* refresh_gen_patches: the row and the output of its job are read, then the patches written
PatchesRead(r) ==
  /\ request[r].pc = "read"
  /\ IF row # None /\ row.job \in output
     THEN SetRequest(r, [request[r] EXCEPT !.pc = "associate", !.job = row.job])
     ELSE Finish(r)
  /\ UNCHANGED <<room, row, patches, place, madeFrom, output, callback>>

\* associate_patch_files
PatchesAssociate(r) ==
  /\ request[r].pc = "associate"
  /\ patches' = request[r].job
  /\ Finish(r)
  /\ UNCHANGED <<room, row, place, madeFrom, output, callback>>

-----------------------------------------------------------------------------
(* switch_base, edit_room_submit, and requests that end early              *)

SwitchBase(r, target) ==
  /\ "switch" \in Kinds /\ request[r].pc = "idle"
  /\ target # room.version
  /\ SetRequest(r, [Idle EXCEPT !.pc = "switchCheck", !.room.version = target])
  /\ UNCHANGED <<room, row, patches, place, madeFrom, output, callback>>

\* The room must have no generation.
SwitchCheck(r) ==
  /\ request[r].pc = "switchCheck"
  /\ IF row = None THEN SetRequest(r, [request[r] EXCEPT !.pc = "switch"]) ELSE Finish(r)
  /\ UNCHANGED <<room, row, patches, place, madeFrom, output, callback>>

SwitchCommit(r) ==
  /\ request[r].pc = "switch"
  /\ room' = [room EXCEPT !.version = request[r].room.version]
  /\ Finish(r)
  /\ UNCHANGED <<row, patches, place, madeFrom, output, callback>>

\* edit_room_submit: the manifest of the form is saved, with the version that was read
EditRoom(r, manifest) ==
  /\ "edit" \in Kinds /\ request[r].pc = "idle"
  /\ SetRequest(r, [Idle EXCEPT !.pc = "save", !.room = [room EXCEPT !.manifest = manifest]])
  /\ UNCHANGED <<room, row, patches, place, madeFrom, output, callback>>

EditSave(r) ==
  /\ request[r].pc = "save"
  /\ room' = request[r].room
  /\ Finish(r)
  /\ UNCHANGED <<row, patches, place, madeFrom, output, callback>>

\* A statement fails, or the process stops.
RequestFails(r) ==
  /\ Failures /\ request[r].pc # "idle"
  /\ Finish(r)
  /\ UNCHANGED <<room, row, patches, place, madeFrom, output, callback>>

-----------------------------------------------------------------------------
(* The workers and get_generation_callback                                 *)

\* A generator takes the job.
Claim(j) ==
  /\ place[j] = "pending"
  /\ Move(j, "claimed")
  /\ UNCHANGED <<room, row, patches, madeFrom, output, request, callback>>

\* The generator is through and resolve_job finds its claim and the job.  Only a
\* successful generation has written a .zip.
Resolve(j, ok) ==
  /\ place[j] = "claimed" /\ callback[j].pc = "none"
  /\ output' = IF ok THEN output \cup {j} ELSE output
  /\ callback' = [callback EXCEPT ![j] = [pc |-> "update", ok |-> ok, job |-> None]]
  /\ UNCHANGED <<room, row, patches, place, madeFrom, request>>

\* The claim is removed, and the row of the job's room gets the status.
CallbackUpdate(j) ==
  /\ callback[j].pc = "update"
  /\ Move(j, "gone")
  /\ row' = IF row = None THEN None
            ELSE [row EXCEPT !.status = IF callback[j].ok THEN "Done" ELSE "Failed"]
  /\ callback' = [callback EXCEPT ![j].pc = IF callback[j].ok THEN "read" ELSE "ended"]
  /\ UNCHANGED <<room, patches, madeFrom, output, request>>

\* refresh_gen_patches, for the row the room has now
CallbackRead(j) ==
  /\ callback[j].pc = "read"
  /\ callback' = [callback EXCEPT ![j] =
       IF row # None /\ row.job \in output
       THEN [@ EXCEPT !.pc = "associate", !.job = row.job]
       ELSE [@ EXCEPT !.pc = "ended"]]
  /\ UNCHANGED <<room, row, patches, place, madeFrom, output, request>>

CallbackAssociate(j) ==
  /\ callback[j].pc = "associate"
  /\ patches' = callback[j].job
  /\ callback' = [callback EXCEPT ![j].pc = "ended"]
  /\ UNCHANGED <<room, row, place, madeFrom, output, request>>

-----------------------------------------------------------------------------
(* Histories of what a request may do to the others'                       *)

\* The answer that job j is queued was lost, the insertion of its row failed, or the row was
\* deleted by a request that cancelled another job.
Leaves(r, j) ==
  \/ request[r].pc = "enqueue" /\ place[j] = "new" /\ place'[j] = "pending" /\ request'[r].pc = "idle"
  \/ request[r].pc = "insert" /\ j = request[r].job /\ (row' = None \/ row'.job # j)
  \/ request[r].pc = "delete" /\ row # None /\ row' = None /\ j = row.job /\ j # request[r].job

\* The requests that will save the manifest they have read, and those that go by the one they saved
Reading(q) == request[q].pc \in {"startCheck", "freeze"}
Frozen == {q \in Requests : request[q].pc = "enqueue"} \cup {j \in Jobs : madeFrom[j] # None}

\* An edit, or a start that had read the room before the manifest was last saved, changes
\* the manifest that others go by.  A job has the manifest of its request.
Watch(r) ==
  LET pc == request[r].pc
      saves == room'.manifest # room.manifest
  IN  /\ lost' = lost \cup {j \in Jobs : Leaves(r, j)}
      /\ stale' = CASE saves -> {q \in Requests \ {r} : Reading(q)}
                    [] ~saves /\ ~Reading(r)' -> stale \ {r}
                    [] OTHER -> stale
      /\ overwritten' =
           CASE saves /\ (pc = "save" \/ r \in stale) -> overwritten \cup Frozen
             [] pc = "enqueue" /\ r \in overwritten ->
                  (overwritten \ {r}) \cup {j \in Jobs : madeFrom'[j] # madeFrom[j]}
             [] OTHER -> overwritten

-----------------------------------------------------------------------------
Init ==
  /\ room = Idle.room
  /\ row = None
  /\ patches = None
  /\ place = [j \in Jobs |-> "new"]
  /\ madeFrom = [j \in Jobs |-> None]
  /\ output = {}
  /\ request = [r \in Requests |-> Idle]
  /\ callback = [j \in Jobs |-> NoCallback]
  /\ lost = {} /\ stale = {} /\ overwritten = {}

RequestStep(r) ==
  \/ StartGeneration(r) \/ StartCheck(r) \/ StartFreeze(r) \/ StartInsert(r)
  \/ \E j \in Jobs : StartEnqueue(r, j) \/ StartUnanswered(r, j) \/ UploadWrite(r, j)
  \/ CancelGeneration(r) \/ CancelJob(r) \/ DeleteGeneration(r)
  \/ UploadGeneration(r) \/ UploadInsert(r)
  \/ RefreshPatches(r) \/ PatchesRead(r) \/ PatchesAssociate(r)
  \/ (\E target \in Versions : SwitchBase(r, target)) \/ SwitchCheck(r) \/ SwitchCommit(r)
  \/ (\E manifest \in Versions \cup {None} : EditRoom(r, manifest)) \/ EditSave(r)
  \/ RequestFails(r)

JobStep(j) ==
  \/ Claim(j)
  \/ \E ok \in BOOLEAN : Resolve(j, ok)
  \/ CallbackUpdate(j) \/ CallbackRead(j) \/ CallbackAssociate(j)

Next ==
  \/ \E r \in Requests : RequestStep(r) /\ Watch(r)
  \/ (\E j \in Jobs : JobStep(j)) /\ UNCHANGED generationHistory

Spec == Init /\ [][Next]_generationVars

-----------------------------------------------------------------------------
(* Properties                                                              *)

StateTypeOK ==
  /\ room \in Room
  /\ row \in Generation \cup {None}
  /\ patches \in Jobs \cup {None}
  /\ place \in [Jobs -> Places]
  /\ madeFrom \in [Jobs -> Room \cup {None}]
  /\ output \subseteq Jobs
  /\ request \in [Requests -> Request]
  /\ callback \in [Jobs -> Callback]

\* Every variable has its type.
TypeOK ==
  /\ StateTypeOK
  /\ lost \subseteq Jobs /\ stale \subseteq Requests /\ overwritten \subseteq Requests \cup Jobs

\* The jobs a worker has or will get
Live == {j \in Jobs : place[j] \in {"pending", "claimed"}}

\* The generation of a room is not replaced: another one only comes after the room's page
\* has shown that there was none.  Requests that both found none do not overwrite each other.
RowKeepsItsJob ==
  [][row # None /\ row' # None => row'.job = row.job]_generationVars

\* A job in the queue is the job of the room's generation, through which it can be cancelled,
\* or its start is about to insert that: a cancelled generation leaves none.  Whatever requests
\* overlap and fail, only two things leave a job to itself: a start that fails after the job
\* was queued, and a deletion of the row by a request that cancelled another job
\* (gen.rs:509-517, 223-224).
NoOrphanJob ==
  \A j \in Live : \/ row # None /\ row.job = j
                  \/ \E r \in Requests : request[r].pc = "insert" /\ request[r].job = j
                  \/ j \in lost

\* A generation that counts as done has a file to download and to host.
DoneHasOutput ==
  row # None /\ row.status = "Done" => row.job \in output

\* The room page shows the releases its generation is made with: the manifest of the room is
\* the one its job was made from, until an edit or the freeze of a start that had read an older
\* manifest saves another.  A start that read the room after the freeze changes nothing, nor
\* does a move to another version (gen.rs:478-517, switch_base).
ManifestOfGeneration ==
  row # None /\ madeFrom[row.job] # None /\ row.job \notin overwritten =>
    room.manifest = madeFrom[row.job].manifest
=============================================================================
