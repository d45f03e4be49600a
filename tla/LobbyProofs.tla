----------------------------- MODULE LobbyProofs -----------------------------
(***************************************************************************)
(* What holds of the lobby's parts for any number of users, rooms, jobs    *)
(* and requests.  The generation of a room: its types, that a generation's *)
(* row keeps its job, what may leave a job without the row through which   *)
(* it can be cancelled, and what may change the manifest under one.        *)
(* The sessions, the definitions of options and the forms for rooms and    *)
(* templates: what the lobby promises of each, by an inductive invariant   *)
(* for each.                                                               *)
(***************************************************************************)
EXTENDS Lobby, FiniteSetTheorems, WellFoundedInduction, TLAPS

-----------------------------------------------------------------------------
(* The generation of a room                                                *)

(* A request that is about to use a job id has one.                        *)
HasJob == {"insert", "insertDone", "cancel", "delete"}
KnownRequest == {l \in Request : l.pc \in HasJob => l.job \in Jobs}
RequestsKnown == \A r \in Requests : request[r] \in KnownRequest

TypeInv == StateTypeOK /\ RequestsKnown

(* A request that stops, or goes on with what it has read, keeps to these. *)
LEMMA IdleKnown == Idle \in KnownRequest
  BY GenerationAssumption DEF Idle, KnownRequest, Request, Room, HasJob

LEMMA RequestTyped ==
  ASSUME TypeInv, NEW r \in Requests, NEW l \in KnownRequest, SetRequest(r, l)
  PROVE  request' \in [Requests -> Request] /\ RequestsKnown'
  BY DEF SetRequest, TypeInv, StateTypeOK, RequestsKnown, KnownRequest

LEMMA FinishTyped ==
  ASSUME TypeInv, NEW r \in Requests, Finish(r)
  PROVE  request' \in [Requests -> Request] /\ RequestsKnown'
  BY IdleKnown, RequestTyped DEF Finish

LEMMA MoveTyped ==
  ASSUME TypeInv, NEW j \in Jobs, NEW p \in Places, Move(j, p)
  PROVE  place' \in [Jobs -> Places]
  BY DEF Move, TypeInv, StateTypeOK

LEMMA InsertTyped ==
  ASSUME TypeInv, NEW job \in Jobs, NEW status \in GenerationStatus, InsertRow(job, status)
  PROVE  row' \in Generation \cup {None}
  BY DEF InsertRow, TypeInv, StateTypeOK, Generation

(* Each statement of a request keeps the types.                            *)
LEMMA RequestStepTyped ==
  ASSUME TypeInv, NEW r \in Requests, RequestStep(r)
  PROVE  TypeInv'
<1> USE GenerationAssumption
<1> DEFINE l == request[r]
<1>1. l \in KnownRequest /\ l \in Request /\ (l.pc \in HasJob => l.job \in Jobs)
  BY DEF TypeInv, RequestsKnown, KnownRequest
<1>2. ASSUME NEW pc \in {"startCheck", "uploadCheck", "read"}, NEW kind, Begin(r, kind, pc)
      PROVE  TypeInv'
  <2>1. [Idle EXCEPT !.pc = pc, !.room = IF kind = "start" THEN room ELSE @] \in KnownRequest
    BY IdleKnown DEF TypeInv, StateTypeOK, Request, KnownRequest, HasJob
  <2>2. request' \in [Requests -> Request] /\ RequestsKnown'
    BY <1>2, <2>1, RequestTyped DEF Begin
  <2>3. QED BY <1>2, <2>2 DEF Begin, TypeInv, StateTypeOK
<1>3. CASE StartGeneration(r)
  BY <1>2, <1>3 DEF StartGeneration
<1>4. CASE UploadGeneration(r)
  BY <1>2, <1>4 DEF UploadGeneration
<1>5. CASE RefreshPatches(r)
  BY <1>2, <1>5 DEF RefreshPatches
<1>6. CASE StartCheck(r)
  <2>1. [l EXCEPT !.pc = "freeze"] \in KnownRequest
    BY <1>1 DEF Request, KnownRequest, HasJob
  <2>2. request' \in [Requests -> Request] /\ RequestsKnown'
    BY <1>6, <2>1, RequestTyped, FinishTyped DEF StartCheck
  <2>3. QED BY <1>6, <2>2 DEF StartCheck, TypeInv, StateTypeOK
<1>7. ASSUME NEW j \in Jobs, StartEnqueue(r, j) PROVE TypeInv'
  <2>1. [l EXCEPT !.pc = "insert", !.job = j] \in KnownRequest
    BY <1>1 DEF Request, KnownRequest, HasJob
  <2>2. request' \in [Requests -> Request] /\ RequestsKnown'
    BY <1>7, <2>1, RequestTyped DEF StartEnqueue
  <2>3. place' \in [Jobs -> Places]
    BY <1>7, MoveTyped DEF StartEnqueue, Places
  <2>4. madeFrom' \in [Jobs -> Room \cup {None}]
    BY <1>1, <1>7 DEF StartEnqueue, TypeInv, StateTypeOK, Request
  <2>5. QED BY <1>7, <2>2, <2>3, <2>4 DEF StartEnqueue, TypeInv, StateTypeOK
<1>23. ASSUME NEW j \in Jobs, StartUnanswered(r, j) PROVE TypeInv'
  <2>1. request' \in [Requests -> Request] /\ RequestsKnown'
    BY <1>23, FinishTyped DEF StartUnanswered
  <2>2. place' \in [Jobs -> Places]
    BY <1>23, MoveTyped DEF StartUnanswered, Places
  <2>3. madeFrom' \in [Jobs -> Room \cup {None}]
    BY <1>1, <1>23 DEF StartUnanswered, TypeInv, StateTypeOK, Request
  <2>4. QED BY <1>23, <2>1, <2>2, <2>3 DEF StartUnanswered, TypeInv, StateTypeOK
<1>8. ASSUME NEW j \in Jobs, UploadWrite(r, j) PROVE TypeInv'
  <2>1. [l EXCEPT !.pc = "insertDone", !.job = j] \in KnownRequest
    BY <1>1 DEF Request, KnownRequest, HasJob
  <2>2. request' \in [Requests -> Request] /\ RequestsKnown'
    BY <1>8, <2>1, RequestTyped, FinishTyped DEF UploadWrite
  <2>3. place' \in [Jobs -> Places]
    BY <1>8, MoveTyped DEF UploadWrite, Places, TypeInv, StateTypeOK
  <2>4. output' \subseteq Jobs
    BY <1>8 DEF UploadWrite, TypeInv, StateTypeOK
  <2>5. QED BY <1>8, <2>2, <2>3, <2>4 DEF UploadWrite, TypeInv, StateTypeOK
<1>9. CASE StartInsert(r)
  <2>1. request' \in [Requests -> Request] /\ RequestsKnown'
    BY <1>9, FinishTyped DEF StartInsert
  <2>2. row' \in Generation \cup {None}
    BY <1>1, <1>9, InsertTyped DEF StartInsert, GenerationStatus, HasJob
  <2>3. QED BY <1>9, <2>1, <2>2 DEF StartInsert, TypeInv, StateTypeOK
<1>10. CASE CancelGeneration(r)
  <2>1. row \in Generation
    BY <1>10 DEF CancelGeneration, TypeInv, StateTypeOK
  <2>2. row.job \in Jobs
    BY <2>1 DEF Generation
  <2>3. [Idle EXCEPT !.pc = "cancel", !.job = row.job] \in KnownRequest
    BY <2>2, IdleKnown DEF Request, KnownRequest, HasJob
  <2>4. request' \in [Requests -> Request] /\ RequestsKnown'
    BY <1>10, <2>3, RequestTyped DEF CancelGeneration
  <2>5. QED BY <1>10, <2>4 DEF CancelGeneration, TypeInv, StateTypeOK
<1>11. CASE CancelJob(r)
  <2>1. l.job \in Jobs
    BY <1>1, <1>11 DEF CancelJob, HasJob
  <2>2. [l EXCEPT !.pc = "delete"] \in KnownRequest
    BY <1>1, <2>1 DEF Request, KnownRequest, HasJob
  <2>3. request' \in [Requests -> Request] /\ RequestsKnown'
    BY <1>11, <2>2, RequestTyped DEF CancelJob
  <2>4. place' \in [Jobs -> Places]
    BY <1>11, <2>1, MoveTyped DEF CancelJob, Places
  <2>5. QED BY <1>11, <2>3, <2>4 DEF CancelJob, TypeInv, StateTypeOK
<1>12. CASE DeleteGeneration(r)
  <2>1. request' \in [Requests -> Request] /\ RequestsKnown'
    BY <1>12, FinishTyped DEF DeleteGeneration
  <2>2. QED BY <1>12, <2>1 DEF DeleteGeneration, TypeInv, StateTypeOK
<1>13. CASE UploadInsert(r)
  <2>1. [l EXCEPT !.pc = "read"] \in KnownRequest
    BY <1>1 DEF Request, KnownRequest, HasJob
  <2>2. request' \in [Requests -> Request] /\ RequestsKnown'
    BY <1>13, <2>1, RequestTyped, FinishTyped DEF UploadInsert
  <2>3. row' \in Generation \cup {None}
    BY <1>1, <1>13, InsertTyped DEF UploadInsert, GenerationStatus, HasJob
  <2>4. QED BY <1>13, <2>2, <2>3 DEF UploadInsert, TypeInv, StateTypeOK
<1>14. CASE PatchesRead(r)
  <2>1. ASSUME row # None PROVE [l EXCEPT !.pc = "associate", !.job = row.job] \in KnownRequest
    <3>1. row.job \in Jobs
      BY <2>1 DEF TypeInv, StateTypeOK, Generation
    <3>2. QED BY <1>1, <3>1 DEF Request, KnownRequest, HasJob
  <2>2. request' \in [Requests -> Request] /\ RequestsKnown'
    BY <1>14, <2>1, RequestTyped, FinishTyped DEF PatchesRead
  <2>3. QED BY <1>14, <2>2 DEF PatchesRead, TypeInv, StateTypeOK
<1>15. CASE PatchesAssociate(r)
  <2>1. request' \in [Requests -> Request] /\ RequestsKnown'
    BY <1>15, FinishTyped DEF PatchesAssociate
  <2>2. patches' \in Jobs \cup {None}
    BY <1>1, <1>15 DEF PatchesAssociate, Request
  <2>3. QED BY <1>15, <2>1, <2>2 DEF PatchesAssociate, TypeInv, StateTypeOK
<1>16. ASSUME NEW target \in Versions, SwitchBase(r, target) PROVE TypeInv'
  <2>1. [Idle EXCEPT !.pc = "switchCheck", !.room.version = target] \in KnownRequest
    BY IdleKnown DEF Request, KnownRequest, Room, HasJob
  <2>2. request' \in [Requests -> Request] /\ RequestsKnown'
    BY <1>16, <2>1, RequestTyped DEF SwitchBase
  <2>3. QED BY <1>16, <2>2 DEF SwitchBase, TypeInv, StateTypeOK
<1>17. CASE SwitchCheck(r)
  <2>1. [l EXCEPT !.pc = "switch"] \in KnownRequest
    BY <1>1 DEF Request, KnownRequest, HasJob
  <2>2. request' \in [Requests -> Request] /\ RequestsKnown'
    BY <1>17, <2>1, RequestTyped, FinishTyped DEF SwitchCheck
  <2>3. QED BY <1>17, <2>2 DEF SwitchCheck, TypeInv, StateTypeOK
<1>18. CASE SwitchCommit(r)
  <2>1. request' \in [Requests -> Request] /\ RequestsKnown'
    BY <1>18, FinishTyped DEF SwitchCommit
  <2>2. room' \in Room
    BY <1>1, <1>18 DEF SwitchCommit, Request, Room, TypeInv, StateTypeOK
  <2>3. QED BY <1>18, <2>1, <2>2 DEF SwitchCommit, TypeInv, StateTypeOK
<1>19. CASE RequestFails(r)
  <2>1. request' \in [Requests -> Request] /\ RequestsKnown'
    BY <1>19, FinishTyped DEF RequestFails
  <2>2. QED BY <1>19, <2>1 DEF RequestFails, TypeInv, StateTypeOK
<1>20. CASE StartFreeze(r)
  <2> DEFINE frozen == Freeze(l.room.manifest, l.room.version)
  <2>1. frozen \in Versions \cup {None}
    BY <1>1 DEF Freeze, Request, Room
  <2> HIDE DEF frozen
  <2>2. [l EXCEPT !.pc = "enqueue", !.room.manifest = frozen] \in KnownRequest
    BY <1>1, <2>1 DEF Request, KnownRequest, Room, HasJob
  <2>3. request' \in [Requests -> Request] /\ RequestsKnown'
    BY <1>20, <2>2, RequestTyped DEF StartFreeze, frozen
  <2>4. room' = [room EXCEPT !.manifest = frozen]
    BY <1>20 DEF StartFreeze, frozen
  <2>5. room' \in Room
    BY <2>1, <2>4 DEF Room, TypeInv, StateTypeOK
  <2>6. QED BY <1>20, <2>3, <2>5 DEF StartFreeze, TypeInv, StateTypeOK
<1>21. ASSUME NEW manifest \in Versions \cup {None}, EditRoom(r, manifest) PROVE TypeInv'
  <2>1. [room EXCEPT !.manifest = manifest] \in Room
    BY DEF Room, TypeInv, StateTypeOK
  <2>2. [Idle EXCEPT !.pc = "save", !.room = [room EXCEPT !.manifest = manifest]] \in KnownRequest
    BY <2>1, IdleKnown DEF Request, KnownRequest, HasJob
  <2>3. request' \in [Requests -> Request] /\ RequestsKnown'
    BY <1>21, <2>2, RequestTyped DEF EditRoom
  <2>4. QED BY <1>21, <2>3 DEF EditRoom, TypeInv, StateTypeOK
<1>22. CASE EditSave(r)
  <2>1. request' \in [Requests -> Request] /\ RequestsKnown'
    BY <1>22, FinishTyped DEF EditSave
  <2>2. room' \in Room
    BY <1>1, <1>22 DEF EditSave, Request
  <2>3. QED BY <1>22, <2>1, <2>2 DEF EditSave, TypeInv, StateTypeOK
<1>24. QED
  BY <1>23, <1>3, <1>4, <1>5, <1>6, <1>7, <1>8, <1>9, <1>10, <1>11, <1>12, <1>13, <1>14, <1>15,
     <1>16, <1>17, <1>18, <1>19, <1>20, <1>21, <1>22 DEF RequestStep

(* Each step of a job and of its callback keeps the types.                 *)
LEMMA JobStepTyped ==
  ASSUME TypeInv, NEW j \in Jobs, JobStep(j)
  PROVE  TypeInv'
<1> USE GenerationAssumption
<1>1. ASSUME UNCHANGED request PROVE request' \in [Requests -> Request] /\ RequestsKnown'
  BY <1>1 DEF TypeInv, StateTypeOK, RequestsKnown
<1>2. callback[j] \in Callback
  BY DEF TypeInv, StateTypeOK
<1>3. CASE Claim(j)
  <2>1. place' \in [Jobs -> Places]
    BY <1>3, MoveTyped DEF Claim, Places
  <2>2. QED BY <1>1, <1>3, <2>1 DEF Claim, TypeInv, StateTypeOK
<1>4. ASSUME NEW ok \in BOOLEAN, Resolve(j, ok) PROVE TypeInv'
  <2>1. [pc |-> "update", ok |-> ok, job |-> None] \in Callback
    BY DEF Callback
  <2>2. callback' \in [Jobs -> Callback]
    BY <1>4, <2>1 DEF Resolve, TypeInv, StateTypeOK
  <2>3. output' \subseteq Jobs
    BY <1>4 DEF Resolve, TypeInv, StateTypeOK
  <2>4. QED BY <1>1, <1>4, <2>2, <2>3 DEF Resolve, TypeInv, StateTypeOK
<1>5. CASE CallbackUpdate(j)
  <2>1. place' \in [Jobs -> Places]
    BY <1>5, MoveTyped DEF CallbackUpdate, Places
  <2>2. row' \in Generation \cup {None}
    BY <1>5 DEF CallbackUpdate, TypeInv, StateTypeOK, Generation, GenerationStatus
  <2>3. callback' \in [Jobs -> Callback]
    BY <1>2, <1>5 DEF CallbackUpdate, TypeInv, StateTypeOK, Callback
  <2>4. QED BY <1>1, <1>5, <2>1, <2>2, <2>3 DEF CallbackUpdate, TypeInv, StateTypeOK
<1>6. CASE CallbackRead(j)
  <2>1. row # None => row.job \in Jobs
    BY DEF TypeInv, StateTypeOK, Generation
  <2>2. row # None => [callback[j] EXCEPT !.pc = "associate", !.job = row.job] \in Callback
    BY <1>2, <2>1 DEF Callback
  <2>3. [callback[j] EXCEPT !.pc = "ended"] \in Callback
    BY <1>2 DEF Callback
  <2>4. callback' \in [Jobs -> Callback]
    BY <1>6, <2>2, <2>3 DEF CallbackRead, TypeInv, StateTypeOK
  <2>5. QED BY <1>1, <1>6, <2>4 DEF CallbackRead, TypeInv, StateTypeOK
<1>7. CASE CallbackAssociate(j)
  <2>1. patches' \in Jobs \cup {None}
    BY <1>2, <1>7 DEF CallbackAssociate, Callback
  <2>2. callback' \in [Jobs -> Callback]
    BY <1>2, <1>7 DEF CallbackAssociate, TypeInv, StateTypeOK, Callback
  <2>3. QED BY <1>1, <1>7, <2>1, <2>2 DEF CallbackAssociate, TypeInv, StateTypeOK
<1>8. QED BY <1>3, <1>4, <1>5, <1>6, <1>7 DEF JobStep

LEMMA TypeInvStep == TypeInv /\ [Next]_generationVars => TypeInv'
<1>1. CASE TypeInv /\ UNCHANGED generationVars
  BY <1>1 DEF generationVars, TypeInv, StateTypeOK, RequestsKnown
<1>2. QED BY <1>1, RequestStepTyped, JobStepTyped DEF Next

LEMMA TypeInvInit == Init => TypeInv
  BY GenerationAssumption, IdleKnown
  DEF Init, TypeInv, StateTypeOK, RequestsKnown, KnownRequest, Idle, Request, Room, NoCallback,
      Callback, Places

(* Whatever requests, generators and callbacks do to each other, the row,  *)
(* the queue and the callbacks of a generation keep their types: the row   *)
(* never gets a status or a job id that is none.                           *)
THEOREM GenerationTypeCorrect == Spec => []TypeOK
<1> DEFINE H == /\ lost \subseteq Jobs /\ stale \subseteq Requests
                /\ overwritten \subseteq Requests \cup Jobs
<1>1. TypeInv /\ H => TypeOK
  BY DEF TypeInv, TypeOK
<1>2. Init => H
  BY DEF Init
<1>3. H /\ [Next]_generationVars => H'
  <2>1. ASSUME H, NEW r \in Requests, Watch(r) PROVE H'
    BY <2>1 DEF Watch, Frozen
  <2>2. QED BY <2>1 DEF Next, generationVars, generationHistory
<1> HIDE DEF H
<1>4. QED BY <1>1, <1>2, <1>3, TypeInvInit, TypeInvStep, PTL DEF Spec

-----------------------------------------------------------------------------
(* The insertion never replaces a row, a callback only changes its status, *)
(* and a deletion leaves none.                                             *)
LEMMA RowStep ==
  ASSUME TypeInv, Next, row # None, row' # None
  PROVE  row'.job = row.job
<1>1. row \in Generation
  BY DEF TypeInv, StateTypeOK
<1>2. ASSUME NEW r \in Requests, RequestStep(r), row' # row PROVE FALSE
  <2>1. ~StartInsert(r) /\ ~UploadInsert(r)
    BY <1>2 DEF StartInsert, UploadInsert, InsertRow
  <2>2. ~DeleteGeneration(r)
    BY DEF DeleteGeneration
  <2>3. QED
    BY <1>2, <2>1, <2>2
    DEF RequestStep, StartGeneration, StartCheck, StartFreeze, StartEnqueue, StartUnanswered, UploadWrite,
        CancelGeneration,
        CancelJob, UploadGeneration, RefreshPatches, PatchesRead, PatchesAssociate, SwitchBase,
        SwitchCheck, SwitchCommit, EditRoom, EditSave, RequestFails, Begin
<1>3. ASSUME NEW j \in Jobs, JobStep(j), row' # row PROVE row'.job = row.job
  <2>1. CallbackUpdate(j)
    BY <1>3 DEF JobStep, Claim, Resolve, CallbackRead, CallbackAssociate
  <2>2. QED BY <1>1, <2>1 DEF CallbackUpdate, Generation
<1>4. QED BY <1>2, <1>3 DEF Next

(* While a room has a generation, its job stays the same: of two starts    *)
(* that both found none, the second does not take the row from the first.  *)
THEOREM GenerationKeepsItsJob == Spec => RowKeepsItsJob
<1>1. TypeInv /\ [Next]_generationVars =>
        [row # None /\ row' # None => row'.job = row.job]_generationVars
  BY RowStep
<1>2. QED BY <1>1, TypeInvInit, TypeInvStep, PTL DEF Spec, RowKeepsItsJob

-----------------------------------------------------------------------------
(* Requests that overlap and fail                                          *)

(* What each statement of a request may do: to the other requests nothing, *)
(* to the row an insertion where there was none or the deletion of a       *)
(* cancel, and to the manifest what a start has frozen or an edit brings.  *)
LEMMA RequestEffects ==
  ASSUME TypeInv, NEW r \in Requests, RequestStep(r)
  PROVE  /\ \A q \in Requests \ {r} : request'[q] = request[q]
         /\ row' = row \/ row = None \/ DeleteGeneration(r)
         /\ place' = place \/ CancelJob(r)
              \/ \E j \in Jobs : StartEnqueue(r, j) \/ StartUnanswered(r, j) \/ UploadWrite(r, j)
         /\ room'.manifest = room.manifest \/ StartFreeze(r) \/ EditSave(r)
         /\ madeFrom' = madeFrom \/ \E j \in Jobs : StartEnqueue(r, j) \/ StartUnanswered(r, j)
<1> DEFINE P == /\ \A q \in Requests \ {r} : request'[q] = request[q]
                /\ row' = row \/ row = None \/ DeleteGeneration(r)
                /\ place' = place \/ CancelJob(r)
                     \/ \E j \in Jobs : StartEnqueue(r, j) \/ StartUnanswered(r, j) \/ UploadWrite(r, j)
                /\ room'.manifest = room.manifest \/ StartFreeze(r) \/ EditSave(r)
                /\ madeFrom' = madeFrom \/ \E j \in Jobs : StartEnqueue(r, j) \/ StartUnanswered(r, j)
<1> SUFFICES P
  OBVIOUS
<1>1. request \in [Requests -> Request] /\ room \in Room
  BY DEF TypeInv, StateTypeOK
<1>2. ASSUME NEW d, SetRequest(r, d) PROVE \A q \in Requests \ {r} : request'[q] = request[q]
  BY <1>1, <1>2 DEF SetRequest
<1>3. Finish(r) => \A q \in Requests \ {r} : request'[q] = request[q]
  BY <1>2 DEF Finish
<1>4. CASE StartGeneration(r) \/ UploadGeneration(r) \/ RefreshPatches(r) \/ CancelGeneration(r)
           \/ StartCheck(r) \/ PatchesRead(r) \/ SwitchCheck(r)
  <2>1. \A q \in Requests \ {r} : request'[q] = request[q]
    BY <1>2, <1>3, <1>4 DEF StartGeneration, UploadGeneration, RefreshPatches, Begin, CancelGeneration,
       StartCheck, PatchesRead, SwitchCheck
  <2>2. UNCHANGED <<row, place, room, madeFrom>>
    BY <1>4 DEF StartGeneration, UploadGeneration, RefreshPatches, Begin, CancelGeneration,
       StartCheck, PatchesRead, SwitchCheck
  <2>3. QED BY <2>1, <2>2
<1>5. CASE StartInsert(r) \/ UploadInsert(r) \/ DeleteGeneration(r)
  <2>1. \A q \in Requests \ {r} : request'[q] = request[q]
    BY <1>2, <1>3, <1>5 DEF StartInsert, UploadInsert, DeleteGeneration
  <2>2. UNCHANGED <<place, room, madeFrom>> /\ (row' = row \/ row = None \/ DeleteGeneration(r))
    BY <1>5 DEF StartInsert, UploadInsert, DeleteGeneration, InsertRow
  <2>3. QED BY <2>1, <2>2
<1>6. CASE StartFreeze(r) \/ EditSave(r)
  <2>1. \A q \in Requests \ {r} : request'[q] = request[q]
    BY <1>2, <1>3, <1>6 DEF StartFreeze, EditSave
  <2>2. UNCHANGED <<row, place, madeFrom>>
    BY <1>6 DEF StartFreeze, EditSave
  <2>3. QED BY <1>6, <2>1, <2>2
<1>7. ASSUME NEW j \in Jobs, StartEnqueue(r, j) \/ StartUnanswered(r, j) \/ UploadWrite(r, j) PROVE P
  <2>1. \A q \in Requests \ {r} : request'[q] = request[q]
    BY <1>2, <1>3, <1>7 DEF StartEnqueue, StartUnanswered, UploadWrite
  <2>2. UNCHANGED <<row, room>> /\ (UploadWrite(r, j) => madeFrom' = madeFrom)
    BY <1>7 DEF StartEnqueue, StartUnanswered, UploadWrite
  <2>3. QED BY <1>7, <2>1, <2>2
<1>8. CASE CancelJob(r) \/ PatchesAssociate(r) \/ RequestFails(r)
  <2>1. \A q \in Requests \ {r} : request'[q] = request[q]
    BY <1>2, <1>3, <1>8 DEF CancelJob, PatchesAssociate, RequestFails
  <2>2. UNCHANGED <<row, room, madeFrom>> /\ (place' = place \/ CancelJob(r))
    BY <1>8 DEF CancelJob, PatchesAssociate, RequestFails
  <2>3. QED BY <2>1, <2>2
<1>9. CASE SwitchCommit(r)
  <2>1. \A q \in Requests \ {r} : request'[q] = request[q]
    BY <1>3, <1>9 DEF SwitchCommit
  <2>2. UNCHANGED <<row, place, madeFrom>> /\ room'.manifest = room.manifest
    BY <1>1, <1>9 DEF SwitchCommit, Room
  <2>3. QED BY <2>1, <2>2
<1>10. ASSUME NEW x, SwitchBase(r, x) \/ EditRoom(r, x) PROVE P
  <2>1. \A q \in Requests \ {r} : request'[q] = request[q]
    BY <1>2, <1>10 DEF SwitchBase, EditRoom
  <2>2. UNCHANGED <<row, place, room, madeFrom>>
    BY <1>10 DEF SwitchBase, EditRoom
  <2>3. QED BY <2>1, <2>2
<1> HIDE DEF P
<1>11. QED
  BY <1>4, <1>5, <1>6, <1>7, <1>8, <1>9, <1>10 DEF RequestStep

(* Where the statements leave their request.                               *)
LEMMA RequestGoesTo ==
  ASSUME TypeInv, NEW r \in Requests, RequestStep(r)
  PROVE  /\ request'[r].pc = "enqueue" => StartFreeze(r)
         /\ request'[r].pc = "delete" => CancelJob(r) /\ request'[r].job = request[r].job
         /\ request'[r].pc \in {"startCheck", "freeze"} =>
              \/ request'[r].room = room /\ UNCHANGED room
              \/ Reading(r) /\ request'[r].room = request[r].room /\ UNCHANGED room
<1> DEFINE l == request[r]
           m == request'[r]
           P == /\ m.pc = "enqueue" => StartFreeze(r)
                /\ m.pc = "delete" => CancelJob(r) /\ m.job = l.job
                /\ m.pc \in {"startCheck", "freeze"} =>
                     \/ m.room = room /\ UNCHANGED room
                     \/ Reading(r) /\ m.room = l.room /\ UNCHANGED room
<1> SUFFICES P
  OBVIOUS
<1>1. request \in [Requests -> Request] /\ room \in Room /\ l \in Request
  BY DEF TypeInv, StateTypeOK
<1>2. ASSUME NEW d, SetRequest(r, d) PROVE m = d
  BY <1>1, <1>2 DEF SetRequest
<1>3. Finish(r) => m.pc = "idle"
  BY <1>2 DEF Finish, Idle
<1>5. CASE StartGeneration(r)
  <2>1. m = [Idle EXCEPT !.pc = "startCheck", !.room = room]
    BY <1>2, <1>5 DEF StartGeneration, Begin
  <2>2. m.pc = "startCheck" /\ m.room = room /\ UNCHANGED room
    BY <1>5, <2>1 DEF Idle, StartGeneration, Begin
  <2>3. QED BY <2>2
<1>6. CASE UploadGeneration(r) \/ RefreshPatches(r)
  <2>1. m.pc \in {"uploadCheck", "read"}
    BY <1>2, <1>6 DEF UploadGeneration, RefreshPatches, Begin, Idle
  <2>2. QED BY <2>1
<1>7. ASSUME NEW x, CancelGeneration(r) \/ SwitchBase(r, x) \/ EditRoom(r, x) PROVE P
  <2>1. m.pc \in {"cancel", "switchCheck", "save"}
    BY <1>2, <1>7 DEF CancelGeneration, SwitchBase, EditRoom, Idle
  <2>2. QED BY <2>1
<1>8. CASE StartCheck(r)
  <2>1. m.pc = "idle" \/ (m.pc = "freeze" /\ m.room = l.room)
    BY <1>1, <1>2, <1>3, <1>8 DEF StartCheck, Request
  <2>2. UNCHANGED room /\ Reading(r)
    BY <1>8 DEF StartCheck, Reading
  <2>3. QED BY <2>1, <2>2
<1>9. CASE PatchesRead(r) \/ SwitchCheck(r) \/ UploadInsert(r)
  <2>1. m.pc \in {"idle", "associate", "switch", "read"}
    BY <1>1, <1>2, <1>3, <1>9 DEF PatchesRead, SwitchCheck, UploadInsert, Request
  <2>2. QED BY <2>1
<1>10. CASE StartFreeze(r)
  <2>1. m.pc = "enqueue"
    BY <1>1, <1>2, <1>10 DEF StartFreeze, Request, Room
  <2>2. QED BY <1>10, <2>1
<1>11. CASE CancelJob(r)
  <2>1. m.pc = "delete" /\ m.job = l.job
    BY <1>1, <1>2, <1>11 DEF CancelJob, Request
  <2>2. QED BY <1>11, <2>1
<1>12. ASSUME NEW j \in Jobs, StartEnqueue(r, j) \/ StartUnanswered(r, j) \/ UploadWrite(r, j) PROVE P
  <2>1. m.pc \in {"insert", "idle", "insertDone"}
    BY <1>1, <1>2, <1>3, <1>12 DEF StartEnqueue, StartUnanswered, UploadWrite, Request
  <2>2. QED BY <2>1
<1>13. CASE StartInsert(r) \/ DeleteGeneration(r) \/ PatchesAssociate(r) \/ SwitchCommit(r) \/ EditSave(r)
            \/ RequestFails(r)
  <2>1. m.pc = "idle"
    BY <1>3, <1>13 DEF StartInsert, DeleteGeneration, PatchesAssociate, SwitchCommit, EditSave, RequestFails
  <2>2. QED BY <2>1
<1> HIDE DEF P
<1>14. QED
  BY <1>5, <1>6, <1>7, <1>8, <1>9, <1>10, <1>11, <1>12, <1>13 DEF RequestStep

-----------------------------------------------------------------------------
(* A request that is about to delete the row has cancelled its job.        *)
CancelledIsGone ==
  \A r \in Requests : request[r].pc = "delete" => place[request[r].job] = "gone"

OwnerInv == TypeInv /\ NoOrphanJob /\ CancelledIsGone

LEMMA OwnerRequestStep ==
  ASSUME OwnerInv, NEW r \in Requests, RequestStep(r), Watch(r)
  PROVE  NoOrphanJob' /\ CancelledIsGone'
<1> USE GenerationAssumption, NoneIsNoRow
<1> DEFINE l == request[r]
<1>1. l \in Request /\ (l.pc \in HasJob => l.job \in Jobs)
  BY DEF OwnerInv, TypeInv, RequestsKnown, KnownRequest
<1>2. request \in [Requests -> Request] /\ place \in [Jobs -> Places]
  BY DEF OwnerInv, TypeInv, StateTypeOK
<1>3. \A q \in Requests \ {r} : request'[q] = request[q]
  BY RequestEffects DEF OwnerInv
<1>4. lost' = lost \cup {j \in Jobs : Leaves(r, j)}
  BY DEF Watch
<1>5. ASSUME NEW j \in Live', j \notin Live
      PROVE  (request'[r].pc = "insert" /\ request'[r].job = j) \/ j \in lost'
  <2>1. j \in Jobs
    BY DEF Live
  <2>2. place'[j] \in {"pending", "claimed"} /\ place[j] \notin {"pending", "claimed"}
    BY <1>5, <2>1 DEF Live
  <2>3. ~CancelJob(r)
    BY <1>2, <2>1, <2>2 DEF CancelJob, Move
  <2>4. PICK i \in Jobs : StartEnqueue(r, i) \/ StartUnanswered(r, i) \/ UploadWrite(r, i)
    BY <2>2, <2>3, RequestEffects DEF OwnerInv
  <2>5. CASE StartEnqueue(r, i)
    <3>1. i = j
      BY <1>2, <2>1, <2>2, <2>5 DEF StartEnqueue, Move
    <3>2. QED BY <1>1, <1>2, <2>5, <3>1 DEF StartEnqueue, SetRequest, Request
  <2>6. CASE StartUnanswered(r, i)
    <3>1. i = j /\ place[j] = "new" /\ place'[j] = "pending" /\ l.pc = "enqueue"
      BY <1>2, <2>1, <2>2, <2>6 DEF StartUnanswered, Move, Fresh
    <3>2. request'[r].pc = "idle"
      BY <1>2, <2>6 DEF StartUnanswered, Finish, SetRequest, Idle
    <3>3. Leaves(r, j)
      BY <3>1, <3>2 DEF Leaves
    <3>4. QED BY <1>4, <2>1, <3>3
  <2>7. ~UploadWrite(r, i)
    <3>1. UploadWrite(r, i) => place' = place \/ Move(i, "gone")
      BY DEF UploadWrite
    <3>2. QED BY <1>2, <2>1, <2>2, <3>1 DEF Move
  <2>8. QED BY <2>4, <2>5, <2>6, <2>7
<1>6. ASSUME NEW j \in Live' \cap Live
      PROVE  \/ row' # None /\ row'.job = j
             \/ \E q \in Requests : request'[q].pc = "insert" /\ request'[q].job = j
             \/ j \in lost'
  <2>1. j \in Jobs
    BY DEF Live
  <2>2. CASE row # None /\ row.job = j
    <3>1. CASE row' = row
      BY <2>2, <3>1
    <3>2. CASE DeleteGeneration(r)
      <4>1. l.pc = "delete" /\ row' = None
        BY <3>2 DEF DeleteGeneration
      <4>2. place[l.job] = "gone"
        BY <4>1 DEF OwnerInv, CancelledIsGone
      <4>3. l.job # j
        BY <4>2, <2>1 DEF Live
      <4>4. Leaves(r, j)
        BY <2>2, <4>1, <4>3 DEF Leaves
      <4>5. QED BY <1>4, <2>1, <4>4
    <3>3. QED BY <2>2, <3>1, <3>2, RequestEffects DEF OwnerInv
  <2>3. ASSUME NEW q \in Requests, request[q].pc = "insert", request[q].job = j
        PROVE  \/ row' # None /\ row'.job = j
               \/ \E p \in Requests : request'[p].pc = "insert" /\ request'[p].job = j
               \/ j \in lost'
    <3>1. CASE q # r
      BY <1>3, <2>3, <3>1
    <3>2. CASE q = r /\ (row' = None \/ row'.job # j)
      <4>1. Leaves(r, j)
        BY <2>3, <3>2 DEF Leaves
      <4>2. QED BY <1>4, <2>1, <4>1
    <3>3. QED BY <3>1, <3>2
  <2>4. QED BY <1>4, <2>2, <2>3 DEF OwnerInv, NoOrphanJob
<1>7. NoOrphanJob'
  BY <1>5, <1>6 DEF NoOrphanJob
<1>8. \A j \in Jobs : place[j] = "gone" => place'[j] = "gone"
  <2>1. CancelJob(r) => \A j \in Jobs : place[j] = "gone" => place'[j] = "gone"
    BY <1>2 DEF CancelJob, Move
  <2>2. ASSUME NEW i \in Jobs, StartEnqueue(r, i) \/ StartUnanswered(r, i)
        PROVE  \A j \in Jobs : place[j] = "gone" => place'[j] = "gone"
    BY <1>2, <2>2 DEF StartEnqueue, StartUnanswered, Fresh, Move
  <2>3. ASSUME NEW i \in Jobs, UploadWrite(r, i)
        PROVE  \A j \in Jobs : place[j] = "gone" => place'[j] = "gone"
    BY <1>2, <2>3 DEF UploadWrite, Move
  <2>4. QED BY <2>1, <2>2, <2>3, RequestEffects DEF OwnerInv
<1>9. ASSUME NEW q \in Requests, request'[q].pc = "delete" PROVE place'[request'[q].job] = "gone"
  <2>1. CASE q # r
    <3>1. request'[q] = request[q]
      BY <1>3, <2>1
    <3>2. request[q].job \in Jobs
      BY <1>9, <3>1 DEF OwnerInv, TypeInv, RequestsKnown, KnownRequest, HasJob
    <3>3. QED BY <1>8, <1>9, <3>1, <3>2 DEF OwnerInv, CancelledIsGone
  <2>2. CASE q = r
    <3>1. CancelJob(r) /\ request'[r].job = l.job
      BY <1>9, <2>2, RequestGoesTo DEF OwnerInv
    <3>2. l.job \in Jobs
      BY <1>1, <3>1 DEF CancelJob, HasJob
    <3>3. QED BY <1>2, <2>2, <3>1, <3>2 DEF CancelJob, Move
  <2>3. QED BY <2>1, <2>2
<1>10. QED BY <1>7, <1>9 DEF CancelledIsGone

(* Generators and callbacks take jobs out of the queue and leave the job   *)
(* of the row alone.                                                       *)
LEMMA OwnerJobStep ==
  ASSUME OwnerInv, NEW j \in Jobs, JobStep(j), UNCHANGED generationHistory
  PROVE  NoOrphanJob' /\ CancelledIsGone'
<1> USE GenerationAssumption, NoneIsNoRow
<1>1. place \in [Jobs -> Places] /\ row \in Generation \cup {None}
  BY DEF OwnerInv, TypeInv, StateTypeOK
<1>2. request' = request /\ lost' = lost
  BY DEF JobStep, Claim, Resolve, CallbackUpdate, CallbackRead, CallbackAssociate, generationHistory
<1>3. row # None => row' # None /\ row'.job = row.job
  <2>1. CASE CallbackUpdate(j)
    <3>1. SUFFICES ASSUME row # None PROVE row' \in Generation /\ row'.job = row.job
      OBVIOUS
    <3>2. row \in Generation
      BY <1>1, <3>1
    <3>3. QED BY <2>1, <3>1, <3>2 DEF CallbackUpdate, Generation, GenerationStatus
  <2>2. CASE UNCHANGED row
    BY <2>2
  <2>3. QED BY <2>1, <2>2 DEF JobStep, Claim, Resolve, CallbackRead, CallbackAssociate
<1>4. Live' \subseteq Live
  BY <1>1 DEF JobStep, Claim, Resolve, CallbackUpdate, CallbackRead, CallbackAssociate, Move, Live
<1>5. \A i \in Jobs : place[i] = "gone" => place'[i] = "gone"
  BY <1>1 DEF JobStep, Claim, Resolve, CallbackUpdate, CallbackRead, CallbackAssociate, Move
<1>6. NoOrphanJob'
  BY <1>2, <1>3, <1>4 DEF OwnerInv, NoOrphanJob
<1>7. \A r \in Requests : request[r].pc = "delete" => request[r].job \in Jobs
  BY DEF OwnerInv, TypeInv, RequestsKnown, KnownRequest, HasJob
<1>8. CancelledIsGone'
  BY <1>2, <1>5, <1>7 DEF OwnerInv, CancelledIsGone
<1>9. QED BY <1>6, <1>8

(* Whatever requests overlap, fail or lose the queue's answer, and         *)
(* whatever generators and callbacks do: a job in the queue that no row    *)
(* leads to was left there by a start that failed after it was queued, or  *)
(* its row was deleted by the cancel of another job.  A cancel that runs   *)
(* by itself leaves no job.                                                *)
THEOREM NoJobIsOrphaned == Spec => []NoOrphanJob
<1>1. Init => OwnerInv
  BY TypeInvInit DEF Init, OwnerInv, NoOrphanJob, CancelledIsGone, Live, Idle
<1>2. OwnerInv /\ [Next]_generationVars => OwnerInv'
  <2> SUFFICES ASSUME OwnerInv, [Next]_generationVars PROVE OwnerInv'
    OBVIOUS
  <2>1. TypeInv'
    BY TypeInvStep DEF OwnerInv
  <2>2. CASE UNCHANGED generationVars
    BY <2>1, <2>2 DEF generationVars, OwnerInv, NoOrphanJob, CancelledIsGone, Live
  <2>3. CASE Next
    BY <2>1, <2>3, OwnerRequestStep, OwnerJobStep DEF Next, OwnerInv
  <2>4. QED BY <2>2, <2>3
<1>3. OwnerInv => NoOrphanJob
  BY DEF OwnerInv
<1>4. QED BY <1>1, <1>2, <1>3, PTL DEF Spec

-----------------------------------------------------------------------------
(* A start that is not stale has read the manifest the room has; one that  *)
(* has frozen it, and every job, goes by a manifest that is no "Latest",   *)
(* and by the room's unless that was saved over since.                     *)
ReadIsFresh ==
  \A r \in Requests : Reading(r) /\ r \notin stale => request[r].room.manifest = room.manifest
StartHoldsManifest ==
  \A r \in Requests : request[r].pc = "enqueue" =>
    /\ request[r].room.manifest # None
    /\ r \notin overwritten => request[r].room.manifest = room.manifest
JobHoldsManifest ==
  \A j \in Jobs : madeFrom[j] # None =>
    /\ madeFrom[j].manifest # None
    /\ j \notin overwritten => room.manifest = madeFrom[j].manifest

ManifestInv == TypeInv /\ ReadIsFresh /\ StartHoldsManifest /\ JobHoldsManifest

LEMMA ManifestRequestStep ==
  ASSUME ManifestInv, NEW r \in Requests, RequestStep(r), Watch(r)
  PROVE  ReadIsFresh' /\ StartHoldsManifest' /\ JobHoldsManifest'
<1> USE GenerationAssumption
<1> DEFINE l == request[r]
           saves == room'.manifest # room.manifest
<1>1. /\ l \in Request /\ request \in [Requests -> Request]
      /\ madeFrom \in [Jobs -> Room \cup {None}] /\ room \in Room
  BY DEF ManifestInv, TypeInv, StateTypeOK
<1>2. \A q \in Requests \ {r} : request'[q] = request[q]
  BY RequestEffects DEF ManifestInv
(* What a freeze saves and keeps.                                          *)
<1>3. ASSUME StartFreeze(r)
      PROVE  /\ l.pc = "freeze" /\ madeFrom' = madeFrom
             /\ room'.manifest = Freeze(l.room.manifest, l.room.version) /\ room'.manifest # None
             /\ request'[r].pc = "enqueue" /\ request'[r].room.manifest = room'.manifest
  <2> DEFINE frozen == Freeze(l.room.manifest, l.room.version)
             d == [l EXCEPT !.pc = "enqueue", !.room.manifest = frozen]
  <2>1. d.pc = "enqueue" /\ d.room.manifest = frozen /\ frozen # None
    BY <1>1 DEF Request, Room, Freeze
  <2>2. room' = [room EXCEPT !.manifest = frozen] /\ SetRequest(r, d)
    BY <1>3 DEF StartFreeze
  <2> HIDE DEF d, frozen
  <2>3. room'.manifest = frozen /\ request'[r] = d
    BY <1>1, <2>2 DEF SetRequest, Room
  <2>4. l.pc = "freeze" /\ madeFrom' = madeFrom
    BY <1>3 DEF StartFreeze
  <2>5. QED BY <2>1, <2>3, <2>4 DEF frozen
<1>4. EditSave(r) => l.pc = "save" /\ madeFrom' = madeFrom
  BY DEF EditSave
<1>5. saves => StartFreeze(r) \/ EditSave(r)
  BY RequestEffects DEF ManifestInv
<1>6. Reading(r)' => ~saves
  BY RequestGoesTo DEF Reading, ManifestInv
<1>7. ASSUME NEW q \in Requests, Reading(q)', q \notin stale'
      PROVE  request'[q].room.manifest = room'.manifest
  <2>1. CASE saves
    <3>1. q # r
      BY <1>6, <1>7, <2>1
    <3>2. Reading(q)
      BY <1>2, <1>7, <3>1 DEF Reading
    <3>3. stale' = {p \in Requests \ {r} : Reading(p)}
      BY <2>1 DEF Watch
    <3>4. QED BY <1>7, <3>1, <3>2, <3>3
  <2>2. CASE ~saves /\ q # r
    <3>1. Reading(q) /\ request'[q] = request[q]
      BY <1>2, <1>7, <2>2 DEF Reading
    <3>2. stale' \in {stale, stale \ {r}}
      BY <2>2 DEF Watch
    <3>3. q \notin stale
      BY <1>7, <2>2, <3>2
    <3>4. QED BY <2>2, <3>1, <3>3 DEF ManifestInv, ReadIsFresh
  <2>3. CASE ~saves /\ q = r
    <3>1. stale' = stale
      BY <1>7, <2>3 DEF Watch
    <3>2. CASE request'[r].room = room /\ UNCHANGED room
      BY <2>3, <3>2
    <3>3. CASE Reading(r) /\ request'[r].room = l.room /\ UNCHANGED room
      BY <1>7, <2>3, <3>1, <3>3 DEF ManifestInv, ReadIsFresh
    <3>4. QED BY <1>7, <2>3, <3>2, <3>3, RequestGoesTo DEF Reading, ManifestInv
  <2>4. QED BY <2>1, <2>2, <2>3
(* Who is not known to be saved over still has the room's manifest: the    *)
(* freeze of a start that has read the present one does not change it,     *)
(* unless it was "Latest", which nobody goes by.                           *)
<1>8. ASSUME NEW x \in Frozen \ overwritten', NEW held, held # None,
             x \notin overwritten => held = room.manifest
      PROVE  x = r \/ held = room'.manifest
  <2>1. CASE saves /\ (l.pc = "save" \/ r \in stale)
    <3>1. l.pc # "enqueue"
      BY <1>3, <1>4, <1>5, <2>1
    <3>2. overwritten' = overwritten \cup Frozen
      BY <2>1, <3>1 DEF Watch
    <3>3. QED BY <1>8, <3>2
  <2>2. CASE saves /\ ~(l.pc = "save" \/ r \in stale)
    <3>1. StartFreeze(r) /\ r \notin stale
      BY <1>4, <1>5, <2>2
    <3>2. l.pc = "freeze" /\ l.room.manifest = room.manifest
      BY <1>3, <3>1 DEF ManifestInv, ReadIsFresh, Reading
    <3>3. room.manifest = None
      BY <1>3, <2>2, <3>1, <3>2 DEF Freeze
    <3>4. overwritten' = overwritten
      BY <2>2, <3>2 DEF Watch
    <3>5. QED BY <1>8, <3>3, <3>4
  <2>3. CASE ~saves
    <3>1. x # r => (x \notin overwritten' => x \notin overwritten)
      BY <2>3 DEF Watch
    <3>2. QED BY <1>8, <2>3, <3>1
  <2>4. QED BY <2>1, <2>2, <2>3
<1>9. ASSUME NEW q \in Requests, request'[q].pc = "enqueue"
      PROVE  /\ request'[q].room.manifest # None
             /\ q \notin overwritten' => request'[q].room.manifest = room'.manifest
  <2>1. CASE q = r
    BY <1>3, <1>9, <2>1, RequestGoesTo DEF ManifestInv
  <2>2. CASE q # r
    <3>1. request'[q] = request[q] /\ q \in Frozen
      BY <1>2, <1>9, <2>2 DEF Frozen
    <3>2. /\ request[q].room.manifest # None
          /\ q \notin overwritten => request[q].room.manifest = room.manifest
      BY <1>9, <3>1 DEF ManifestInv, StartHoldsManifest
    <3>3. QED BY <1>8, <2>2, <3>1, <3>2
  <2>3. QED BY <2>1, <2>2
<1>10. ASSUME NEW j \in Jobs, madeFrom'[j] # None
       PROVE  /\ madeFrom'[j].manifest # None
              /\ j \notin overwritten' => room'.manifest = madeFrom'[j].manifest
  <2>1. CASE madeFrom'[j] = madeFrom[j]
    <3>1. j \in Frozen
      BY <1>10, <2>1 DEF Frozen
    <3>2. /\ madeFrom[j].manifest # None
          /\ j \notin overwritten => room.manifest = madeFrom[j].manifest
      BY <1>10, <2>1 DEF ManifestInv, JobHoldsManifest
    <3>3. QED BY <1>8, <2>1, <3>1, <3>2
  <2>2. CASE madeFrom'[j] # madeFrom[j]
    <3>1. PICK i \in Jobs : StartEnqueue(r, i) \/ StartUnanswered(r, i)
      BY <2>2, RequestEffects DEF ManifestInv
    <3>2. /\ madeFrom' = [madeFrom EXCEPT ![i] = l.room] /\ l.pc = "enqueue" /\ room' = room
      BY <3>1 DEF StartEnqueue, StartUnanswered
    <3>3. madeFrom'[j] = l.room
      BY <1>1, <2>2, <3>2
    <3>4. l.room.manifest # None /\ (r \notin overwritten => l.room.manifest = room.manifest)
      BY <3>2 DEF ManifestInv, StartHoldsManifest
    <3>5. r \in overwritten => j \in overwritten'
      BY <2>2, <3>2 DEF Watch
    <3>6. QED BY <3>2, <3>3, <3>4, <3>5
  <2>3. QED BY <2>1, <2>2
<1>11. QED BY <1>7, <1>9, <1>10 DEF ReadIsFresh, StartHoldsManifest, JobHoldsManifest

(* Whatever requests overlap and fail: the manifest of a room with a       *)
(* generation is the one its job was made from, unless since then an edit, *)
(* or a start that had read the room before, saved another.                *)
THEOREM ManifestIsThatOfTheGeneration == Spec => []ManifestOfGeneration
<1>1. Init => ManifestInv
  BY TypeInvInit
  DEF Init, ManifestInv, ReadIsFresh, StartHoldsManifest, JobHoldsManifest, Reading, Idle
<1>2. ManifestInv /\ [Next]_generationVars => ManifestInv'
  <2> SUFFICES ASSUME ManifestInv, [Next]_generationVars PROVE ManifestInv'
    OBVIOUS
  <2>1. TypeInv'
    BY TypeInvStep DEF ManifestInv
  <2>2. CASE UNCHANGED generationVars
    BY <2>1, <2>2
    DEF generationVars, ManifestInv, ReadIsFresh, StartHoldsManifest, JobHoldsManifest, Reading
  <2>3. ASSUME NEW j \in Jobs, JobStep(j), UNCHANGED generationHistory PROVE ManifestInv'
    <3>1. UNCHANGED <<request, room, madeFrom, stale, overwritten>>
      BY <2>3
      DEF JobStep, Claim, Resolve, CallbackUpdate, CallbackRead, CallbackAssociate, generationHistory
    <3>2. QED
      BY <2>1, <3>1 DEF ManifestInv, ReadIsFresh, StartHoldsManifest, JobHoldsManifest, Reading
  <2>4. QED BY <2>1, <2>2, <2>3, ManifestRequestStep DEF Next, ManifestInv
<1>3. ManifestInv => ManifestOfGeneration
  <2>1. row # None => row.job \in Jobs \/ ~TypeInv
    BY DEF TypeInv, StateTypeOK, Generation
  <2>2. QED BY <2>1 DEF ManifestInv, JobHoldsManifest, ManifestOfGeneration
<1>4. QED BY <1>1, <1>2, <1>3, PTL DEF Spec

-----------------------------------------------------------------------------
(* Sessions                                                                *)

Cookie == Session \cup OldSession \cup {None}
Serving == {"act", "shown", "create", "upserted"}
TabRequest ==
  [pc : Serving \cup {"idle", "sent", "answered"}, kind : S!RequestKinds \cup {None}, token : BOOLEAN,
   ck : Cookie, session : Session \cup {None}, sets : Session \cup {None, Gone}, id : Users \cup {None},
   told : BOOLEAN, shown : BOOLEAN]

SessionsTypeOK ==
  /\ config \in Configs /\ cookie \in Cookie
  /\ users \in [Users -> BOOLEAN \cup {None}] /\ errors \subseteq Nat
  /\ tab \in [Tabs -> TabRequest] /\ used \in Nat
  /\ owed \in BOOLEAN /\ overlapped \in BOOLEAN /\ operator \in BOOLEAN
  /\ admins \subseteq Users /\ config.admins \subseteq admins

(* Whether the guards give the request of a cookie a session of its own.   *)
Renewed(ck, cfg) == ck = None \/ ck.uuid = None \/ ck.user \in cfg.banned
Honest(s, adm) == s.admin => s.user \in adm

(* What a request is served for is the cookie it came with, or a new       *)
(* session that its answer sets; the operator's token sets nothing.        *)
FromCookie(x, cfg) ==
  IF x.token THEN x.sets = None /\ x.session.user = None
  ELSE IF Renewed(x.ck, cfg) THEN x.sets = x.session ELSE x.sets = None /\ x.session = x.ck

TabOK(x, cfg, adm) ==
  /\ x.pc \in Serving =>
       /\ x.session \in Session /\ x.session.user \notin cfg.banned /\ FromCookie(x, cfg)
       /\ ~x.token => Honest(x.session, adm)
  /\ (x.token /\ x.kind \in {"login", "callback"}) => None \in adm
  /\ x.pc = "upserted" => x.id \in Users
  /\ x.pc = "upserted" => x.kind = "callback"
  /\ x.ck # None => Honest(x.ck, adm)
  /\ x.sets \notin {None, Gone} => Honest(x.sets, adm)

(* A message waits for the browser under the session of its cookie c.      *)
Waits(c, es) == c # None /\ c.uuid \in es

(* What leads a message to the browser, of the only request under way.     *)
Leads(x, c, es, o) ==
  /\ x.pc \in Serving \cup {"sent"} => x.ck = c
  /\ (o /\ ~(x.pc = "answered" /\ x.shown)) => Waits(c, es)
  /\ (x.pc \in Serving /\ ~x.token /\ o) => x.session.uuid \in es
  /\ x.pc = "shown" => (x.shown <=> x.session.uuid \in es)
  /\ x.pc = "answered" =>
       /\ x.told => IF x.sets = None THEN Waits(c, es) ELSE x.sets # Gone /\ x.sets.uuid \in es
       /\ (o /\ ~x.shown /\ x.sets \notin {None, Gone}) => x.sets.uuid \in es

(* Requests that do not overlap, of a browser that never went to log in    *)
(* with the operator's token                                               *)
Plain == ~overlapped /\ ~operator

MessagesLead ==
  Plain =>
    /\ \A s, t \in Tabs : (tab[s] # S!Idle /\ tab[t] # S!Idle) => s = t
    /\ \A t \in Tabs : tab[t] # S!Idle => Leads(tab[t], cookie, errors, owed)
    /\ (owed /\ \A t \in Tabs : tab[t] = S!Idle) => Waits(cookie, errors)

SessionsInv ==
  /\ SessionsTypeOK
  /\ \A t \in Tabs : TabOK(tab[t], config, S!Entitled)
  /\ cookie # None => Honest(cookie, S!Entitled)
  /\ MessagesLead

LEMMA IdleTab == S!Idle \in TabRequest /\ TabOK(S!Idle, config, S!Entitled) /\ S!Idle.pc = "idle"
  BY DEF S!Idle, TabRequest, TabOK, Serving, Cookie

(* from_request_sync: the session of a request, and what its answer sets.  *)
LEMMA FromRequestOK ==
  ASSUME config \in Configs, NEW ck \in Cookie, NEW token \in BOOLEAN, NEW uuid \in Nat,
         NEW e, e = S!FromRequest(ck, token, uuid)
  PROVE  /\ e.session \in Session /\ e.session.user \notin config.banned
         /\ e.unwelcome \in BOOLEAN
         /\ token => e.sets = None /\ e.session.user = None /\ e.session.admin /\ ~e.unwelcome
         /\ ~token => /\ Renewed(ck, config) => e.sets = e.session
                      /\ ~Renewed(ck, config) => e.sets = None /\ e.session = ck
                      /\ e.unwelcome <=> (ck # None /\ ck.user \in config.banned)
                      /\ \A adm : (ck # None => Honest(ck, adm)) => Honest(e.session, adm)
<1> USE SessionAssumption
<1>1. /\ S!NewSession(uuid) \in Session /\ S!NewSession(uuid).user = None /\ ~S!NewSession(uuid).admin
      /\ S!TokenSession(uuid) \in Session /\ S!TokenSession(uuid).user = None /\ S!TokenSession(uuid).admin
  BY DEF S!NewSession, S!TokenSession, Session
<1>2. None \notin config.banned
  OBVIOUS
<1> DEFINE p == S!Parsed(ck, token, uuid)
<1>3. CASE token
  <2>1. p = [session |-> S!TokenSession(uuid), sets |-> None, unwelcome |-> FALSE]
    BY <1>3 DEF S!Parsed
  <2>2. p.session = S!TokenSession(uuid) /\ p.sets = None /\ p.unwelcome = FALSE
    BY <2>1
  <2>3. e = p
    BY <1>1, <1>2, <2>2 DEF S!FromRequest
  <2> HIDE DEF p
  <2> QED BY <1>1, <1>2, <1>3, <2>2, <2>3
<1>4. CASE ~token /\ ck = None
  <2>1. S!NewSession(uuid) # ck
    BY <1>1, <1>4
  <2>2. p = [session |-> S!NewSession(uuid), sets |-> S!NewSession(uuid), unwelcome |-> FALSE]
    BY <1>4, <2>1 DEF S!Parsed
  <2>3. p.session = S!NewSession(uuid) /\ p.sets = p.session /\ p.unwelcome = FALSE
    BY <2>2
  <2>4. e = p
    BY <1>1, <1>2, <2>3 DEF S!FromRequest
  <2> HIDE DEF p
  <2> QED BY <1>1, <1>2, <1>4, <2>3, <2>4 DEF Renewed, Honest
<1>5. CASE ~token /\ ck # None
  <2> DEFINE found == IF ck.uuid = None THEN [ck EXCEPT !.uuid = uuid] ELSE ck
  <2>1. ck \in Session \cup OldSession
    BY <1>5 DEF Cookie
  <2>2. /\ found \in Session /\ found.user = ck.user /\ found.admin = ck.admin
        /\ ck.uuid = None => found # ck
    BY <2>1 DEF Session, OldSession
  <2>3. p = [session |-> found, sets |-> IF found = ck THEN None ELSE found, unwelcome |-> FALSE]
    BY <1>5 DEF S!Parsed
  <2>4. /\ p.session = found /\ p.unwelcome = FALSE
        /\ p.sets = IF found = ck THEN None ELSE found
    BY <2>3
  <2>5. ck.uuid # None => found = ck
    OBVIOUS
  <2> HIDE DEF found, p
  <2>6. CASE ck.user \in config.banned
    <3>1. e = [session |-> S!NewSession(uuid), sets |-> S!NewSession(uuid), unwelcome |-> TRUE]
      BY <2>2, <2>4, <2>6 DEF S!FromRequest, p
    <3>2. e.session = S!NewSession(uuid) /\ e.sets = e.session /\ e.unwelcome = TRUE
      BY <3>1
    <3> QED BY <1>1, <1>2, <1>5, <2>6, <3>2 DEF Renewed, Honest
  <2>7. CASE ck.user \notin config.banned
    <3>1. e = p
      BY <2>2, <2>4, <2>7 DEF S!FromRequest, p
    <3> QED BY <1>5, <2>2, <2>4, <2>5, <2>7, <3>1 DEF Renewed, Honest
  <2> QED BY <2>6, <2>7
<1> QED BY <1>3, <1>4, <1>5

LEMMA SessionsInitially == S!Init => SessionsInv
<1> SUFFICES ASSUME S!Init PROVE SessionsInv
  OBVIOUS
<1> USE SessionAssumption
<1>1. config \in Configs /\ cookie \in Cookie /\ (cookie # None => Honest(cookie, config.admins))
  BY DEF S!Init, Cookie, Honest
<1>2. config.admins \subseteq Users /\ admins = config.admins
  BY <1>1 DEF S!Init
<1>3. users \in [Users -> BOOLEAN \cup {None}]
  BY DEF S!Init
<1>4. SessionsTypeOK
  BY <1>1, <1>2, <1>3, IdleTab DEF S!Init, SessionsTypeOK
<1>5. MessagesLead
  BY DEF S!Init, MessagesLead
<1> QED BY <1>1, <1>2, <1>4, <1>5, IdleTab DEF S!Init, SessionsInv, S!Entitled, Honest

LEMMA EntitledSame ==
  ASSUME UNCHANGED <<admins, operator>>
  PROVE  S!Entitled' = S!Entitled
  BY DEF S!Entitled

LEMMA PlainEntitled ==
  ASSUME SessionsInv, Plain
  PROVE  None \notin S!Entitled
  BY SessionAssumption DEF SessionsInv, SessionsTypeOK, Plain, S!Entitled

(* A step of the request of one tab keeps the invariant if what it leaves  *)
(* of the request is as it should be.                                      *)
LEMMA TabMoves ==
  ASSUME SessionsInv, NEW t \in Tabs, tab[t].pc # "idle", NEW x \in TabRequest, S!Become(t, x), x.pc # "idle",
         S!Others, owed' \in BOOLEAN,
         errors' \subseteq Nat, used' \in Nat, users' \in [Users -> BOOLEAN \cup {None}],
         TabOK(x, config, S!Entitled), Plain => Leads(x, cookie, errors', owed')
  PROVE  SessionsInv'
<1>1. tab' = [tab EXCEPT ![t] = x] /\ tab \in [Tabs -> TabRequest]
  BY DEF S!Become, SessionsInv, SessionsTypeOK
<1>2. tab'[t] = x /\ (\A s \in Tabs : s # t => tab'[s] = tab[s]) /\ tab' \in [Tabs -> TabRequest]
  BY <1>1
<1>3. UNCHANGED <<config, cookie, overlapped, operator, admins>> /\ S!Entitled' = S!Entitled /\ Plain' = Plain
  BY EntitledSame DEF S!Others, Plain
<1>4. tab[t] # S!Idle /\ x # S!Idle
  BY IdleTab
<1>5. SessionsTypeOK'
  BY <1>2, <1>3 DEF SessionsInv, SessionsTypeOK
<1>6. \A s \in Tabs : TabOK(tab'[s], config, S!Entitled)
  BY <1>2 DEF SessionsInv
<1>7. MessagesLead'
  BY <1>2, <1>3, <1>4 DEF MessagesLead, SessionsInv
<1> QED BY <1>3, <1>5, <1>6, <1>7 DEF SessionsInv

LEMMA TabStepOK ==
  ASSUME SessionsInv, NEW t \in Tabs, tab[t].pc # "idle", NEW x \in TabRequest, S!Become(t, x), x.pc # "idle",
         S!Same, errors' \subseteq Nat, used' \in Nat, users' \in [Users -> BOOLEAN \cup {None}],
         TabOK(x, config, S!Entitled), Plain => Leads(x, cookie, errors', owed)
  PROVE  SessionsInv'
<1>1. S!Others /\ owed' = owed /\ owed' \in BOOLEAN
  BY DEF S!Same, SessionsInv, SessionsTypeOK
<1> QED BY <1>1, TabMoves

(* What the invariant says of the request of a tab                         *)
LEMMA TabFacts ==
  ASSUME SessionsInv, NEW t \in Tabs, tab[t].pc # "idle"
  PROVE  /\ tab[t] \in TabRequest /\ TabOK(tab[t], config, S!Entitled) /\ tab[t] # S!Idle
         /\ Plain => Leads(tab[t], cookie, errors, owed)
         /\ config \in Configs /\ used \in Nat /\ errors \subseteq Nat /\ users \in [Users -> BOOLEAN \cup {None}]
         /\ owed \in BOOLEAN /\ overlapped \in BOOLEAN /\ cookie \in Cookie
  BY IdleTab DEF SessionsInv, SessionsTypeOK, MessagesLead

(* The session a request is given, and the one its error is given.         *)
LEMMA SecondOK ==
  ASSUME SessionsInv, NEW t \in Tabs, tab[t].pc # "idle", NEW taken \in Nat, NEW e, e = S!Second(t, taken)
  PROVE  /\ e.session \in Session /\ e.session.user \notin config.banned
         /\ e.unwelcome \in BOOLEAN /\ e.sets \in Session \cup {None} /\ e.session.uuid \in Nat
         /\ S!Taken(e, taken) \in Nat /\ S!Pushed(e) \subseteq Nat /\ S!Unwelcome(e) \subseteq SUBSET Nat
         /\ tab[t].token => e.sets = None /\ e.session.user = None /\ e.session.admin /\ ~e.unwelcome
         /\ ~tab[t].token =>
              /\ Renewed(tab[t].ck, config) => e.sets = e.session
              /\ ~Renewed(tab[t].ck, config) => e.sets = None /\ e.session = tab[t].ck
              /\ e.unwelcome <=> (tab[t].ck # None /\ tab[t].ck.user \in config.banned)
              /\ Honest(e.session, S!Entitled)
<1>1. tab[t] \in TabRequest /\ TabOK(tab[t], config, S!Entitled) /\ config \in Configs
  BY TabFacts
<1>2. tab[t].ck \in Cookie /\ tab[t].token \in BOOLEAN /\ (tab[t].ck # None => Honest(tab[t].ck, S!Entitled))
  BY <1>1 DEF TabRequest, TabOK
<1>3. e = S!FromRequest(tab[t].ck, tab[t].token, taken + 1) /\ taken + 1 \in Nat
  BY DEF S!Second
<1>4. /\ e.session \in Session /\ e.session.user \notin config.banned
      /\ e.unwelcome \in BOOLEAN
      /\ tab[t].token => e.sets = None /\ e.session.user = None /\ e.session.admin /\ ~e.unwelcome
      /\ ~tab[t].token =>
           /\ Renewed(tab[t].ck, config) => e.sets = e.session
           /\ ~Renewed(tab[t].ck, config) => e.sets = None /\ e.session = tab[t].ck
           /\ e.unwelcome <=> (tab[t].ck # None /\ tab[t].ck.user \in config.banned)
           /\ \A adm : (tab[t].ck # None => Honest(tab[t].ck, adm)) => Honest(e.session, adm)
  <2>1. config \in Configs /\ tab[t].ck \in Cookie /\ tab[t].token \in BOOLEAN
    BY <1>1, <1>2
  <2> QED BY <2>1, <1>3, FromRequestOK
<1>5. e.session.uuid \in Nat
  BY <1>4 DEF Session
<1>6. e.sets \in Session \cup {None}
  BY <1>2, <1>4
<1>7. S!Taken(e, taken) \in Nat /\ S!Pushed(e) \subseteq Nat /\ S!Unwelcome(e) \subseteq SUBSET Nat
  BY <1>5 DEF S!Taken, S!Pushed, S!Unwelcome
<1> QED BY <1>2, <1>4, <1>5, <1>6, <1>7

Answered(sets, told, shown) ==
  [S!Idle EXCEPT !.pc = "answered", !.sets = sets, !.told = told, !.shown = shown]

(* What of an answer has to be shown                                       *)
LEMMA AnswerMoves ==
  ASSUME SessionsInv, NEW t \in Tabs, tab[t].pc # "idle",
         NEW sets \in Session \cup {None, Gone}, NEW told \in BOOLEAN, NEW shown \in BOOLEAN,
         S!Answer(t, sets, told, shown),
         S!Others, owed' \in BOOLEAN,
         errors' \subseteq Nat, used' \in Nat, users' \in [Users -> BOOLEAN \cup {None}],
         sets \notin {None, Gone} => Honest(sets, S!Entitled),
         Plain =>
           /\ (owed' /\ ~shown) => Waits(cookie, errors')
           /\ told => IF sets = None THEN Waits(cookie, errors') ELSE sets # Gone /\ sets.uuid \in errors'
           /\ (owed' /\ ~shown /\ sets \notin {None, Gone}) => sets.uuid \in errors'
  PROVE  SessionsInv'
<1>0. PICK x : x = Answered(sets, told, shown)
  OBVIOUS
<1>1. /\ x \in TabRequest /\ x.pc = "answered" /\ x.sets = sets /\ x.told = told /\ x.shown = shown
      /\ x.ck = None /\ x.token = FALSE
  BY <1>0, IdleTab DEF Answered, TabRequest, S!Idle
<1>2. S!Become(t, x)
  BY <1>0 DEF S!Answer, Answered
<1>3. TabOK(x, config, S!Entitled)
  BY <1>1 DEF TabOK, Serving
<1>4. Plain => Leads(x, cookie, errors', owed')
  BY <1>1 DEF Leads, Serving
<1> QED BY <1>1, <1>2, <1>3, <1>4, TabMoves

LEMMA AnswerStep ==
  ASSUME SessionsInv, NEW t \in Tabs, tab[t].pc # "idle",
         NEW sets \in Session \cup {None, Gone}, NEW told \in BOOLEAN, NEW shown \in BOOLEAN,
         S!Answer(t, sets, told, shown),
         S!Same, errors' \subseteq Nat, used' \in Nat, users' \in [Users -> BOOLEAN \cup {None}],
         sets \notin {None, Gone} => Honest(sets, S!Entitled),
         Plain =>
           /\ (owed /\ ~shown) => Waits(cookie, errors')
           /\ told => IF sets = None THEN Waits(cookie, errors') ELSE sets # Gone /\ sets.uuid \in errors'
           /\ (owed /\ ~shown /\ sets \notin {None, Gone}) => sets.uuid \in errors'
  PROVE  SessionsInv'
<1>1. S!Others /\ owed' = owed /\ owed' \in BOOLEAN
  BY DEF S!Same, SessionsInv, SessionsTypeOK
<1> QED BY <1>1, AnswerMoves

-----------------------------------------------------------------------------
(* A request is sent.                                                      *)
LEMMA SendOK ==
  ASSUME SessionsInv, NEW t \in Tabs, NEW kind \in S!RequestKinds, NEW token \in BOOLEAN, S!Send(t, kind, token)
  PROVE  SessionsInv'
<1>0. PICK x : x = [S!Idle EXCEPT !.pc = "sent", !.kind = kind, !.token = token, !.ck = cookie]
  OBVIOUS
<1>1. /\ SessionsTypeOK /\ tab[t] = S!Idle /\ tab' = [tab EXCEPT ![t] = x]
      /\ UNCHANGED <<config, cookie, users, errors, used, owed, admins>>
      /\ operator' = (operator \/ (token /\ kind \in {"login", "callback"}))
  BY <1>0 DEF SessionsInv, S!Send, S!Become
<1>2. /\ x \in TabRequest /\ x.pc = "sent" /\ x.kind = kind /\ x.token = token /\ x.ck = cookie
      /\ x.sets = None
  BY <1>0, <1>1, IdleTab DEF SessionsTypeOK, TabRequest, S!Idle
<1>3. tab'[t] = x /\ (\A s \in Tabs : s # t => tab'[s] = tab[s]) /\ tab' \in [Tabs -> TabRequest]
  BY <1>1, <1>2 DEF SessionsTypeOK
<1>4. /\ overlapped' \in BOOLEAN /\ operator' \in BOOLEAN
      /\ Plain' => Plain /\ \A s \in Tabs : tab[s] = S!Idle
  BY <1>1 DEF S!Send, Plain
<1>5. SessionsTypeOK'
  BY <1>1, <1>3, <1>4 DEF SessionsTypeOK
<1>6. /\ S!Entitled \subseteq S!Entitled'
      /\ token /\ kind \in {"login", "callback"} => None \in S!Entitled'
  BY <1>1 DEF S!Entitled
<1>a. /\ cookie # None => Honest(cookie, S!Entitled')
      /\ \A s \in Tabs : TabOK(tab[s], config, S!Entitled')
  BY <1>6 DEF SessionsInv, Honest, TabOK
<1>b. TabOK(x, config, S!Entitled')
  BY <1>2, <1>6, <1>a DEF TabOK, Serving
<1>7. (Plain' /\ owed) => Waits(cookie, errors)
  BY <1>4 DEF SessionsInv, MessagesLead
<1>8. Plain' => Leads(x, cookie, errors, owed)
  BY <1>2, <1>7 DEF Leads, Serving
<1>9. MessagesLead'
  BY <1>1, <1>2, <1>3, <1>4, <1>8, IdleTab DEF MessagesLead
<1>10. \A s \in Tabs : TabOK(tab'[s], config, S!Entitled')
  BY <1>3, <1>a, <1>b
<1> QED BY <1>1, <1>5, <1>9, <1>10, <1>a DEF SessionsInv

(* What a cookie with a message that waits comes to: the message is under  *)
(* the session that the request is given.                                  *)
LEMMA OwedSession ==
  ASSUME SessionsInv, NEW t \in Tabs, tab[t].pc = "sent", Plain, owed, ~tab[t].token,
         NEW e, NEW taken \in Nat, e = S!Second(t, taken)
  PROVE  /\ Waits(cookie, errors)
         /\ ~e.unwelcome => e.sets = None /\ e.session.uuid \in errors
<1>1. /\ tab[t].ck = cookie /\ Waits(cookie, errors) /\ errors \subseteq Nat
  BY TabFacts DEF Leads, Serving
<1>2. cookie # None /\ cookie.uuid # None
  BY <1>1, SessionAssumption DEF Waits
<1>3. /\ Renewed(tab[t].ck, config) => e.sets = e.session
      /\ ~Renewed(tab[t].ck, config) => e.sets = None /\ e.session = tab[t].ck
      /\ e.unwelcome <=> (tab[t].ck # None /\ tab[t].ck.user \in config.banned)
  BY SecondOK
<1>4. ~e.unwelcome => ~Renewed(tab[t].ck, config)
  BY <1>1, <1>2, <1>3 DEF Renewed
<1> QED BY <1>1, <1>3, <1>4 DEF Waits

LEMMA GuardOK ==
  ASSUME SessionsInv, NEW t \in Tabs, S!Guard(t)
  PROVE  SessionsInv'
<1>0. PICK e : e = S!First(t)
  OBVIOUS
<1>1. /\ tab[t].pc = "sent" /\ S!Others /\ UNCHANGED users /\ e = S!Second(t, used)
      /\ owed' = (owed /\ ~e.unwelcome)
  BY <1>0 DEF S!Guard, S!First, S!Second
<1>2. /\ tab[t] \in TabRequest /\ TabOK(tab[t], config, S!Entitled) /\ used \in Nat /\ errors \subseteq Nat
      /\ Plain => Leads(tab[t], cookie, errors, owed)
      /\ users \in [Users -> BOOLEAN \cup {None}] /\ owed' \in BOOLEAN
  BY <1>1, TabFacts
<1>3. /\ e.session \in Session /\ e.session.user \notin config.banned
      /\ e.unwelcome \in BOOLEAN /\ e.sets \in Session \cup {None}
      /\ S!Taken(e, used) \in Nat /\ S!Unwelcome(e) \subseteq SUBSET Nat
      /\ tab[t].token => e.sets = None /\ e.session.user = None /\ e.session.admin /\ ~e.unwelcome
      /\ ~tab[t].token =>
           /\ Renewed(tab[t].ck, config) => e.sets = e.session
           /\ ~Renewed(tab[t].ck, config) => e.sets = None /\ e.session = tab[t].ck
           /\ e.unwelcome <=> (tab[t].ck # None /\ tab[t].ck.user \in config.banned)
           /\ Honest(e.session, S!Entitled)
  BY <1>1, <1>2, SecondOK
<1>4. CASE S!Passes(tab[t].kind, e.session)
  <2>0. PICK x : x = [tab[t] EXCEPT !.pc = "act", !.session = e.session, !.sets = e.sets]
    OBVIOUS
  <2>a. PICK p \in S!Unwelcome(e) : errors' = errors \cup p
    BY <1>0, <1>4 DEF S!Guard
  <2>1. S!Become(t, x) /\ errors \subseteq errors' /\ errors' \subseteq Nat /\ used' = S!Taken(e, used)
    BY <1>0, <1>2, <1>3, <1>4, <2>0, <2>a DEF S!Guard
  <2>2. /\ x \in TabRequest /\ x.pc = "act" /\ x.session = e.session /\ x.sets = e.sets
        /\ x.ck = tab[t].ck /\ x.token = tab[t].token /\ x.kind = tab[t].kind
    BY <1>2, <1>3, <2>0 DEF TabRequest, Serving
  <2>3. TabOK(x, config, S!Entitled)
    BY <1>1, <1>2, <1>3, <2>2, SessionAssumption DEF TabOK, FromCookie, Serving, Honest
  <2>4. ASSUME Plain PROVE Leads(x, cookie, errors', owed')
    <3>1. x.ck = cookie /\ (owed => Waits(cookie, errors))
      BY <1>1, <1>2, <2>2, <2>4 DEF Leads, Serving
    <3>2. (owed' /\ ~x.token) => x.session.uuid \in errors'
      BY <1>1, <1>2, <2>1, <2>2, <2>4, OwedSession
    <3> QED BY <1>1, <2>1, <2>2, <3>1, <3>2 DEF Leads, Waits
  <2> QED BY <1>1, <1>2, <1>3, <2>1, <2>2, <2>3, <2>4, TabMoves
<1>5. CASE ~S!Passes(tab[t].kind, e.session)
  <2>0. PICK again : again = S!Second(t, S!Taken(e, used))
    OBVIOUS
  <2> DEFINE Pushes(q) == IF again.session.in THEN S!Pushed(again) ELSE q
  <2>b. PICK p \in S!Unwelcome(e), q \in S!Unwelcome(again) :
          /\ errors' = errors \cup p \cup Pushes(q)
          /\ used' = S!Taken(again, S!Taken(e, used))
          /\ S!Answer(t, again.sets, Pushes(q) # {}, FALSE)
    BY <1>0, <1>5, <2>0 DEF S!Guard, S!Unauthorized
  <2>a. PICK pushed :
          /\ pushed = Pushes(q)
          /\ errors' = errors \cup p \cup pushed
          /\ used' = S!Taken(again, S!Taken(e, used))
          /\ S!Answer(t, again.sets, pushed # {}, FALSE)
    BY <2>b
  <2>1. used' = S!Taken(again, S!Taken(e, used))
    BY <2>a
  <2>2. ~tab[t].token
    BY <1>1, <1>2, <1>3, <1>5 DEF TabOK, S!Passes, S!LoggedIn
  <2>3. /\ again.session \in Session
        /\ again.unwelcome \in BOOLEAN /\ again.sets \in Session \cup {None}
        /\ S!Taken(again, S!Taken(e, used)) \in Nat /\ S!Unwelcome(again) \subseteq SUBSET Nat /\ S!Pushed(again) \subseteq Nat
        /\ Renewed(tab[t].ck, config) => again.sets = again.session
        /\ ~Renewed(tab[t].ck, config) => again.sets = None /\ again.session = tab[t].ck
        /\ again.unwelcome <=> (tab[t].ck # None /\ tab[t].ck.user \in config.banned)
        /\ Honest(again.session, S!Entitled)
    BY <1>1, <1>3, <2>0, <2>2, SecondOK
  <2>4. PICK told \in BOOLEAN : told = (pushed # {})
    OBVIOUS
  <2>5. S!Answer(t, again.sets, told, FALSE)
    BY <2>a, <2>4
  <2>6. errors \subseteq errors' /\ errors' \subseteq Nat /\ (told => again.session.uuid \in errors')
    BY <1>2, <1>3, <2>a, <2>3, <2>4 DEF S!Unwelcome, S!Pushed
  <2>7. ASSUME Plain, owed'
        PROVE  Waits(cookie, errors') /\ (again.sets # None => again.sets.uuid \in errors')
    <3>0. owed /\ ~e.unwelcome
      BY <1>1, <2>7
    <3>1. /\ Waits(cookie, errors)
          /\ ~again.unwelcome => again.sets = None
      BY <1>1, <1>3, <2>0, <2>2, <2>7, <3>0, OwedSession
    <3>2. ~again.unwelcome
      BY <1>3, <2>2, <2>3, <3>0
    <3> QED BY <2>6, <3>1, <3>2 DEF Waits
  <2>8. ASSUME Plain, told
        PROVE  IF again.sets = None THEN Waits(cookie, errors') ELSE again.sets.uuid \in errors'
    <3>1. tab[t].ck = cookie
      BY <1>1, <1>2, <2>8 DEF Leads
    <3> QED BY <2>3, <2>6, <2>8, <3>1, SessionAssumption DEF Waits, Renewed
  <2>9. again.sets # Gone /\ (again.sets # None => Honest(again.sets, S!Entitled))
    BY <2>3, SessionAssumption
  <2> QED BY <1>1, <1>2, <2>1, <2>3, <2>5, <2>6, <2>7, <2>8, <2>9, AnswerMoves
<1> QED BY <1>4, <1>5

(* What is pushed for a request, and what its answer sets, lead the        *)
(* browser to the message; a request with the operator's token is told     *)
(* nothing.                                                                *)
LEMMA PushedAnswerOK ==
  ASSUME SessionsInv, NEW t \in Tabs, tab[t].pc \in Serving \cup {"sent"}, NEW again, again = S!Second(t, used),
         errors' = errors \cup S!Pushed(again), used' = S!Taken(again, used), S!Same, UNCHANGED users,
         S!Answer(t, again.sets, ~tab[t].token, FALSE)
  PROVE  SessionsInv'
<1>2. /\ tab[t] \in TabRequest /\ TabOK(tab[t], config, S!Entitled) /\ used \in Nat /\ errors \subseteq Nat
      /\ tab[t].pc # "idle" /\ (Plain => Leads(tab[t], cookie, errors, owed))
      /\ users \in [Users -> BOOLEAN \cup {None}]
  BY TabFacts DEF Serving
<1>3. /\ again.session \in Session /\ again.sets \in Session \cup {None}
      /\ S!Taken(again, used) \in Nat /\ S!Pushed(again) \subseteq Nat
      /\ tab[t].token => again.sets = None
      /\ ~tab[t].token => /\ Renewed(tab[t].ck, config) => again.sets = again.session
                          /\ ~Renewed(tab[t].ck, config) => again.sets = None /\ again.session = tab[t].ck
                          /\ Honest(again.session, S!Entitled)
  BY <1>2, SecondOK
<1>4. PICK told \in BOOLEAN : told = ~tab[t].token
  BY <1>2 DEF TabRequest
<1>5. S!Answer(t, again.sets, told, FALSE)
  BY <1>4
<1>6. errors \subseteq errors' /\ errors' \subseteq Nat /\ again.session.uuid \in errors'
  BY <1>2, <1>3 DEF S!Pushed
<1>7. ASSUME Plain
      PROVE  /\ owed => Waits(cookie, errors')
             /\ told => IF again.sets = None THEN Waits(cookie, errors') ELSE again.sets.uuid \in errors'
             /\ again.sets # None => again.sets.uuid \in errors'
  <2>1. tab[t].ck = cookie /\ (owed => Waits(cookie, errors))
    BY <1>2, <1>7 DEF Leads, Serving
  <2> QED BY <1>3, <1>4, <1>6, <2>1, SessionAssumption DEF Waits, Renewed
<1>8. again.sets # Gone /\ (again.sets # None => Honest(again.sets, S!Entitled))
  BY <1>3, SessionAssumption
<1> QED BY <1>2, <1>3, <1>5, <1>6, <1>7, <1>8, AnswerStep

LEMMA UnprocessableOK ==
  ASSUME SessionsInv, NEW t \in Tabs, S!UnprocessableEntity(t)
  PROVE  SessionsInv'
<1>0. PICK e : e = S!Second(t, used)
  OBVIOUS
<1>1. /\ tab[t].pc = "sent" /\ S!Same /\ UNCHANGED users
      /\ errors' = errors \cup S!Pushed(e) /\ used' = S!Taken(e, used)
      /\ S!Answer(t, e.sets, ~tab[t].token, FALSE)
  BY <1>0 DEF S!UnprocessableEntity, S!First, S!Second
<1> QED BY <1>0, <1>1, PushedAnswerOK

(* An error is pushed for the page that comes next.                        *)
LEMMA RespondToOK ==
  ASSUME SessionsInv, NEW t \in Tabs, tab[t].pc \in Serving, S!RespondTo(t)
  PROVE  SessionsInv'
<1>0. PICK again : again = S!Second(t, used)
  OBVIOUS
<1>1. /\ S!Same /\ UNCHANGED users
      /\ errors' = errors \cup S!Pushed(again) /\ used' = S!Taken(again, used)
      /\ S!Answer(t, IF again.sets = None THEN tab[t].sets ELSE again.sets, ~tab[t].token, FALSE)
  BY <1>0 DEF S!RespondTo
<1>2. TabOK(tab[t], config, S!Entitled) /\ used \in Nat /\ tab[t].pc # "idle"
  BY TabFacts DEF Serving
<1>3. /\ again.session \in Session
      /\ ~tab[t].token /\ Renewed(tab[t].ck, config) => again.sets = again.session
  BY <1>0, <1>2, SecondOK
<1>4. tab[t].token \/ ~Renewed(tab[t].ck, config) => tab[t].sets = None
  BY <1>2 DEF TabOK, FromCookie
<1>5. S!Answer(t, again.sets, ~tab[t].token, FALSE)
  BY <1>1, <1>3, <1>4, SessionAssumption
<1> QED BY <1>0, <1>1, <1>5, PushedAnswerOK

LEMMA PanicOK ==
  ASSUME SessionsInv, NEW t \in Tabs, tab[t].pc \in Serving, S!RedirectPanics(t) \/ S!UserIdPanics(t)
  PROVE  SessionsInv'
<1>0. PICK again : again = S!Second(t, used)
  OBVIOUS
<1>2. /\ used \in Nat /\ errors \subseteq Nat /\ tab[t].pc # "idle"
      /\ Plain => Leads(tab[t], cookie, errors, owed)
      /\ users \in [Users -> BOOLEAN \cup {None}]
  BY TabFacts DEF Serving
<1>3. S!Taken(again, used) \in Nat /\ S!Pushed(again) \subseteq Nat
  BY <1>0, <1>2, SecondOK
<1>1. /\ S!Same /\ UNCHANGED users /\ S!Answer(t, None, FALSE, FALSE)
      /\ errors' \in {errors, errors \cup S!Pushed(again)} /\ used' \in {used, S!Taken(again, used)}
  BY <1>0 DEF S!RedirectPanics, S!UserIdPanics
<1>4. errors' \subseteq Nat /\ errors \subseteq errors' /\ used' \in Nat
  BY <1>1, <1>2, <1>3
<1>5. (Plain /\ owed) => Waits(cookie, errors')
  BY <1>2, <1>4 DEF Leads, Serving, Waits
<1> QED BY <1>1, <1>2, <1>4, <1>5, AnswerStep

(* Valkey fails: nothing is kept; of the messages of a page, only if they  *)
(* were read.                                                              *)
LEMMA ValkeyFailsOK ==
  ASSUME SessionsInv, NEW t \in Tabs, S!ValkeyFails(t)
  PROVE  SessionsInv'
<1>1. /\ tab[t].pc \in Serving \cup {"sent"} /\ S!Same /\ UNCHANGED <<users, used>>
      /\ errors' = (IF tab[t].pc = "shown" THEN errors \ {tab[t].session.uuid} ELSE errors)
      /\ S!Answer(t, None, FALSE, tab[t].shown)
  BY DEF S!ValkeyFails, S!Acting, Serving
<1>2. /\ tab[t] \in TabRequest /\ used \in Nat /\ errors \subseteq Nat /\ tab[t].pc # "idle"
      /\ Plain => Leads(tab[t], cookie, errors, owed)
      /\ users \in [Users -> BOOLEAN \cup {None}]
  BY <1>1, TabFacts DEF Serving
<1>3. tab[t].shown \in BOOLEAN /\ errors' \subseteq Nat
  BY <1>1, <1>2 DEF TabRequest
<1>4. (Plain /\ owed /\ ~tab[t].shown) => Waits(cookie, errors')
  BY <1>1, <1>2 DEF Leads, Serving, Waits
<1> QED BY <1>1, <1>2, <1>3, <1>4, AnswerStep

(* A page reads the messages of its session, and then deletes them.        *)
LEMMA RetrieveOK ==
  ASSUME SessionsInv, NEW t \in Tabs, S!RetrieveErrors(t)
  PROVE  SessionsInv'
<1>0. PICK found \in BOOLEAN : found <=> tab[t].session.uuid \in errors
  OBVIOUS
<1>a. PICK x : x = [tab[t] EXCEPT !.pc = "shown", !.shown = found]
  OBVIOUS
<1>1. /\ tab[t].pc = "act" /\ tab[t].kind = "page" /\ S!Become(t, x)
      /\ S!Same /\ UNCHANGED <<users, errors, used>>
  BY <1>0, <1>a DEF S!RetrieveErrors, S!Acting
<1>2. /\ tab[t] \in TabRequest /\ TabOK(tab[t], config, S!Entitled) /\ used \in Nat /\ errors \subseteq Nat
      /\ Plain => Leads(tab[t], cookie, errors, owed)
      /\ users \in [Users -> BOOLEAN \cup {None}]
  BY <1>1, TabFacts
<1>3. /\ x \in TabRequest /\ x.pc = "shown" /\ x.shown = found
      /\ x.session = tab[t].session /\ x.sets = tab[t].sets /\ x.ck = tab[t].ck /\ x.token = tab[t].token
      /\ x.kind = tab[t].kind
  BY <1>a, <1>2 DEF TabRequest, Serving
<1>4. TabOK(x, config, S!Entitled)
  BY <1>1, <1>2, <1>3 DEF TabOK, FromCookie, Serving
<1>5. Plain => Leads(x, cookie, errors', owed)
  BY <1>0, <1>1, <1>2, <1>3 DEF Leads, Serving
<1> QED BY <1>1, <1>2, <1>3, <1>4, <1>5, TabStepOK

LEMMA DeleteErrorsOK ==
  ASSUME SessionsInv, NEW t \in Tabs, S!DeleteErrors(t)
  PROVE  SessionsInv'
<1>1. /\ tab[t].pc = "shown" /\ errors' = errors \ {tab[t].session.uuid}
      /\ S!Answer(t, tab[t].sets, FALSE, tab[t].shown) /\ S!Same /\ UNCHANGED <<users, used>>
  BY DEF S!DeleteErrors
<1>2. /\ tab[t] \in TabRequest /\ TabOK(tab[t], config, S!Entitled) /\ used \in Nat /\ errors \subseteq Nat
      /\ Plain => Leads(tab[t], cookie, errors, owed)
      /\ users \in [Users -> BOOLEAN \cup {None}]
  BY <1>1, TabFacts
<1>3. /\ tab[t].sets \in Session \cup {None, Gone} /\ tab[t].shown \in BOOLEAN
      /\ tab[t].sets \notin {None, Gone} => Honest(tab[t].sets, S!Entitled)
  BY <1>1, <1>2 DEF TabRequest, TabOK
<1>4. (Plain /\ owed /\ ~tab[t].shown) =>
        Waits(cookie, errors') /\ (tab[t].sets # None => tab[t].sets.uuid \in errors')
  BY <1>1, <1>2 DEF Leads, Serving, Waits, TabOK, FromCookie
<1> QED BY <1>1, <1>2, <1>3, <1>4, AnswerStep

(* login_discord and the callback save the session they were served for.   *)
LEMMA LoginOK ==
  ASSUME SessionsInv, NEW t \in Tabs, S!LoginDiscord(t)
  PROVE  SessionsInv'
<1>1. /\ tab[t].pc = "act" /\ tab[t].kind = "login" /\ S!Answer(t, tab[t].session, FALSE, FALSE)
      /\ S!Same /\ UNCHANGED <<users, errors, used>>
  BY DEF S!LoginDiscord, S!Acting
<1>2. /\ tab[t] \in TabRequest /\ TabOK(tab[t], config, S!Entitled) /\ used \in Nat /\ errors \subseteq Nat
      /\ Plain => Leads(tab[t], cookie, errors, owed)
      /\ users \in [Users -> BOOLEAN \cup {None}]
  BY <1>1, TabFacts
<1>3. tab[t].session \in Session /\ Honest(tab[t].session, S!Entitled) /\ (Plain => ~tab[t].token)
  BY <1>1, <1>2, PlainEntitled DEF TabOK, Serving, FromCookie, Honest
<1>4. (Plain /\ owed) => Waits(cookie, errors) /\ tab[t].session.uuid \in errors
  BY <1>1, <1>2, <1>3 DEF Leads, Serving
<1> QED BY <1>1, <1>2, <1>3, <1>4, AnswerStep

LEMMA CallbackOK ==
  ASSUME SessionsInv, NEW t \in Tabs, NEW u \in Users, S!LoginDiscordCallback(t, u)
  PROVE  SessionsInv'
<1>0. PICK x : x = [tab[t] EXCEPT !.pc = "upserted", !.id = u]
  OBVIOUS
<1>1. /\ tab[t].pc = "act" /\ tab[t].kind = "callback" /\ S!Become(t, x) /\ S!UpsertDiscordUser(u)
      /\ S!Same /\ UNCHANGED <<errors, used>>
  BY <1>0 DEF S!LoginDiscordCallback, S!Acting
<1>2. /\ tab[t] \in TabRequest /\ TabOK(tab[t], config, S!Entitled) /\ used \in Nat /\ errors \subseteq Nat
      /\ Plain => Leads(tab[t], cookie, errors, owed)
      /\ users \in [Users -> BOOLEAN \cup {None}]
  BY <1>1, TabFacts
<1>3. /\ x \in TabRequest /\ x.pc = "upserted" /\ x.id = u
      /\ x.session = tab[t].session /\ x.sets = tab[t].sets /\ x.ck = tab[t].ck /\ x.token = tab[t].token
      /\ x.kind = tab[t].kind
  BY <1>0, <1>2 DEF TabRequest, Serving
<1>4. TabOK(x, config, S!Entitled)
  BY <1>1, <1>2, <1>3 DEF TabOK, FromCookie, Serving
<1>5. Plain => Leads(x, cookie, errors', owed)
  BY <1>1, <1>2, <1>3 DEF Leads, Serving
<1>6. users' \in [Users -> BOOLEAN \cup {None}]
  BY <1>1, <1>2 DEF S!UpsertDiscordUser
<1> QED BY <1>1, <1>2, <1>3, <1>4, <1>5, <1>6, TabStepOK

LEMMA SaveUserOK ==
  ASSUME SessionsInv, NEW t \in Tabs, S!SaveUser(t)
  PROVE  SessionsInv'
<1>0. PICK s : s = S!UserSession(t)
  OBVIOUS
<1>1. /\ tab[t].pc = "upserted" /\ S!Answer(t, s, FALSE, FALSE) /\ S!Same /\ UNCHANGED <<users, errors, used>>
  BY <1>0 DEF S!SaveUser
<1>2. /\ tab[t] \in TabRequest /\ TabOK(tab[t], config, S!Entitled) /\ used \in Nat /\ errors \subseteq Nat
      /\ Plain => Leads(tab[t], cookie, errors, owed)
      /\ users \in [Users -> BOOLEAN \cup {None}]
  BY <1>1, TabFacts
<1>3. tab[t].session \in Session /\ tab[t].id \in Users /\ (Plain => ~tab[t].token)
  BY <1>1, <1>2, PlainEntitled DEF TabOK, Serving
<1>4. PICK admin \in BOOLEAN : admin <=> tab[t].id \in config.admins
  OBVIOUS
<1>5. PICK may \in BOOLEAN : may = (~config.restricted \/ admin \/ users[tab[t].id] = TRUE)
  OBVIOUS
<1>6. s = [tab[t].session EXCEPT !.user = tab[t].id, !.in = TRUE, !.admin = admin, !.may = may]
  BY <1>0, <1>4, <1>5 DEF S!UserSession
<1>7. s \in Session /\ s.user = tab[t].id /\ s.admin = admin /\ s.uuid = tab[t].session.uuid
  BY <1>3, <1>6 DEF Session
<1>8. Honest(s, S!Entitled)
  BY <1>4, <1>7 DEF Honest, SessionsInv, SessionsTypeOK, S!Entitled
<1>9. (Plain /\ owed) => Waits(cookie, errors) /\ s.uuid \in errors
  BY <1>1, <1>2, <1>3, <1>7 DEF Leads, Serving
<1> QED BY <1>1, <1>2, <1>7, <1>8, <1>9, AnswerStep

LEMMA LogoutOK ==
  ASSUME SessionsInv, NEW t \in Tabs, S!Logout(t)
  PROVE  SessionsInv'
<1>1. /\ tab[t].pc = "sent" /\ S!Answer(t, Gone, FALSE, FALSE) /\ S!Same /\ UNCHANGED <<users, errors, used>>
  BY DEF S!Logout
<1>2. /\ used \in Nat /\ errors \subseteq Nat /\ users \in [Users -> BOOLEAN \cup {None}]
      /\ Plain => Leads(tab[t], cookie, errors, owed)
  BY <1>1, TabFacts
<1>3. (Plain /\ owed) => Waits(cookie, errors)
  BY <1>1, <1>2 DEF Leads
<1> QED BY <1>1, <1>2, <1>3, AnswerStep

(* create_room_submit and the admin API                                    *)
LEMMA CreateSubmitOK ==
  ASSUME SessionsInv, NEW t \in Tabs, S!CreateRoomSubmit(t)
  PROVE  SessionsInv'
<1>1. tab[t].pc = "act" /\ tab[t].pc \in Serving
  BY DEF S!CreateRoomSubmit, S!Acting, Serving
<1>2. CASE S!RedirectPanics(t)
  BY <1>1, <1>2, PanicOK
<1>3. CASE /\ S!Become(t, [tab[t] EXCEPT !.pc = "create"])
           /\ UNCHANGED <<users, errors, used>> /\ S!Same
  <2>0. PICK x : x = [tab[t] EXCEPT !.pc = "create"]
    OBVIOUS
  <2>1. /\ tab[t] \in TabRequest /\ TabOK(tab[t], config, S!Entitled) /\ used \in Nat /\ errors \subseteq Nat
        /\ Plain => Leads(tab[t], cookie, errors, owed)
        /\ users \in [Users -> BOOLEAN \cup {None}]
    BY <1>1, TabFacts
  <2>2. /\ x \in TabRequest /\ x.pc = "create"
        /\ x.session = tab[t].session /\ x.sets = tab[t].sets /\ x.ck = tab[t].ck /\ x.token = tab[t].token
        /\ x.kind = tab[t].kind
    BY <2>0, <2>1 DEF TabRequest, Serving
  <2>3. TabOK(x, config, S!Entitled)
    BY <1>1, <1>3, <2>1, <2>2 DEF TabOK, FromCookie, Serving
  <2>4. Plain => Leads(x, cookie, errors', owed)
    BY <1>1, <1>3, <2>1, <2>2 DEF Leads, Serving
  <2> QED BY <1>1, <1>3, <2>0, <2>1, <2>2, <2>3, <2>4, TabStepOK
<1> QED BY <1>2, <1>3 DEF S!CreateRoomSubmit

(* The answer of a request that told nothing and changed no message        *)
LEMMA PlainAnswerOK ==
  ASSUME SessionsInv, NEW t \in Tabs, tab[t].pc \in Serving, S!Answer(t, tab[t].sets, FALSE, FALSE),
         S!Same, UNCHANGED <<errors, used>>, users' \in [Users -> BOOLEAN \cup {None}]
  PROVE  SessionsInv'
<1>1. /\ tab[t] \in TabRequest /\ TabOK(tab[t], config, S!Entitled) /\ used \in Nat /\ errors \subseteq Nat
      /\ tab[t].pc # "idle" /\ (Plain => Leads(tab[t], cookie, errors, owed))
  BY TabFacts DEF Serving
<1>2. /\ tab[t].sets \in Session \cup {None, Gone}
      /\ tab[t].sets \notin {None, Gone} => Honest(tab[t].sets, S!Entitled)
      /\ tab[t].sets # None => ~tab[t].token /\ tab[t].sets = tab[t].session
  BY <1>1 DEF TabRequest, TabOK, FromCookie
<1>3. (Plain /\ owed) => Waits(cookie, errors) /\ (~tab[t].token => tab[t].session.uuid \in errors)
  BY <1>1 DEF Leads, Serving
<1> QED BY <1>1, <1>2, <1>3, AnswerStep

LEMMA CreatesOK ==
  ASSUME SessionsInv, NEW t \in Tabs, S!CreatesRoom(t)
  PROVE  SessionsInv'
<1>1. tab[t].pc = "create" /\ tab[t].pc \in Serving /\ tab[t].pc # "idle"
  BY DEF S!CreatesRoom, Serving
<1>2. users \in [Users -> BOOLEAN \cup {None}]
  BY <1>1, TabFacts
<1> QED BY <1>1, <1>2, PlainAnswerOK, RespondToOK, PanicOK DEF S!CreatesRoom

LEMMA DiscordFailsOK ==
  ASSUME SessionsInv, NEW t \in Tabs, S!DiscordFails(t)
  PROVE  SessionsInv'
<1>1. tab[t].pc \in Serving /\ tab[t].pc = "act" /\ tab[t].kind = "callback" /\ S!RespondTo(t)
  BY DEF S!DiscordFails, S!Acting, Serving
<1> QED BY <1>1, RespondToOK

LEMMA AllowOK ==
  ASSUME SessionsInv, NEW t \in Tabs, NEW u \in Users, NEW a \in BOOLEAN, S!AllowRoomCreation(t, u, a)
  PROVE  SessionsInv'
<1>1. /\ tab[t].pc \in Serving /\ S!Answer(t, tab[t].sets, FALSE, FALSE)
      /\ S!Same /\ UNCHANGED <<errors, used>> /\ S!SetRoomCreationAllowed(u, a)
  BY DEF S!AllowRoomCreation, S!Acting, Serving
<1>2. users' \in [Users -> BOOLEAN \cup {None}]
  BY <1>1 DEF S!SetRoomCreationAllowed, SessionsInv, SessionsTypeOK
<1> QED BY <1>1, <1>2, PlainAnswerOK

-----------------------------------------------------------------------------
(* An answer arrives: the browser has the cookie that it sets.             *)
LEMMA ArriveOK ==
  ASSUME SessionsInv, NEW t \in Tabs, S!Arrive(t)
  PROVE  SessionsInv'
<1>1. /\ tab[t].pc = "answered" /\ tab' = [tab EXCEPT ![t] = S!Idle]
      /\ cookie' = (CASE tab[t].sets = None -> cookie [] tab[t].sets = Gone -> None [] OTHER -> tab[t].sets)
      /\ owed' = ((owed /\ ~tab[t].shown /\ tab[t].sets # Gone) \/ tab[t].told)
      /\ UNCHANGED <<config, users, errors, used, overlapped, operator, admins>>
      /\ S!Entitled' = S!Entitled /\ Plain' = Plain
  BY EntitledSame DEF S!Arrive, S!Become, Plain
<1>2. /\ tab[t] \in TabRequest /\ TabOK(tab[t], config, S!Entitled) /\ tab[t] # S!Idle
      /\ Plain => Leads(tab[t], cookie, errors, owed)
  BY <1>1, TabFacts
<1>3. tab'[t] = S!Idle /\ (\A s \in Tabs : s # t => tab'[s] = tab[s]) /\ tab' \in [Tabs -> TabRequest]
  BY <1>1, IdleTab DEF SessionsInv, SessionsTypeOK
<1>4. tab[t].sets \in Session \cup {None, Gone} /\ tab[t].told \in BOOLEAN /\ tab[t].shown \in BOOLEAN
  BY <1>2 DEF TabRequest
<1>5. cookie' \in Cookie /\ (cookie' # None => Honest(cookie', S!Entitled))
  <2>1. CASE tab[t].sets = None
    BY <1>1, <2>1, SessionAssumption DEF SessionsInv, SessionsTypeOK
  <2>2. CASE tab[t].sets = Gone
    BY <1>1, <2>2, SessionAssumption DEF Cookie
  <2>3. CASE tab[t].sets \notin {None, Gone}
    BY <1>1, <1>2, <1>4, <2>3 DEF Cookie, TabOK
  <2> QED BY <2>1, <2>2, <2>3
<1>6. owed' \in BOOLEAN
  BY <1>1
<1>7. SessionsTypeOK'
  BY <1>1, <1>3, <1>5, <1>6 DEF SessionsInv, SessionsTypeOK
<1>8. \A s \in Tabs : TabOK(tab'[s], config, S!Entitled)
  BY <1>3, IdleTab DEF SessionsInv
<1>9. ASSUME Plain PROVE MessagesLead'
  <2>1. \A s \in Tabs : tab'[s] = S!Idle
    BY <1>2, <1>3, <1>9 DEF SessionsInv, MessagesLead
  <2>2. ASSUME owed' PROVE Waits(cookie', errors)
    <3>1. tab[t].told \/ (owed /\ ~tab[t].shown /\ tab[t].sets # Gone)
      BY <1>1, <2>2
    <3>2. CASE tab[t].sets = None
      <4>1. cookie' = cookie
        BY <1>1, <3>2, SessionAssumption
      <4> QED BY <1>1, <1>2, <1>9, <3>1, <3>2, <4>1 DEF Leads
    <3>3. CASE tab[t].sets # None
      <4>1. tab[t].sets # Gone /\ tab[t].sets.uuid \in errors
        BY <1>1, <1>2, <1>9, <3>1, <3>3 DEF Leads
      <4> QED BY <1>1, <3>3, <4>1 DEF Waits
    <3> QED BY <3>2, <3>3
  <2> QED BY <1>1, <2>1, <2>2 DEF MessagesLead
<1>10. MessagesLead'
  BY <1>1, <1>9 DEF MessagesLead
<1> QED BY <1>1, <1>5, <1>7, <1>8, <1>10 DEF SessionsInv

LEMMA RestartOK ==
  ASSUME SessionsInv, S!Restart
  PROVE  SessionsInv'
<1>1. /\ config' \in Configs /\ admins' = admins \cup config'.admins /\ tab' = [t \in Tabs |-> S!Idle]
      /\ owed' = (owed /\ ~\E t \in Tabs : tab[t].pc \in {"shown", "answered"} /\ tab[t].shown)
      /\ UNCHANGED <<cookie, users, errors, used, overlapped, operator>> /\ Plain' = Plain
  BY DEF S!Restart, Plain
<1>2. config'.admins \subseteq Users /\ S!Entitled \subseteq S!Entitled'
  BY <1>1, SessionAssumption DEF S!Entitled
<1>3. owed' \in BOOLEAN /\ (owed' => owed)
  BY <1>1 DEF SessionsInv, SessionsTypeOK
<1>4. SessionsTypeOK'
  BY <1>1, <1>2, <1>3, IdleTab DEF SessionsInv, SessionsTypeOK
<1>5. TabOK(S!Idle, config', S!Entitled')
  BY DEF S!Idle, TabOK, Serving
<1>6. cookie' # None => Honest(cookie', S!Entitled')
  BY <1>1, <1>2 DEF SessionsInv, Honest
<1>7. ASSUME Plain, owed' PROVE Waits(cookie, errors)
  <2>1. CASE \A t \in Tabs : tab[t] = S!Idle
    BY <1>3, <1>7, <2>1 DEF SessionsInv, MessagesLead
  <2>2. CASE \E t \in Tabs : tab[t] # S!Idle
    <3>1. PICK t \in Tabs : tab[t] # S!Idle
      BY <2>2
    <3>2. Leads(tab[t], cookie, errors, owed) /\ ~(tab[t].pc = "answered" /\ tab[t].shown)
      BY <1>1, <1>7, <3>1 DEF SessionsInv, MessagesLead
    <3> QED BY <1>3, <1>7, <3>2 DEF Leads
  <2> QED BY <2>1, <2>2
<1>8. MessagesLead'
  BY <1>1, <1>7 DEF MessagesLead
<1> QED BY <1>1, <1>4, <1>5, <1>6, <1>8 DEF SessionsInv

LEMMA ErrorsExpireOK ==
  ASSUME SessionsInv, S!ErrorsExpire
  PROVE  SessionsInv'
<1>1. /\ errors' = {} /\ owed' = FALSE /\ \A t \in Tabs : tab[t] = S!Idle
      /\ UNCHANGED <<config, cookie, users, tab, used, overlapped, operator, admins>>
      /\ S!Entitled' = S!Entitled /\ Plain' = Plain
  BY EntitledSame DEF S!ErrorsExpire, Plain
<1>2. SessionsTypeOK' /\ MessagesLead'
  BY <1>1 DEF SessionsInv, SessionsTypeOK, MessagesLead
<1> QED BY <1>1, <1>2 DEF SessionsInv

LEMMA SessionsStep == SessionsInv /\ [S!Next]_(S!vars) => SessionsInv'
<1> SUFFICES ASSUME SessionsInv, [S!Next]_(S!vars) PROVE SessionsInv'
  OBVIOUS
<1>1. ASSUME NEW t \in Tabs, S!TabStep(t) PROVE SessionsInv'
  <2>1. CASE \E kind \in S!RequestKinds, token \in BOOLEAN : S!Send(t, kind, token)
    BY <2>1, SendOK
  <2>2. CASE S!ValkeyFails(t)
    BY <2>2, ValkeyFailsOK
  <2>3. CASE \E u \in Users : S!LoginDiscordCallback(t, u) \/ \E a \in BOOLEAN : S!AllowRoomCreation(t, u, a)
    BY <2>3, CallbackOK, AllowOK
  <2>4. CASE S!Guard(t) \/ S!UnprocessableEntity(t) \/ S!RetrieveErrors(t) \/ S!DeleteErrors(t)
    BY <2>4, GuardOK, UnprocessableOK, RetrieveOK, DeleteErrorsOK
  <2>5. CASE S!LoginDiscord(t) \/ S!DiscordFails(t) \/ S!SaveUser(t) \/ S!Logout(t)
    BY <2>5, LoginOK, DiscordFailsOK, SaveUserOK, LogoutOK
  <2>6. CASE S!CreateRoomSubmit(t) \/ S!CreatesRoom(t) \/ S!Arrive(t)
    BY <2>6, CreateSubmitOK, CreatesOK, ArriveOK
  <2> QED BY <1>1, <2>1, <2>2, <2>3, <2>4, <2>5, <2>6 DEF S!TabStep
<1>2. CASE UNCHANGED S!vars
  <2>1. /\ SessionsTypeOK' /\ MessagesLead' /\ UNCHANGED <<config, tab, cookie>>
        /\ S!Entitled' = S!Entitled
    BY <1>2, EntitledSame DEF Plain, S!vars, SessionsInv, SessionsTypeOK, MessagesLead
  <2> QED BY <2>1 DEF SessionsInv
<1> QED BY <1>1, <1>2, RestartOK, ErrorsExpireOK DEF S!Next

(* What the invariant says to those who use the lobby                      *)
LEMMA SessionsAreSafe == SessionsInv => S!BannedActNowhere /\ S!AdminsOnly /\ S!ErrorsReach
<1> SUFFICES ASSUME SessionsInv PROVE S!BannedActNowhere /\ S!AdminsOnly /\ S!ErrorsReach
  OBVIOUS
<1>1. S!BannedActNowhere
  BY DEF SessionsInv, S!BannedActNowhere, TabOK, Serving
<1>2. S!AdminsOnly
  BY DEF SessionsInv, S!AdminsOnly, Honest
<1>3. ASSUME owed, Plain
      PROVE  Waits(cookie, errors) \/ \E t \in Tabs : tab[t].pc = "answered" /\ tab[t].shown
  <2>1. CASE \A t \in Tabs : tab[t] = S!Idle
    BY <1>3, <2>1 DEF SessionsInv, MessagesLead
  <2>2. CASE \E t \in Tabs : tab[t] # S!Idle
    BY <1>3, <2>2 DEF SessionsInv, MessagesLead, Leads
  <2> QED BY <2>1, <2>2
<1> QED BY <1>1, <1>2, <1>3 DEF S!ErrorsReach, Waits, Plain

(* Only create_room_submit goes on to the form of a room.                  *)
LEMMA CreateHasRight ==
  ASSUME SessionsInv, [S!Next]_(S!vars), NEW t \in Tabs, S!Acting(t, "create"), tab'[t].pc = "create",
         config.restricted
  PROVE  tab[t].session.admin \/ users[tab[t].session.user] = TRUE
<1>1. tab[t].pc = "act" /\ tab[t].kind = "create" /\ tab \in [Tabs -> TabRequest] /\ tab[t] # S!Idle
  BY IdleTab DEF S!Acting, SessionsInv, SessionsTypeOK
<1>2. ASSUME NEW s \in Tabs, s # t, S!TabStep(s) PROVE FALSE
  <2>1. \A x : S!Become(s, x) => tab'[t] = tab[t]
    BY <1>1, <1>2 DEF S!Become
  <2>2. \E x : S!Become(s, x)
    BY <1>2, Zenon DEF S!TabStep, S!Send, S!Guard, S!Unauthorized, S!UnprocessableEntity, S!RetrieveErrors,
         S!DeleteErrors, S!LoginDiscord, S!LoginDiscordCallback, S!AllowRoomCreation, S!DiscordFails, S!RespondTo,
         S!RedirectPanics, S!UserIdPanics, S!ValkeyFails, S!SaveUser, S!Logout, S!CreateRoomSubmit, S!CreatesRoom, S!Arrive, S!Answer
  <2> QED BY <1>1, <2>1, <2>2
<1>3. ASSUME S!TabStep(t) PROVE S!CreateRoomSubmit(t)
  <2>1. \A sets, told, shown : ~S!Answer(t, sets, told, shown)
    BY <1>1 DEF S!Answer, S!Become, S!Idle
  <2> QED BY <1>1, <1>3, <2>1 DEF S!TabStep, S!Send, S!Guard, S!UnprocessableEntity, S!RetrieveErrors,
         S!DeleteErrors, S!LoginDiscord, S!LoginDiscordCallback, S!AllowRoomCreation, S!DiscordFails, S!RespondTo,
         S!UserIdPanics, S!ValkeyFails, S!SaveUser, S!Logout, S!CreatesRoom, S!Arrive, S!Acting
<1>4. S!CreateRoomSubmit(t)
  <2>1. ~S!Restart /\ ~UNCHANGED S!vars
    BY <1>1 DEF S!Restart, S!Idle, S!vars
  <2>2. ~S!ErrorsExpire
    BY <1>1 DEF S!ErrorsExpire
  <2> QED BY <1>2, <1>3, <2>1, <2>2 DEF S!Next
<1>5. ~S!RedirectPanics(t)
  BY <1>1 DEF S!RedirectPanics, S!Answer, S!Become, S!Idle
<1> QED BY <1>4, <1>5 DEF S!CreateRoomSubmit, S!IsAllowed

(* The guards of lobby/src/session.rs, the login and the pages of          *)
(* messages, with any number of tabs, users, configurations and restarts.  *)
THEOREM SessionsAreKept == S!Spec => SessionsHold
<1>1. SessionsInv /\ [S!Next]_(S!vars) =>
        [\A t \in Tabs : (S!Acting(t, "create") /\ tab'[t].pc = "create") =>
          (config.restricted => tab[t].session.admin \/ users[tab[t].session.user] = TRUE)]_tab
  BY CreateHasRight
<1> QED BY <1>1, SessionsInitially, SessionsStep, SessionsAreSafe, PTL DEF S!Spec, SessionsHold, S!CreationRight

-----------------------------------------------------------------------------
(* Bases on offer                                                          *)

BaseNo == Nat \ {0}

LEMMA OptCardinality == ASSUME NEW Z PROVE O!Cardinality(Z) = Cardinality(Z) /\ O!IsFiniteSet(Z) = IsFiniteSet(Z)
BY DEF O!Cardinality, Cardinality, O!IsFiniteSet, IsFiniteSet

(* Some order of a finite set of versions has the newer before the older:  *)
(* the least of a smallest set without one could be put last.              *)
NewerFirst(s, Z) == s \in [1..Cardinality(Z) -> Z] /\ \A i, j \in 1..Cardinality(Z) : i < j => s[i] > s[j]

LEMMA LeastNatural ==
  ASSUME NEW Z \in SUBSET Nat, Z # {}
  PROVE  \E m \in Z : \A y \in Z : m <= y
<1>1. \E x \in Z : \A y \in Z : ~(<<y, x>> \in OpToRel(<, Nat))
  BY NatLessThanWellFounded, WFMin
<1>2. PICK x \in Z : \A y \in Z : ~(y < x)
  BY <1>1 DEF OpToRel
<1> QED BY <1>2

LEMMA OrderExists ==
  ASSUME NEW Z \in SUBSET Nat, IsFiniteSet(Z)
  PROVE  \E s : NewerFirst(s, Z)
<1> DEFINE Bad == {n \in Nat : \E Y \in SUBSET Nat : IsFiniteSet(Y) /\ Cardinality(Y) = n /\ \A s : ~NewerFirst(s, Y)}
<1> SUFFICES ASSUME Bad # {} PROVE FALSE
  BY FS_CardinalityType
<1>1. PICK n \in Bad : \A y \in Bad : n <= y
  <2>1. Bad \in SUBSET Nat
    OBVIOUS
  <2> HIDE DEF Bad
  <2> QED BY <2>1, LeastNatural
<1>2. PICK Y \in SUBSET Nat : IsFiniteSet(Y) /\ Cardinality(Y) = n /\ \A s : ~NewerFirst(s, Y)
  BY <1>1
<1>3. n \in Nat
  BY <1>1
<1>4. CASE n = 0
  <2>1. PICK s : s = [i \in 1..0 |-> 0]
    OBVIOUS
  <2>2. s \in [1..Cardinality(Y) -> Y] /\ \A i, j \in 1..Cardinality(Y) : i < j => s[i] > s[j]
    BY <1>2, <1>4, <2>1
  <2> QED BY <1>2, <2>2 DEF NewerFirst
<1>5. CASE n # 0
  <2>1. Y # {}
    BY <1>2, <1>5, FS_EmptySet
  <2>2. PICK m \in Y : \A y \in Y : m <= y
    BY <2>1, LeastNatural
  <2>3. IsFiniteSet(Y \ {m}) /\ Cardinality(Y \ {m}) = n - 1
    BY <1>2, FS_RemoveElement
  <2>4. n - 1 \notin Bad /\ n - 1 \in Nat
    BY <1>1, <1>3, <1>5
  <2>5. PICK s : NewerFirst(s, Y \ {m})
    BY <2>3, <2>4
  <2>6. s \in [1..(n - 1) -> Y \ {m}] /\ \A i, j \in 1..(n - 1) : i < j => s[i] > s[j]
    BY <2>3, <2>5 DEF NewerFirst
  <2>7. PICK r : r = [i \in 1..n |-> IF i = n THEN m ELSE s[i]]
    OBVIOUS
  <2>8. \A i \in 1..n : i # n => i \in 1..(n - 1)
    BY <1>3
  <2>9. r \in [1..n -> Y]
    BY <2>6, <2>7, <2>8
  <2>10. \A i, j \in 1..n : i < j => r[i] > r[j]
    <3> SUFFICES ASSUME NEW i \in 1..n, NEW j \in 1..n, i < j PROVE r[i] > r[j]
      OBVIOUS
    <3>0. i # n
      BY <1>3
    <3>1. i \in 1..(n - 1) /\ r[i] = s[i] /\ s[i] \in Y \ {m}
      BY <2>6, <2>7, <2>8, <3>0
    <3>2. CASE j = n
      <4>1. r[j] = m /\ m <= s[i] /\ s[i] \in Nat /\ m \in Nat
        BY <2>2, <2>7, <3>1, <3>2
      <4> QED BY <3>1, <4>1
    <3>3. CASE j # n
      BY <2>6, <2>7, <2>8, <3>1, <3>3
    <3> QED BY <3>2, <3>3
  <2> QED BY <1>2, <2>9, <2>10 DEF NewerFirst
<1> QED BY <1>4, <1>5

(* NewestFirst lists every base once, and the newer before the older.      *)
LEMMA NewestFirstOK ==
  ASSUME NEW Z \in SUBSET Nat, IsFiniteSet(Z), NEW s, s = O!NewestFirst(Z)
  PROVE  /\ Cardinality(Z) \in Nat /\ s \in [1..Cardinality(Z) -> Z] /\ Len(s) = Cardinality(Z)
         /\ \A i, j \in 1..Cardinality(Z) : i < j => s[i] > s[j]
         /\ \A z \in Z : \E i \in 1..Cardinality(Z) : s[i] = z
<1>1. Cardinality(Z) \in Nat /\ IsFiniteSet(1..Cardinality(Z)) /\ Cardinality(1..Cardinality(Z)) = Cardinality(Z)
  BY FS_CardinalityType, FS_Interval
<1>2. s = CHOOSE r \in [1..Cardinality(Z) -> Z] : \A i, j \in DOMAIN r : i < j => r[i] > r[j]
  BY OptCardinality DEF O!NewestFirst
<1>3. \E r \in [1..Cardinality(Z) -> Z] : \A i, j \in DOMAIN r : i < j => r[i] > r[j]
  BY OrderExists DEF NewerFirst
<1>4. s \in [1..Cardinality(Z) -> Z] /\ \A i, j \in DOMAIN s : i < j => s[i] > s[j]
  BY <1>2, <1>3, Zenon
<1>5. \A i, j \in 1..Cardinality(Z) : i < j => s[i] > s[j]
  BY <1>4
<1>6. Len(s) = Cardinality(Z)
  BY <1>1, <1>4
<1>7. s \in Injection(1..Cardinality(Z), Z)
  <2>1. \A i, j \in 1..Cardinality(Z) : s[i] = s[j] => i = j
    <3> SUFFICES ASSUME NEW i \in 1..Cardinality(Z), NEW j \in 1..Cardinality(Z), s[i] = s[j], i # j PROVE FALSE
      OBVIOUS
    <3>1. i \in Nat /\ j \in Nat
      BY <1>1
    <3>2. s[i] \in Z /\ s[j] \in Z
      BY <1>4, Zenon
    <3>3. i < j \/ j < i
      BY <3>1
    <3>4. s[i] > s[j] \/ s[j] > s[i]
      BY <1>5, <3>3
    <3>5. \A x \in Nat : ~(x > x)
      OBVIOUS
    <3>6. s[i] \in Nat
      BY <3>2
    <3> QED BY <3>4, <3>5, <3>6
  <2> QED BY <1>4, <2>1 DEF Injection, IsInjective
<1>8. s \in Surjection(1..Cardinality(Z), Z)
  BY <1>1, <1>7, FS_Injection
<1> QED BY <1>1, <1>4, <1>5, <1>6, <1>8 DEF Surjection

(* The bases on offer, and the one a page is about when it names none      *)
OfferedSet(c, i) == IF c.enabled = None THEN {i.legacy} ELSE c.enabled \cap DOMAIN i.rels

LEMMA OfferedOK ==
  ASSUME NEW c, O!IsConfig(c), NEW i, O!IsIndex(i), NEW s, s = O!Offered(c, i), NEW n, n = Cardinality(OfferedSet(c, i))
  PROVE  /\ OfferedSet(c, i) \subseteq BaseNo /\ OfferedSet(c, i) \subseteq DOMAIN i.rels
         /\ n \in Nat /\ s \in [1..n -> OfferedSet(c, i)] /\ Len(s) = n
         /\ \A j, k \in 1..n : j < k => s[j] > s[k]
         /\ \A z : O!Contains(s, z) <=> z \in OfferedSet(c, i)
         /\ O!ToSet(s) = OfferedSet(c, i)
         /\ i.legacy \in DOMAIN i.rels /\ i.legacy \in BaseNo
<1> DEFINE Z == OfferedSet(c, i)
<1>1. IsFiniteSet(DOMAIN i.rels) /\ DOMAIN i.rels \subseteq BaseNo /\ i.legacy \in DOMAIN i.rels
  BY OptCardinality DEF O!IsIndex, O!Numbered, O!NoVersion, BaseNo
<1>2. Z \subseteq DOMAIN i.rels
  BY <1>1 DEF OfferedSet
<1>3. IsFiniteSet(Z) /\ Z \in SUBSET Nat
  BY <1>1, <1>2, FS_Subset DEF BaseNo
<1>4. s = O!NewestFirst(Z)
  BY DEF O!Offered, O!Described, OfferedSet
<1> HIDE DEF Z
<1>5. /\ n \in Nat /\ s \in [1..n -> Z] /\ Len(s) = n
      /\ \A j, k \in 1..n : j < k => s[j] > s[k]
      /\ \A z \in Z : \E j \in 1..n : s[j] = z
  BY <1>3, <1>4, NewestFirstOK DEF Z
<1>6. \A z : O!Contains(s, z) <=> z \in Z
  BY <1>5 DEF O!Contains
<1>7. O!ToSet(s) = Z
  BY <1>5 DEF O!ToSet
<1> QED BY <1>1, <1>2, <1>5, <1>6, <1>7 DEF Z

LEMMA DefaultOK ==
  ASSUME NEW c, O!IsConfig(c), NEW i, O!IsIndex(i), NEW d, d = O!DefaultBase(c, i)
  PROVE  /\ d \in BaseNo /\ d \in DOMAIN i.rels
         /\ OfferedSet(c, i) # {} => d \in OfferedSet(c, i)
         /\ OfferedSet(c, i) = {} => d = i.legacy /\ O!Offered(c, i) = <<>>
         /\ (c.default # None /\ c.default \in OfferedSet(c, i)) => d = c.default
<1>1. PICK s : s = O!Offered(c, i)
  OBVIOUS
<1>2. PICK n : n = Cardinality(OfferedSet(c, i))
  OBVIOUS
<1>3. /\ OfferedSet(c, i) \subseteq BaseNo /\ OfferedSet(c, i) \subseteq DOMAIN i.rels
      /\ n \in Nat /\ s \in [1..n -> OfferedSet(c, i)] /\ Len(s) = n
      /\ \A z : O!Contains(s, z) <=> z \in OfferedSet(c, i)
      /\ i.legacy \in DOMAIN i.rels /\ i.legacy \in BaseNo
  BY <1>1, <1>2, OfferedOK
<1>4. d = IF c.default # None /\ O!Contains(s, c.default) THEN c.default
          ELSE IF s = <<>> THEN i.legacy ELSE s[1]
  BY <1>1 DEF O!DefaultBase
<1>5. s # <<>> => s[1] \in OfferedSet(c, i)
  BY <1>3
<1>6. s = <<>> => \A z : z \notin OfferedSet(c, i)
  BY <1>3 DEF O!Contains
<1>7. OfferedSet(c, i) = {} => s = <<>>
  BY <1>3
<1> QED BY <1>1, <1>3, <1>4, <1>5, <1>6, <1>7

LEMMA RequestedOK ==
  ASSUME NEW c, O!IsConfig(c), NEW i, O!IsIndex(i), NEW q, NEW b, b = O!RequestedBase(c, i, q), b # O!NoVersion
  PROVE  b \in BaseNo
<1>1. CASE q = None
  BY <1>1, DefaultOK DEF O!RequestedBase
<1>2. CASE q # None
  <2>1. b = q /\ O!Offers(c, i, q)
    BY <1>2 DEF O!RequestedBase
  <2> QED BY <2>1, OfferedOK DEF O!Offers
<1> QED BY <1>1, <1>2

LEMMA NewestRelease ==
  ASSUME NEW Z \in SUBSET Nat, IsFiniteSet(Z), Z # {}
  PROVE  O!Max(Z) \in Z
<1>1. PICK s, n : s = O!NewestFirst(Z) /\ n = Cardinality(Z)
  OBVIOUS
<1>2. /\ n \in Nat /\ s \in [1..n -> Z]
      /\ \A i, j \in 1..n : i < j => s[i] > s[j]
      /\ \A z \in Z : \E i \in 1..n : s[i] = z
  BY <1>1, NewestFirstOK
<1>a. PICK y \in Z, k \in 1..n : s[k] = y
  BY <1>2
<1>b. 1 \in 1..n
  BY <1>2, <1>a
<1>3. 1 \in 1..n /\ s[1] \in Z
  BY <1>2, <1>b
<1>4. \A z \in Z : s[1] >= z
  <2> TAKE z \in Z
  <2>1. PICK i \in 1..n : s[i] = z
    BY <1>2
  <2>2. i = 1 \/ 1 < i
    BY <1>2
  <2>3. s[1] = z \/ s[1] > z
    BY <1>2, <1>3, <2>1, <2>2
  <2>4. s[1] \in Nat /\ z \in Nat
    BY <1>3
  <2> QED BY <2>3, <2>4
<1> QED BY <1>3, <1>4 DEF O!Max

-----------------------------------------------------------------------------
(* Option definitions                                                      *)

Definition == [base : Nat, rel : Nat]
OptionJob ==
  [base : BaseNo, rel : Rels, ap : BaseNo \cup {None},
   state : {"queued", "claimed", "lost", "stored", "Success", "Failed"}]
OptionRequest ==
  [pc : {"idle", "look", "again", "get", "enqueue", "wait", "reread", "render"},
   kind : {None, "home", "versions", "edit", "page", "download"}, query : Nat \cup {None},
   base : Nat \cup {None}, rel : Nat \cup {None}, defs : Definition \cup {None}, job : Nat, lost : BOOLEAN,
   error : {None, "failed", "missing"}, link : Nat \cup {None}]

(* What is cached under a key are the definitions of the base and the      *)
(* release of that key, or what an older lobby left.                       *)
CacheOK(c) ==
  \A k \in DOMAIN c : c[k] = O!Unreadable \/ (c[k] \in Definition /\ k = O!Key(c[k].base, c[k].rel))

(* A job is for the base whose workers take it; one without a version is   *)
(* for the legacy base.                                                    *)
JobOK(j) == j \in OptionJob /\ j.base = IF j.ap = None THEN O!Legacy ELSE j.ap

Readable(c, b, r) == O!Key(b, r) \in DOMAIN c /\ c[O!Key(b, r)] # O!Unreadable

PageOK(x, js, c) ==
  /\ x \in OptionRequest
  /\ x.pc # "idle" => x.base \in BaseNo
  /\ x.pc = "look" /\ x.kind \in {"page", "download"} => x.rel \in Rels
  /\ x.pc \in {"again", "get", "enqueue", "wait", "reread"} => x.rel \in Rels
  /\ x.defs # None => x.pc = "render" /\ x.defs = O!Def(x.base, x.rel)
  /\ x.error = "missing" => x.lost
  /\ x.pc = "wait" =>
       /\ x.job \in 1..Len(js) /\ js[x.job].base = x.base /\ js[x.job].rel = x.rel
       /\ js[x.job].state \in {"stored", "Success"} => x.lost \/ Readable(c, x.base, x.rel)
  /\ x.pc = "reread" => x.lost \/ Readable(c, x.base, x.rel)

OptionsInv ==
  /\ index \in WorldIndexes /\ preload \in {None} \cup SUBSET (BaseNo \X Rels)
  /\ jobs \in Seq(OptionJob) /\ \A i \in 1..Len(jobs) : JobOK(jobs[i])
  /\ CacheOK(cache)
  /\ req \in [Pages -> OptionRequest] /\ \A r \in Pages : PageOK(req[r], jobs, cache)

LEMMA KeysDiffer ==
  ASSUME NEW a, NEW b, NEW r, NEW t, O!Key(a, r) = O!Key(b, t) PROVE a = b /\ r = t
BY DEF O!Key

LEMMA LegacyBase == O!Legacy \in BaseNo
BY OptionAssumption DEF O!Legacy, O!IsIndex, O!Numbered, O!NoVersion, BaseNo

LEMMA IdlePage == \A js, c : PageOK(O!Idle, js, c) /\ PageOK(O!Failed, js, c)
<1>1. O!Idle \in OptionRequest /\ O!Idle.pc = "idle" /\ O!Idle.defs = None /\ O!Idle.error = None
  BY DEF O!Idle, OptionRequest
<1>2. /\ O!Failed \in OptionRequest /\ O!Failed.pc = "idle" /\ O!Failed.defs = None
      /\ O!Failed.error = "failed"
  BY <1>1 DEF O!Failed, OptionRequest, O!Idle
<1> QED BY <1>1, <1>2, OptionAssumption DEF PageOK

LEMMA OptionsInitially == O!Init => OptionsInv
<1> SUFFICES ASSUME O!Init PROVE OptionsInv
  OBVIOUS
<1> USE OptionAssumption
<1>1. /\ index \in WorldIndexes /\ preload = None /\ req = [r \in Pages |-> O!Idle]
  BY DEF O!Init
<1>2. req \in [Pages -> OptionRequest] /\ \A r \in Pages : PageOK(req[r], jobs, cache)
  BY <1>1, IdlePage DEF PageOK
<1>3. CASE cache = <<>> /\ jobs = <<>>
  BY <1>1, <1>2, <1>3 DEF OptionsInv, CacheOK
<1>4. CASE /\ cache = [k \in {O!Key(O!Legacy, O!Max(Rels))} |-> O!Unreadable]
           /\ jobs = <<[base |-> O!Legacy, rel |-> O!Min(Rels), ap |-> None, state |-> "queued"]>>
  <2>1. CacheOK(cache)
    BY <1>4 DEF CacheOK
  <2>2. O!Min(Rels) \in Rels
    <3>1. PICK m \in Rels : \A y \in Rels : m <= y
      BY LeastNatural
    <3> QED BY <3>1 DEF O!Min
  <2>3. PICK j : j = [base |-> O!Legacy, rel |-> O!Min(Rels), ap |-> None, state |-> "queued"]
    OBVIOUS
  <2>4. j \in OptionJob /\ JobOK(j)
    BY <2>2, <2>3, LegacyBase DEF OptionJob, JobOK
  <2>5. jobs = <<j>>
    BY <1>4, <2>3
  <2>6. jobs \in Seq(OptionJob) /\ Len(jobs) = 1 /\ jobs[1] = j
    BY <2>4, <2>5
  <2>7. \A i \in 1..Len(jobs) : JobOK(jobs[i])
    BY <2>4, <2>6
  <2> QED BY <1>1, <1>2, <2>1, <2>6, <2>7 DEF OptionsInv
<1> QED BY <1>3, <1>4 DEF O!Init

(* A step of one page, which leaves the cache and the jobs                 *)
LEMMA PageStepOK ==
  ASSUME OptionsInv, NEW r \in Pages, NEW x, O!Become(r, x), PageOK(x, jobs, cache),
         UNCHANGED <<index, cache, jobs, preload>>
  PROVE  OptionsInv'
<1>1. req' = [req EXCEPT ![r] = x] /\ req \in [Pages -> OptionRequest] /\ x \in OptionRequest
  BY DEF O!Become, OptionsInv, PageOK
<1>2. req'[r] = x /\ (\A q \in Pages : q # r => req'[q] = req[q]) /\ req' \in [Pages -> OptionRequest]
  BY <1>1
<1>3. \A q \in Pages : PageOK(req'[q], jobs, cache)
  BY <1>2 DEF OptionsInv
<1> QED BY <1>2, <1>3 DEF OptionsInv

LEMMA FailOK ==
  ASSUME OptionsInv, NEW r \in Pages, O!Fail(r), UNCHANGED <<index, cache, jobs, preload>>
  PROVE  OptionsInv'
BY IdlePage, PageStepOK DEF O!Fail

LEMMA BeginOK ==
  ASSUME OptionsInv, NEW r \in Pages, NEW kind \in {"home", "versions", "edit", "page", "download"},
         NEW query \in Nat \cup {None}, NEW rel \in Nat \cup {None},
         kind \in {"page", "download"} => rel \in Rels,
         O!Begin(r, kind, query, rel)
  PROVE  OptionsInv'
<1>0. PICK b : b = O!RequestedBase(Config, index, query)
  OBVIOUS
<1>1. UNCHANGED <<index, cache, jobs, preload>>
  BY DEF O!Begin
<1>2. CASE b = O!NoVersion
  BY <1>0, <1>1, <1>2, FailOK DEF O!Begin
<1>3. CASE b # O!NoVersion
  <2>0. PICK x : x = [O!Idle EXCEPT !.pc = "look", !.kind = kind, !.query = query, !.base = b, !.rel = rel]
    OBVIOUS
  <2>1. O!Become(r, x)
    BY <1>0, <1>3, <2>0 DEF O!Begin
  <2>2. b \in BaseNo
    BY <1>0, <1>3, RequestedOK, OptionAssumption DEF OptionsInv
  <2>3. /\ x \in OptionRequest /\ x.pc = "look" /\ x.kind = kind /\ x.base = b /\ x.rel = rel
        /\ x.defs = None /\ x.error = None
    BY <2>0, <2>2 DEF O!Idle, OptionRequest, BaseNo
  <2>4. PageOK(x, jobs, cache)
    BY <2>2, <2>3, OptionAssumption DEF PageOK
  <2> QED BY <1>1, <2>1, <2>4, PageStepOK
<1> QED BY <1>2, <1>3

(* What the invariant says of a page that is being served                  *)
LEMMA PageFacts ==
  ASSUME OptionsInv, NEW r \in Pages, req[r].pc # "idle"
  PROVE  /\ req[r] \in OptionRequest /\ req[r].base \in BaseNo /\ PageOK(req[r], jobs, cache)
         /\ O!Known(r) => O!Seen(r) \subseteq Rels /\ (O!Seen(r) # {} => O!Max(O!Seen(r)) \in Rels)
<1>1. req[r] \in OptionRequest /\ req[r].base \in BaseNo /\ PageOK(req[r], jobs, cache)
  BY DEF OptionsInv, PageOK
<1>2. ASSUME O!Known(r) PROVE O!Seen(r) \subseteq Rels
  BY <1>2, OptionAssumption DEF O!Known, O!Seen, O!Described, OptionsInv
<1>3. ASSUME O!Known(r), O!Seen(r) # {} PROVE O!Max(O!Seen(r)) \in Rels
  <2>1. PICK Z : Z = O!Seen(r)
    OBVIOUS
  <2>2. Z \in SUBSET Rels /\ IsFiniteSet(Rels) /\ Rels \subseteq Nat
    BY <1>2, <1>3, <2>1, OptionAssumption
  <2>3. IsFiniteSet(Z) /\ Z \in SUBSET Nat
    BY <2>2, FS_Subset
  <2>4. O!Max(Z) \in Z
    BY <1>3, <2>1, <2>3, NewestRelease
  <2> QED BY <2>1, <2>2, <2>4
<1> QED BY <1>1, <1>2, <1>3

LEMMA WantedOK ==
  ASSUME OptionsInv, NEW r \in Pages, req[r].pc # "idle", NEW rel \in Rels, O!Wanted(r, rel),
         UNCHANGED <<index, cache, jobs, preload>>
  PROVE  OptionsInv'
<1>0. PICK x : x = [O!Idle EXCEPT !.pc = "get", !.query = req[r].query, !.base = req[r].base, !.rel = rel]
  OBVIOUS
<1>1. O!Become(r, x)
  BY <1>0 DEF O!Wanted
<1>2. req[r] \in OptionRequest /\ req[r].base \in BaseNo /\ rel \in Nat
  BY PageFacts, OptionAssumption
<1>3. /\ x \in OptionRequest /\ x.pc = "get" /\ x.base = req[r].base /\ x.rel = rel
      /\ x.defs = None /\ x.error = None
  BY <1>0, <1>2 DEF O!Idle, OptionRequest
<1>4. PageOK(x, jobs, cache)
  BY <1>2, <1>3, OptionAssumption DEF PageOK
<1> QED BY <1>1, <1>4, PageStepOK

LEMMA ShowOK ==
  ASSUME OptionsInv, NEW r \in Pages, req[r].pc # "idle", NEW rel \in Nat \cup {None}, NEW d \in Definition \cup {None},
         d # None => d = O!Def(req[r].base, rel), O!Show(r, rel, d), UNCHANGED <<index, cache, jobs, preload>>
  PROVE  OptionsInv'
<1>0. PICK x : x = [req[r] EXCEPT !.pc = "render", !.rel = rel, !.defs = d]
  OBVIOUS
<1>1. O!Become(r, x)
  BY <1>0 DEF O!Show
<1>2. req[r] \in OptionRequest /\ req[r].base \in BaseNo /\ PageOK(req[r], jobs, cache)
  BY PageFacts
<1>3. /\ x \in OptionRequest /\ x.pc = "render" /\ x.base = req[r].base /\ x.rel = rel
      /\ x.defs = d /\ x.error = req[r].error /\ x.lost = req[r].lost
  BY <1>0, <1>2 DEF OptionRequest
<1>4. PageOK(x, jobs, cache)
  BY <1>2, <1>3 DEF PageOK
<1> QED BY <1>1, <1>4, PageStepOK

(* What is read from the cache is of the base and the release asked for.   *)
LEMMA GetOK ==
  ASSUME CacheOK(cache), NEW b, NEW rel, NEW d, d = O!Get(b, rel)
  PROVE  /\ d # None => d \in Definition /\ d = O!Def(b, rel)
         /\ d = None => ~Readable(cache, b, rel)
<1>1. CASE Readable(cache, b, rel)
  <2>1. d = cache[O!Key(b, rel)] /\ d # O!Unreadable
    BY <1>1 DEF O!Get, Readable
  <2>2. d \in Definition /\ O!Key(b, rel) = O!Key(d.base, d.rel)
    BY <1>1, <2>1 DEF CacheOK, Readable
  <2>3. d.base = b /\ d.rel = rel
    BY <2>2, KeysDiffer
  <2>4. d # None
    BY <2>2, OptionAssumption DEF Definition
  <2> QED BY <1>1, <2>2, <2>3, <2>4 DEF O!Def, Definition
<1>2. CASE ~Readable(cache, b, rel)
  BY <1>2 DEF O!Get, Readable
<1> QED BY <1>1, <1>2

(* options_gen, options_apworld_versions, options_gen_api, edit_yaml and   *)
(* download_yaml                                                           *)
LEMMA LooksOK ==
  ASSUME OptionsInv, NEW r \in Pages,
         O!OptionsGen(r) \/ O!OptionsGenApi(r) \/ O!EditYaml(r) \/ O!DownloadYaml(r)
  PROVE  OptionsInv'
<1>1. req[r].pc = "look" /\ UNCHANGED <<index, cache, jobs, preload>>
  BY DEF O!OptionsGen, O!OptionsGenApi, O!EditYaml, O!DownloadYaml
<1>2. /\ PageOK(req[r], jobs, cache)
      /\ O!Known(r) => O!Seen(r) \subseteq Rels /\ (O!Seen(r) # {} => O!Max(O!Seen(r)) \in Rels)
  BY <1>1, PageFacts
<1>3. CASE O!Fail(r)
  BY <1>1, <1>3, FailOK
<1>4. CASE \E rel \in Rels : O!Wanted(r, rel)
  BY <1>1, <1>4, WantedOK
<1>5. CASE O!Show(r, None, None)
  BY <1>1, <1>5, ShowOK
<1>6. CASE O!OptionsGen(r)
  BY <1>3, <1>5, <1>6 DEF O!OptionsGen
<1>7. CASE O!OptionsGenApi(r)
  BY <1>1, <1>2, <1>3, <1>4, <1>7 DEF O!OptionsGenApi
<1>8. CASE O!EditYaml(r)
  BY <1>1, <1>2, <1>3, <1>4, <1>8 DEF O!EditYaml
<1>9. CASE O!DownloadYaml(r)
  BY <1>1, <1>2, <1>3, <1>4, <1>9 DEF O!DownloadYaml
<1> QED BY <1>6, <1>7, <1>8, <1>9

LEMMA VersionsOK ==
  ASSUME OptionsInv, NEW r \in Pages, O!OptionsApworldVersions(r)
  PROVE  OptionsInv'
<1>1. req[r].pc = "look" /\ UNCHANGED <<index, cache, jobs, preload>>
  BY DEF O!OptionsApworldVersions
<1>2. /\ PageOK(req[r], jobs, cache)
      /\ O!Known(r) => O!Seen(r) \subseteq Rels /\ (O!Seen(r) # {} => O!Max(O!Seen(r)) \in Rels)
  BY <1>1, PageFacts
<1>3. CASE O!Fail(r)
  BY <1>1, <1>3, FailOK
<1>4. CASE O!Known(r) /\ O!Seen(r) # {} /\ O!Become(r, [req[r] EXCEPT !.pc = "again", !.rel = O!Max(O!Seen(r))])
  <2>0. PICK rel, x : rel = O!Max(O!Seen(r)) /\ x = [req[r] EXCEPT !.pc = "again", !.rel = rel]
    OBVIOUS
  <2>1. O!Become(r, x) /\ rel \in Rels /\ rel \in Nat /\ req[r] \in OptionRequest
    BY <1>2, <1>4, <2>0, OptionAssumption DEF PageOK
  <2>2. /\ x \in OptionRequest /\ x.pc = "again" /\ x.base = req[r].base /\ x.rel = rel
        /\ x.defs = req[r].defs /\ x.error = req[r].error /\ x.lost = req[r].lost
    BY <2>0, <2>1 DEF OptionRequest
  <2>3. PageOK(x, jobs, cache)
    BY <1>1, <1>2, <2>1, <2>2 DEF PageOK
  <2> QED BY <1>1, <2>1, <2>3, PageStepOK
<1> QED BY <1>3, <1>4 DEF O!OptionsApworldVersions

LEMMA HandOverOK ==
  ASSUME OptionsInv, NEW r \in Pages, O!HandOver(r)
  PROVE  OptionsInv'
<1>1. req[r].pc = "again" /\ O!Begin(r, "page", req[r].query, req[r].rel)
  BY DEF O!HandOver
<1>2. req[r].query \in Nat \cup {None} /\ req[r].rel \in Nat \cup {None} /\ req[r].rel \in Rels
  BY <1>1, PageFacts DEF OptionRequest, PageOK
<1> QED BY <1>1, <1>2, BeginOK

LEMMA AskOK ==
  ASSUME OptionsInv, NEW r \in Pages, O!Ask(r)
  PROVE  OptionsInv'
<1>1. PICK q \in O!Queries :
        \/ \E kind \in {"home", "versions", "edit"} : O!Begin(r, kind, q, None)
        \/ \E kind \in {"page", "download"}, rel \in Rels : O!Begin(r, kind, q, rel)
  BY DEF O!Ask
<1>2. q \in Nat \cup {None}
  BY OptionAssumption DEF O!Queries, O!Bases, O!Described, O!NoVersion, O!IsIndex, O!Numbered
<1>3. CASE \E kind \in {"home", "versions", "edit"} : O!Begin(r, kind, q, None)
  BY <1>2, <1>3, BeginOK
<1>4. CASE \E kind \in {"page", "download"}, rel \in Rels : O!Begin(r, kind, q, rel)
  <2>1. PICK kind \in {"page", "download"}, rel \in Rels : O!Begin(r, kind, q, rel)
    BY <1>4
  <2>2. rel \in Nat \cup {None}
    BY OptionAssumption
  <2> QED BY <1>2, <2>1, <2>2, BeginOK
<1> QED BY <1>1, <1>3, <1>4

(* get_options_def                                                         *)
LEMMA GetOptionsOK ==
  ASSUME OptionsInv, NEW r \in Pages, O!GetOptionsDef(r)
  PROVE  OptionsInv'
<1>0. PICK d : d = O!Get(req[r].base, req[r].rel)
  OBVIOUS
<1>1. /\ req[r].pc = "get" /\ UNCHANGED <<index, cache, jobs, preload>>
      /\ IF d # None THEN O!Show(r, req[r].rel, d) ELSE O!Become(r, [req[r] EXCEPT !.pc = "enqueue"])
  BY <1>0 DEF O!GetOptionsDef
<1>2. PageOK(req[r], jobs, cache) /\ req[r] \in OptionRequest /\ CacheOK(cache)
  BY <1>1, PageFacts DEF OptionsInv
<1>3. d # None => d \in Definition /\ d = O!Def(req[r].base, req[r].rel)
  BY <1>0, <1>2, GetOK
<1>4. CASE d # None
  <2>1. req[r].rel \in Nat \cup {None}
    BY <1>2 DEF OptionRequest
  <2> QED BY <1>1, <1>3, <1>4, <2>1, ShowOK
<1>5. CASE d = None
  <2>0. PICK x : x = [req[r] EXCEPT !.pc = "enqueue"]
    OBVIOUS
  <2>1. /\ x \in OptionRequest /\ x.pc = "enqueue" /\ x.base = req[r].base /\ x.rel = req[r].rel
        /\ x.defs = req[r].defs /\ x.error = req[r].error /\ x.lost = req[r].lost
    BY <1>2, <2>0 DEF OptionRequest
  <2>2. PageOK(x, jobs, cache)
    BY <1>1, <1>2, <2>1 DEF PageOK
  <2> QED BY <1>1, <1>5, <2>0, <2>2, PageStepOK
<1> QED BY <1>4, <1>5

LEMMA WaitOK ==
  ASSUME OptionsInv, NEW r \in Pages, O!WaitForJob(r)
  PROVE  OptionsInv'
<1>1. req[r].pc = "wait" /\ UNCHANGED <<index, cache, jobs, preload>>
  BY DEF O!WaitForJob
<1>2. PageOK(req[r], jobs, cache) /\ req[r] \in OptionRequest
  BY <1>1, PageFacts
<1>3. CASE O!Fail(r)
  BY <1>1, <1>3, FailOK
<1>4. CASE jobs[req[r].job].state = "Success" /\ O!Become(r, [req[r] EXCEPT !.pc = "reread"])
  <2>0. PICK x : x = [req[r] EXCEPT !.pc = "reread"]
    OBVIOUS
  <2>1. /\ x \in OptionRequest /\ x.pc = "reread" /\ x.base = req[r].base /\ x.rel = req[r].rel
        /\ x.defs = req[r].defs /\ x.error = req[r].error /\ x.lost = req[r].lost
    BY <1>2, <2>0 DEF OptionRequest
  <2>2. PageOK(x, jobs, cache)
    BY <1>1, <1>2, <1>4, <2>1 DEF PageOK
  <2> QED BY <1>1, <1>4, <2>0, <2>2, PageStepOK
<1> QED BY <1>3, <1>4 DEF O!WaitForJob

LEMMA RereadOK ==
  ASSUME OptionsInv, NEW r \in Pages, O!Reread(r)
  PROVE  OptionsInv'
<1>0. PICK d : d = O!Get(req[r].base, req[r].rel)
  OBVIOUS
<1>1. /\ req[r].pc = "reread" /\ UNCHANGED <<index, cache, jobs, preload>>
      /\ IF d # None THEN O!Show(r, req[r].rel, d)
         ELSE O!Become(r, [O!Idle EXCEPT !.error = "missing", !.lost = req[r].lost])
  BY <1>0 DEF O!Reread
<1>2. PageOK(req[r], jobs, cache) /\ req[r] \in OptionRequest /\ CacheOK(cache)
  BY <1>1, PageFacts DEF OptionsInv
<1>3. /\ d # None => d \in Definition /\ d = O!Def(req[r].base, req[r].rel)
      /\ d = None => ~Readable(cache, req[r].base, req[r].rel)
  BY <1>0, <1>2, GetOK
<1>4. CASE d # None
  <2>1. req[r].rel \in Nat \cup {None}
    BY <1>2 DEF OptionRequest
  <2> QED BY <1>1, <1>3, <1>4, <2>1, ShowOK
<1>5. CASE d = None
  <2>0. PICK x : x = [O!Idle EXCEPT !.error = "missing", !.lost = req[r].lost]
    OBVIOUS
  <2>1. req[r].lost \in BOOLEAN /\ req[r].lost
    BY <1>1, <1>2, <1>3, <1>5 DEF PageOK, OptionRequest
  <2>2. /\ x \in OptionRequest /\ x.pc = "idle" /\ x.defs = None /\ x.lost = req[r].lost
    BY <1>2, <2>0, <2>1 DEF OptionRequest, O!Idle
  <2>3. PageOK(x, jobs, cache)
    BY <2>1, <2>2 DEF PageOK
  <2> QED BY <1>1, <1>5, <2>0, <2>3, PageStepOK
<1> QED BY <1>4, <1>5

LEMMA RenderOK ==
  ASSUME OptionsInv, NEW r \in Pages, O!Render(r)
  PROVE  OptionsInv'
<1>0. PICK link : link = O!BaseQuery(Config, index, req[r].base)
  OBVIOUS
<1>1. req[r].pc = "render" /\ UNCHANGED <<index, cache, jobs, preload>> /\ O!Become(r, [O!Idle EXCEPT !.link = link])
  BY <1>0 DEF O!Render, O!Page
<1>2. link \in Nat \cup {None}
  BY <1>0, <1>1, PageFacts DEF O!BaseQuery, BaseNo
<1>3. PICK x : x = [O!Idle EXCEPT !.link = link]
  OBVIOUS
<1>4. x \in OptionRequest /\ x.pc = "idle" /\ x.defs = None /\ x.error = None
  BY <1>2, <1>3 DEF OptionRequest, O!Idle
<1>5. PageOK(x, jobs, cache)
  BY <1>4, OptionAssumption DEF PageOK
<1> QED BY <1>1, <1>3, <1>5, PageStepOK

(* One more job: nothing changes for who waits for another.                *)
LEMMA EnqueuedOK ==
  ASSUME OptionsInv, NEW b \in BaseNo, NEW rel \in Rels, O!EnqueueJobIn(b, rel)
  PROVE  /\ jobs' \in Seq(OptionJob) /\ (\A i \in 1..Len(jobs') : JobOK(jobs'[i]))
         /\ Len(jobs') = Len(jobs) + 1 /\ Len(jobs) \in Nat
         /\ LET j == jobs'[Len(jobs) + 1] IN j.base = b /\ j.rel = rel /\ j.state = "queued"
         /\ \A x, c : PageOK(x, jobs, c) => PageOK(x, jobs', c)
<1>0. PICK j : j = [base |-> b, rel |-> rel, ap |-> b, state |-> "queued"]
  OBVIOUS
<1>1. jobs' = Append(jobs, j) /\ jobs \in Seq(OptionJob) /\ \A i \in 1..Len(jobs) : JobOK(jobs[i])
  BY <1>0 DEF O!EnqueueJobIn, OptionsInv
<1>2. j \in OptionJob /\ JobOK(j) /\ j.base = b /\ j.rel = rel /\ j.state = "queued"
  BY <1>0, SessionAssumption DEF OptionJob, JobOK, BaseNo
<1>3. /\ jobs' \in Seq(OptionJob) /\ Len(jobs') = Len(jobs) + 1 /\ Len(jobs) \in Nat
      /\ jobs'[Len(jobs) + 1] = j /\ \A i \in 1..Len(jobs) : jobs'[i] = jobs[i] /\ i \in 1..Len(jobs')
  BY <1>1, <1>2
<1>4. \A i \in 1..Len(jobs') : JobOK(jobs'[i])
  BY <1>1, <1>2, <1>3
<1>5. \A x, c : PageOK(x, jobs, c) => PageOK(x, jobs', c)
  BY <1>3 DEF PageOK
<1> QED BY <1>2, <1>3, <1>4, <1>5

LEMMA EnqueueOK ==
  ASSUME OptionsInv, NEW r \in Pages, O!Enqueue(r)
  PROVE  OptionsInv'
<1>a. PICK n : n = Len(jobs) + 1
  OBVIOUS
<1>0. PICK x : x = [req[r] EXCEPT !.pc = "wait", !.job = n]
  OBVIOUS
<1>1. /\ req[r].pc = "enqueue" /\ O!EnqueueJobIn(req[r].base, req[r].rel) /\ req' = [req EXCEPT ![r] = x]
      /\ UNCHANGED <<index, cache, preload>>
  BY <1>a, <1>0 DEF O!Enqueue, O!Become
<1>2. /\ PageOK(req[r], jobs, cache) /\ req[r] \in OptionRequest /\ req[r].base \in BaseNo /\ req[r].rel \in Rels
  BY <1>1, PageFacts DEF PageOK
<1>3. /\ jobs' \in Seq(OptionJob) /\ (\A i \in 1..Len(jobs') : JobOK(jobs'[i]))
      /\ Len(jobs') = Len(jobs) + 1 /\ Len(jobs) \in Nat
      /\ LET j == jobs'[Len(jobs) + 1] IN j.base = req[r].base /\ j.rel = req[r].rel /\ j.state = "queued"
      /\ \A y, c : PageOK(y, jobs, c) => PageOK(y, jobs', c)
  BY <1>1, <1>2, EnqueuedOK
<1>4. /\ x \in OptionRequest /\ x.pc = "wait" /\ x.base = req[r].base /\ x.rel = req[r].rel
      /\ x.defs = req[r].defs /\ x.error = req[r].error /\ x.lost = req[r].lost /\ x.job = n
  <2>1. n \in Nat
    BY <1>a, <1>3
  <2> QED BY <1>0, <1>2, <2>1 DEF OptionRequest
<1>5. x.job \in 1..Len(jobs')
  BY <1>a, <1>3, <1>4
<1>6. PageOK(x, jobs', cache)
  BY <1>a, <1>1, <1>2, <1>3, <1>4, <1>5 DEF PageOK
<1>7. req' \in [Pages -> OptionRequest] /\ \A q \in Pages : PageOK(req'[q], jobs', cache)
  BY <1>1, <1>3, <1>4, <1>6 DEF OptionsInv
<1> QED BY <1>1, <1>3, <1>7 DEF OptionsInv

(* The state of one job changes, and with it what is cached.               *)
LEMMA JobStepOK ==
  ASSUME OptionsInv, NEW i \in 1..Len(jobs), NEW st \in {"claimed", "lost", "stored", "Success", "Failed"},
         jobs' = [jobs EXCEPT ![i].state = st], UNCHANGED <<index, req, preload>>, CacheOK(cache'),
         \A b, rel : Readable(cache, b, rel) => Readable(cache', b, rel),
         st \in {"stored", "Success"} =>
           jobs[i].state \in {"stored", "Success"} \/ Readable(cache', jobs[i].base, jobs[i].rel)
  PROVE  OptionsInv'
<1>0. PICK j : j = [jobs[i] EXCEPT !.state = st]
  OBVIOUS
<1>1. jobs \in Seq(OptionJob) /\ jobs' = [jobs EXCEPT ![i] = j] /\ jobs[i] \in OptionJob /\ JobOK(jobs[i])
  BY <1>0 DEF OptionsInv
<1>2. j \in OptionJob /\ j.base = jobs[i].base /\ j.rel = jobs[i].rel /\ j.ap = jobs[i].ap /\ j.state = st
  BY <1>0, <1>1 DEF OptionJob
<1>3. /\ jobs' \in Seq(OptionJob) /\ Len(jobs') = Len(jobs)
      /\ \A k \in 1..Len(jobs) : jobs'[k] = IF k = i THEN j ELSE jobs[k]
  BY <1>1, <1>2
<1>4. \A k \in 1..Len(jobs') : JobOK(jobs'[k])
  BY <1>1, <1>2, <1>3 DEF OptionsInv, JobOK
<1>5. ASSUME NEW r \in Pages PROVE PageOK(req[r], jobs', cache')
  <2>1. PageOK(req[r], jobs, cache)
    BY DEF OptionsInv
  <2>2. ASSUME req[r].pc = "wait"
        PROVE  /\ req[r].job \in 1..Len(jobs') /\ jobs'[req[r].job].base = req[r].base
               /\ jobs'[req[r].job].rel = req[r].rel
               /\ jobs'[req[r].job].state \in {"stored", "Success"} =>
                    req[r].lost \/ Readable(cache', req[r].base, req[r].rel)
    BY <1>2, <1>3, <2>1, <2>2 DEF PageOK
  <2> QED BY <2>1, <2>2 DEF PageOK
<1> QED BY <1>3, <1>4, <1>5 DEF OptionsInv

LEMMA JobDomain == ASSUME OptionsInv PROVE DOMAIN jobs = 1..Len(jobs)
BY DEF OptionsInv

LEMMA WorkerOK ==
  ASSUME OptionsInv, NEW i, O!WorkerStep(i) \/ O!Report(i)
  PROVE  OptionsInv'
<1>1. i \in 1..Len(jobs) /\ UNCHANGED <<index, req, preload, cache>> /\ CacheOK(cache)
  BY JobDomain DEF O!WorkerStep, O!Report, OptionsInv
<1>2. CASE O!WorkerStep(i)
  BY <1>1, <1>2, JobStepOK DEF O!WorkerStep
<1>3. CASE O!Report(i)
  BY <1>1, <1>3, JobStepOK DEF O!Report
<1> QED BY <1>2, <1>3

LEMMA OptionsCallbackOK ==
  ASSUME OptionsInv, NEW i, O!OptionsGenCallback(i)
  PROVE  OptionsInv'
<1>1. i \in 1..Len(jobs) /\ UNCHANGED <<index, preload>> /\ CacheOK(cache)
  BY JobDomain DEF O!OptionsGenCallback, OptionsInv
<1>2. CASE jobs' = [jobs EXCEPT ![i].state = "Failed"] /\ UNCHANGED <<cache, req>>
  BY <1>1, <1>2, JobStepOK
<1>4. CASE /\ jobs' = [jobs EXCEPT ![i].state = "stored"] /\ UNCHANGED cache
           /\ req' = [r \in Pages |->
                        IF req[r].pc = "wait" /\ req[r].job = i THEN [req[r] EXCEPT !.lost = TRUE] ELSE req[r]]
  <2>1. /\ jobs \in Seq(OptionJob) /\ JobOK(jobs[i]) /\ jobs[i] \in OptionJob
        /\ \A k \in 1..Len(jobs) : JobOK(jobs[k])
    BY <1>1 DEF OptionsInv
  <2>2. PICK j : j = [jobs[i] EXCEPT !.state = "stored"]
    OBVIOUS
  <2>3. j \in OptionJob /\ j.base = jobs[i].base /\ j.rel = jobs[i].rel /\ j.ap = jobs[i].ap
    BY <2>1, <2>2 DEF OptionJob
  <2>4. /\ jobs' \in Seq(OptionJob) /\ Len(jobs') = Len(jobs)
        /\ \A k \in 1..Len(jobs) : jobs'[k] = IF k = i THEN j ELSE jobs[k]
    BY <1>1, <1>4, <2>1, <2>2, <2>3
  <2>5. \A k \in 1..Len(jobs') : JobOK(jobs'[k])
    BY <2>1, <2>3, <2>4 DEF JobOK
  <2>6. ASSUME NEW r \in Pages PROVE PageOK(req'[r], jobs', cache)
    <3>1. PageOK(req[r], jobs, cache) /\ req[r] \in OptionRequest
      BY DEF OptionsInv
    <3>2. CASE req[r].pc = "wait" /\ req[r].job = i
      <4>0. PICK x : x = [req[r] EXCEPT !.lost = TRUE]
        OBVIOUS
      <4>1. req'[r] = x
        BY <1>4, <3>2, <4>0
      <4>2. /\ x \in OptionRequest /\ x.pc = req[r].pc /\ x.base = req[r].base /\ x.rel = req[r].rel
            /\ x.defs = req[r].defs /\ x.error = req[r].error /\ x.lost = TRUE /\ x.job = req[r].job
        BY <3>1, <4>0 DEF OptionRequest
      <4> QED BY <2>3, <2>4, <3>1, <3>2, <4>1, <4>2 DEF PageOK
    <3>3. CASE ~(req[r].pc = "wait" /\ req[r].job = i)
      <4>1. req'[r] = req[r]
        BY <1>4, <3>3
      <4> QED BY <2>4, <3>1, <3>3, <4>1 DEF PageOK
    <3> QED BY <3>2, <3>3
  <2>7. req' \in [Pages -> OptionRequest]
    <3>1. \A r \in Pages : req'[r] \in OptionRequest
      BY <2>6 DEF PageOK
    <3> QED BY <1>4, <3>1
  <2> QED BY <1>1, <1>4, <2>4, <2>5, <2>6, <2>7 DEF OptionsInv
<1>3. CASE /\ O!Insert(IF jobs[i].ap = None THEN O!Legacy ELSE jobs[i].ap, jobs[i].rel, O!Generated(jobs[i]))
           /\ jobs' = [jobs EXCEPT ![i].state = "stored"] /\ UNCHANGED req
  <2>1. JobOK(jobs[i])
    BY <1>1 DEF OptionsInv
  <2>2. PICK b, rel, d, k : b = jobs[i].base /\ rel = jobs[i].rel /\ d = O!Def(b, rel) /\ k = O!Key(b, rel)
    OBVIOUS
  <2>3. cache' = [l \in DOMAIN cache \cup {k} |-> IF l = k THEN d ELSE cache[l]]
    BY <1>3, <2>1, <2>2 DEF JobOK, O!Insert, O!Generated
  <2>4. b \in BaseNo /\ rel \in Rels /\ rel \in Nat
    BY <2>1, <2>2, OptionAssumption DEF JobOK, OptionJob
  <2>5. d \in Definition /\ d.base = b /\ d.rel = rel
    BY <2>2, <2>4 DEF O!Def, Definition, BaseNo
  <2>6. d # O!Unreadable
    BY <2>4, <2>5, SessionAssumption DEF O!Unreadable, O!Def, BaseNo
  <2>7. DOMAIN cache' = DOMAIN cache \cup {k} /\ cache'[k] = d /\ \A l \in DOMAIN cache : l # k => cache'[l] = cache[l]
    BY <2>3
  <2>8. CacheOK(cache')
    BY <1>1, <2>2, <2>5, <2>7 DEF CacheOK
  <2>9. \A a, s : Readable(cache, a, s) => Readable(cache', a, s)
    BY <2>6, <2>7 DEF Readable
  <2>10. Readable(cache', jobs[i].base, jobs[i].rel)
    BY <2>2, <2>6, <2>7 DEF Readable
  <2> QED BY <1>1, <1>3, <2>8, <2>9, <2>10, JobStepOK
<1> QED BY <1>2, <1>3, <1>4 DEF O!OptionsGenCallback

LEMMA PreloadStartOK ==
  ASSUME OptionsInv, O!PreloadStart
  PROVE  OptionsInv'
<1>1. /\ preload' = {<<b, O!Max(index.rels[b])>> : b \in {c \in O!ToSet(O!Offered(Config, index)) : index.rels[c] # {}}}
      /\ UNCHANGED <<index, cache, jobs, req>>
  BY DEF O!PreloadStart
<1>2. /\ index \in WorldIndexes /\ O!IsIndex(index) /\ O!IsConfig(Config)
      /\ \A b \in DOMAIN index.rels : index.rels[b] \subseteq Rels
  BY OptionAssumption DEF OptionsInv
<1>3. /\ O!ToSet(O!Offered(Config, index)) = OfferedSet(Config, index)
      /\ OfferedSet(Config, index) \subseteq BaseNo /\ OfferedSet(Config, index) \subseteq DOMAIN index.rels
  BY <1>2, OfferedOK
<1>4. ASSUME NEW b \in OfferedSet(Config, index), index.rels[b] # {}
      PROVE  b \in BaseNo /\ O!Max(index.rels[b]) \in Rels
  <2>1. PICK Z : Z = index.rels[b]
    OBVIOUS
  <2>2. Z \in SUBSET Rels /\ IsFiniteSet(Rels) /\ Rels \subseteq Nat
    BY <1>2, <1>3, <2>1, OptionAssumption
  <2>3. IsFiniteSet(Z) /\ Z \in SUBSET Nat
    BY <2>2, FS_Subset
  <2>4. O!Max(Z) \in Z
    BY <1>4, <2>1, <2>3, NewestRelease
  <2> QED BY <1>3, <2>1, <2>2, <2>4
<1>5. preload' \in SUBSET (BaseNo \X Rels)
  BY <1>1, <1>3, <1>4
<1> QED BY <1>1, <1>5 DEF OptionsInv

LEMMA PreloadOneOK ==
  ASSUME OptionsInv, O!PreloadOne
  PROVE  OptionsInv'
<1>1. PICK d \in preload : /\ preload' = preload \ {d}
                           /\ \/ UNCHANGED jobs
                              \/ O!EnqueueJobIn(d[1], d[2])
  BY DEF O!PreloadOne
<1>2. preload \in SUBSET (BaseNo \X Rels) /\ UNCHANGED <<index, cache, req>>
  BY DEF O!PreloadOne, OptionsInv
<1>3. preload' \in SUBSET (BaseNo \X Rels) /\ d[1] \in BaseNo /\ d[2] \in Rels
  BY <1>1, <1>2
<1>4. CASE UNCHANGED jobs
  BY <1>2, <1>3, <1>4 DEF OptionsInv
<1>5. CASE O!EnqueueJobIn(d[1], d[2])
  <2>1. /\ jobs' \in Seq(OptionJob) /\ (\A i \in 1..Len(jobs') : JobOK(jobs'[i]))
        /\ \A y, c : PageOK(y, jobs, c) => PageOK(y, jobs', c)
    BY <1>3, <1>5, EnqueuedOK
  <2> QED BY <1>2, <1>3, <2>1 DEF OptionsInv
<1> QED BY <1>1, <1>4, <1>5

LEMMA ExpireOK ==
  ASSUME OptionsInv, O!Expire
  PROVE  OptionsInv'
<1>1. PICK k \in DOMAIN cache :
        /\ cache' = [l \in DOMAIN cache \ {k} |-> cache[l]]
        /\ req' = [r \in Pages |->
                     IF req[r].pc \in {"wait", "reread"} /\ O!Key(req[r].base, req[r].rel) = k
                     THEN [req[r] EXCEPT !.lost = TRUE] ELSE req[r]]
  BY DEF O!Expire
<1>2. UNCHANGED <<index, jobs, preload>>
  BY DEF O!Expire
<1>3. CacheOK(cache')
  BY <1>1 DEF CacheOK, OptionsInv
<1>4. \A b, rel : (Readable(cache, b, rel) /\ O!Key(b, rel) # k) => Readable(cache', b, rel)
  BY <1>1 DEF Readable
<1>5. ASSUME NEW r \in Pages PROVE PageOK(req'[r], jobs, cache')
  <2>1. PageOK(req[r], jobs, cache) /\ req[r] \in OptionRequest
    BY DEF OptionsInv
  <2>2. CASE req[r].pc \in {"wait", "reread"} /\ O!Key(req[r].base, req[r].rel) = k
    <3>0. PICK x : x = [req[r] EXCEPT !.lost = TRUE]
      OBVIOUS
    <3>1. req'[r] = x
      BY <1>1, <2>2, <3>0
    <3>2. /\ x \in OptionRequest /\ x.pc = req[r].pc /\ x.base = req[r].base /\ x.rel = req[r].rel
          /\ x.defs = req[r].defs /\ x.error = req[r].error /\ x.lost = TRUE /\ x.job = req[r].job
          /\ x.kind = req[r].kind
      BY <2>1, <3>0 DEF OptionRequest
    <3> QED BY <2>1, <3>1, <3>2 DEF PageOK
  <2>3. CASE ~(req[r].pc \in {"wait", "reread"} /\ O!Key(req[r].base, req[r].rel) = k)
    <3>1. req'[r] = req[r]
      BY <1>1, <2>3
    <3> QED BY <1>4, <2>1, <2>3, <3>1 DEF PageOK
  <2> QED BY <2>2, <2>3
<1>6. req' \in [Pages -> OptionRequest]
  <2>1. \A r \in Pages : req'[r] \in OptionRequest
    BY <1>5 DEF PageOK
  <2> QED BY <1>1, <2>1
<1> QED BY <1>2, <1>3, <1>5, <1>6 DEF OptionsInv

LEMMA OptionsStep == OptionsInv /\ [O!Next]_(O!vars) => OptionsInv'
<1> SUFFICES ASSUME OptionsInv, [O!Next]_(O!vars) PROVE OptionsInv'
  OBVIOUS
<1>1. ASSUME NEW r \in Pages, O!Ask(r) \/ O!ReqStep(r) PROVE OptionsInv'
  BY <1>1, AskOK, LooksOK, VersionsOK, HandOverOK, GetOptionsOK, EnqueueOK, WaitOK, RereadOK, RenderOK DEF O!ReqStep
<1>2. ASSUME NEW i \in 1..MaxJobs, O!WorkerStep(i) \/ O!OptionsGenCallback(i) \/ O!Report(i) PROVE OptionsInv'
  BY <1>2, WorkerOK, OptionsCallbackOK
<1>3. CASE O!Refresh
  BY <1>3 DEF O!Refresh, OptionsInv
<1>4. CASE UNCHANGED O!vars
  BY <1>4 DEF O!vars, OptionsInv
<1> QED BY <1>1, <1>2, <1>3, <1>4, PreloadStartOK, PreloadOneOK, ExpireOK DEF O!Next

LEMMA OptionsAreSafe == OptionsInv => O!DefinitionsOfTheBase /\ O!StoredBeforeReported
BY DEF OptionsInv, PageOK, O!DefinitionsOfTheBase, O!StoredBeforeReported

(* Only Render ends a page that is being made.                             *)
LEMMA LinkOnBase ==
  ASSUME OptionsInv, [O!Next]_(O!vars), NEW r \in Pages, req[r].pc = "render", req'[r].pc = "idle"
  PROVE  O!RequestedBase(Config, index, req'[r].link) \in {req[r].base, O!NoVersion}
<1>0. req \in [Pages -> OptionRequest] /\ req[r].base \in BaseNo
  BY PageFacts DEF OptionsInv
<1>1. ASSUME NEW q \in Pages, q # r, O!Ask(q) \/ O!ReqStep(q) PROVE FALSE
  <2>1. \A x : O!Become(q, x) => req'[r] = req[r]
    BY <1>0, <1>1 DEF O!Become
  <2>2. \E x : O!Become(q, x)
    BY <1>1, Zenon DEF O!Ask, O!ReqStep, O!Begin, O!OptionsGen, O!OptionsApworldVersions, O!HandOver, O!OptionsGenApi,
         O!EditYaml, O!DownloadYaml, O!GetOptionsDef, O!Enqueue, O!WaitForJob, O!Reread, O!Render, O!Fail, O!Wanted,
         O!Show, O!Page
  <2> QED BY <2>1, <2>2
<1>2. ASSUME O!Ask(r) \/ O!ReqStep(r) PROVE O!Render(r)
  BY <1>2 DEF O!Ask, O!ReqStep, O!OptionsGen, O!OptionsApworldVersions, O!HandOver, O!OptionsGenApi,
         O!EditYaml, O!DownloadYaml, O!GetOptionsDef, O!Enqueue, O!WaitForJob, O!Reread
<1>3. O!Render(r)
  <2>1. req' # req
    OBVIOUS
  <2>2. ~O!Expire
    BY DEF O!Expire
  <2>3. ASSUME NEW i PROVE ~O!OptionsGenCallback(i)
    BY <2>1 DEF O!OptionsGenCallback
  <2> QED BY <1>1, <1>2, <2>1, <2>2, <2>3 DEF O!Next, O!vars, O!WorkerStep, O!Report, O!PreloadStart, O!PreloadOne,
            O!Refresh
<1>4. PICK b : b = req[r].base
  OBVIOUS
<1>5. req'[r].link = O!BaseQuery(Config, index, b)
  BY <1>0, <1>3, <1>4 DEF O!Render, O!Page, O!Become, O!Idle
<1>6. b # None
  BY <1>0, <1>4, SessionAssumption DEF BaseNo
<1> QED BY <1>4, <1>5, <1>6 DEF O!BaseQuery, O!RequestedBase

(* get_options_def, the pages that call it, the callback that stores what  *)
(* a worker made and the expiry of the cache, for any number of requests,  *)
(* jobs, bases, releases and refreshes.                                    *)
THEOREM OptionsAreOfTheBase == O!Spec => OptionsOfTheBase
<1>1. OptionsInv /\ [O!Next]_(O!vars) =>
        [\A r \in Pages :
           (req[r].pc = "render" /\ req'[r].pc = "idle") =>
             O!RequestedBase(Config, index, req'[r].link) \in {req[r].base, O!NoVersion}]_req
  BY LinkOnBase
<1> QED BY <1>1, OptionsInitially, OptionsStep, OptionsAreSafe, PTL DEF O!Spec, OptionsOfTheBase, O!LinksStayOnBase

-----------------------------------------------------------------------------
(* Forms of rooms and templates                                            *)

LEMMA SameBases ==
  ASSUME NEW c, NEW i, NEW q
  PROVE  /\ R!Offered(c, i) = O!Offered(c, i) /\ R!RequestedBase(c, i, q) = O!RequestedBase(c, i, q)
         /\ R!Described(i) = DOMAIN i.rels /\ R!NoVersion = 0 /\ O!NoVersion = 0 /\ O!Numbered = BaseNo
<1>1. R!Offered(c, i) = O!Offered(c, i)
  BY Zenon DEF R!Offered, O!Offered, R!Described, O!Described, R!NewestFirst, O!NewestFirst, R!Cardinality, O!Cardinality,
               R!IsFiniteSet, O!IsFiniteSet
<1>2. \A s, x : R!Contains(s, x) <=> O!Contains(s, x)
  BY DEF R!Contains, O!Contains
<1>3. R!DefaultBase(c, i) = O!DefaultBase(c, i)
  BY <1>1, <1>2 DEF R!DefaultBase, O!DefaultBase
<1> QED BY <1>1, <1>2, <1>3 DEF R!RequestedBase, O!RequestedBase, R!Offers, O!Offers, R!NoVersion, O!NoVersion,
               R!Described, O!Numbered, BaseNo

Pick == Nat \cup {Off, Latest, Supported}
RoomForms == {"create_room", "edit_room"}
TplForms == {"create_tpl", "edit_tpl"}
SelectShows(f) ==
  f.select # <<>> =>
    {o.value : o \in {p \in R!ToSet(f.select) : p.selected}} = {IF f.query = None THEN Blank ELSE f.query}

(* A form that is open, of the rows ts of templates and rs of rooms        *)
FormOK(f, ts, rs) ==
  /\ f.kind \in RoomForms \cup TplForms
  /\ f.kind = "create_room" => f.id \in Tpls \cup {None} /\ f.query \in BaseNo \cup {None}
  /\ f.kind = "edit_room" => f.id \in Rooms /\ rs[f.id] # None
  /\ f.kind = "create_tpl" => f.query \in BaseNo \cup {Blank, None}
  /\ f.kind = "edit_tpl" => f.id \in Tpls /\ ts[f.id] # None /\ f.query \in BaseNo \cup {Blank}
  /\ \A w \in DOMAIN f.rows : f.rows[w] \subseteq Pick
  /\ f.kind \in TplForms => SelectShows(f)

(* A request of user u that will save form f                               *)
PostOK(p, f, u, ts, rs, time) ==
  /\ p.name \in {"room", ""} /\ p.name # "" /\ p.limit \in Nat \cup {None} /\ (p.limit = None \/ p.limit >= 1)
  /\ p.author \in Users /\ p.manifest \in Manifest
  /\ \A w \in DOMAIN p.manifest : p.manifest[w] = IF w \in DOMAIN p.picks THEN p.picks[w] ELSE Off
  /\ f.kind \in RoomForms =>
       /\ p.close \in Nat /\ p.from \in Tpls \cup {None} /\ p.base \in BaseNo
       /\ (p.current = None \/ R!Minute(p.current) # R!Minute(p.close)) => p.close <= time + MaxAhead
  /\ (f.kind = "create_room" /\ f.query # None) => p.base = f.query
  /\ (f.kind = "edit_room" /\ R!Here(rs[f.id])) => R!Mine(u, rs[f.id]) /\ p.author = rs[f.id].author
  /\ f.kind \in TplForms =>
       /\ p.named \in BaseNo \cup {None} /\ p.named = IF f.query \in {Blank, None} THEN None ELSE f.query
       /\ p.global \in BOOLEAN /\ (p.global => u \in Admins)
  /\ (f.kind = "edit_tpl" /\ R!Here(ts[f.id])) => R!Mine(u, ts[f.id]) /\ p.author = ts[f.id].author

FormsInv ==
  /\ index \in FormIndexes /\ now \in Nat
  /\ tpl \in [Tpls -> TplRow \cup {None, Gone}] /\ saved \in [Rooms -> RoomRow \cup {None, Gone}]
  /\ form = [u \in Users |-> form[u]] /\ post = [u \in Users |-> post[u]]
  /\ \A u \in Users : form[u] # None => FormOK(form[u], tpl, saved)
  /\ \A u \in Users : post[u] # None => form[u] # None /\ PostOK(post[u], form[u], u, tpl, saved, now)

LEMMA FormsInitially == R!Init => FormsInv
BY DEF R!Init, FormsInv

(* Rows stay where they are once they are made, and with their authors.    *)
RowsMove ==
  /\ tpl' \in [Tpls -> TplRow \cup {None, Gone}] /\ saved' \in [Rooms -> RoomRow \cup {None, Gone}]
  /\ \A t \in Tpls : tpl[t] # None =>
       tpl'[t] # None /\ (R!Here(tpl'[t]) => R!Here(tpl[t]) /\ tpl'[t].author = tpl[t].author)
  /\ \A r \in Rooms : saved[r] # None =>
       saved'[r] # None /\ (R!Here(saved'[r]) => R!Here(saved[r]) /\ saved'[r].author = saved[r].author)

LEMMA StillForm ==
  ASSUME RowsMove, NEW f, FormOK(f, tpl, saved) PROVE FormOK(f, tpl', saved')
BY DEF RowsMove, FormOK

LEMMA StillPost ==
  ASSUME RowsMove, NEW f, FormOK(f, tpl, saved), NEW u, NEW p, PostOK(p, f, u, tpl, saved, now),
         now \in Nat, now' \in Nat, now' >= now
  PROVE  PostOK(p, f, u, tpl', saved', now')
<1>1. ASSUME f.kind \in RoomForms,  p.current = None \/ R!Minute(p.current) # R!Minute(p.close)
      PROVE  p.close <= now' + MaxAhead
  <2>1. p.close \in Nat /\ p.close <= now + MaxAhead
    BY <1>1 DEF PostOK
  <2>2. MaxAhead \in Nat
    BY FormAssumption
  <2> QED BY <2>1, <2>2
<1>2. (f.kind = "edit_room" /\ R!Here(saved'[f.id])) => R!Mine(u, saved'[f.id]) /\ p.author = saved'[f.id].author
  BY DEF RowsMove, FormOK, PostOK, R!Mine
<1>3. (f.kind = "edit_tpl" /\ R!Here(tpl'[f.id])) => R!Mine(u, tpl'[f.id]) /\ p.author = tpl'[f.id].author
  BY DEF RowsMove, FormOK, PostOK, R!Mine
<1> QED BY <1>1, <1>2, <1>3 DEF PostOK

LEMMA RowsStay ==
  ASSUME FormsInv, UNCHANGED <<tpl, saved>> PROVE RowsMove
BY DEF FormsInv, RowsMove

(* A step that changes the form and the request of one user at most        *)
LEMMA FormStepOK ==
  ASSUME FormsInv, RowsMove, index' \in FormIndexes, now' \in Nat, now' >= now,
         NEW u \in Users, NEW f, NEW p, form' = [form EXCEPT ![u] = f], post' = [post EXCEPT ![u] = p],
         f # None => FormOK(f, tpl', saved'), p # None => f # None /\ PostOK(p, f, u, tpl', saved', now')
  PROVE  FormsInv'
<1>1. /\ form'[u] = f /\ post'[u] = p
      /\ \A v \in Users : v # u => form'[v] = form[v] /\ post'[v] = post[v]
      /\ form' = [v \in Users |-> form'[v]] /\ post' = [v \in Users |-> post'[v]]
  BY DEF FormsInv
<1>2. \A v \in Users : form'[v] # None => FormOK(form'[v], tpl', saved')
  BY <1>1, StillForm DEF FormsInv
<1>3. \A v \in Users : post'[v] # None => form'[v] # None /\ PostOK(post'[v], form'[v], v, tpl', saved', now')
  BY <1>1, StillPost DEF FormsInv
<1> QED BY <1>1, <1>2, <1>3 DEF FormsInv, RowsMove

(* A step that changes no form                                             *)
LEMMA FormsRestOK ==
  ASSUME FormsInv, RowsMove, index' \in FormIndexes, now' \in Nat, now' >= now, UNCHANGED <<form, post>>
  PROVE  FormsInv'
<1>1. \A v \in Users : form'[v] # None => FormOK(form'[v], tpl', saved')
  BY StillForm DEF FormsInv
<1>2. \A v \in Users : post'[v] # None => form'[v] # None /\ PostOK(post'[v], form'[v], v, tpl', saved', now')
  BY StillPost DEF FormsInv
<1> QED BY <1>1, <1>2 DEF FormsInv, RowsMove

-----------------------------------------------------------------------------
(* What an index describes                                                 *)
LEMMA FormIndex ==
  ASSUME FormsInv
  PROVE  /\ O!IsIndex(index) /\ R!Described(index) = DOMAIN index.rels /\ DOMAIN index.rels \subseteq BaseNo
         /\ \A b \in DOMAIN index.rels :
              /\ DOMAIN index.rels[b] \subseteq Worlds
              /\ \A w \in DOMAIN index.rels[b] : index.rels[b][w].versions \subseteq Nat
<1>1. index \in FormIndexes
  BY DEF FormsInv
<1>2. \A b \in DOMAIN index.rels : DOMAIN index.rels[b] \subseteq Worlds
  BY <1>1 DEF Worlds
<1> QED BY <1>1, <1>2, FormAssumption, SameBases DEF O!IsIndex

LEMMA RowsOfBase ==
  ASSUME FormsInv, NEW b \in DOMAIN index.rels, NEW rows, rows = R!ManifestRows(b)
  PROVE  \A w \in DOMAIN rows : rows[w] \subseteq Pick
BY FormIndex DEF R!ManifestRows, Pick

(* template_base: the version that the form's query names, or the one      *)
(* the template has                                                        *)
LEMMA TemplateBaseOK ==
  ASSUME NEW q \in BaseNo \cup {Blank, None}, NEW cur \in BaseNo \cup {None}, NEW n, n = R!TemplateBase(q, cur),
         n # R!NoVersion
  PROVE  /\ q = None => n = cur
         /\ q = Blank => n = None
         /\ q \in BaseNo => n = q
         /\ n \in BaseNo \cup {None}
<1>0. Blank # None /\ Blank \notin BaseNo /\ None \notin BaseNo
  BY FormAssumption, SessionAssumption DEF BaseNo
<1>1. CASE q = None
  <2>1. n = cur
    BY <1>0, <1>1 DEF R!TemplateBase
  <2> QED BY <1>0, <1>1, <2>1
<1>2. CASE q = Blank
  <2>1. n = None
    BY <1>0, <1>2 DEF R!TemplateBase
  <2> QED BY <1>0, <1>2, <2>1
<1>3. CASE q \in BaseNo /\ q = cur
  <2>1. n = cur
    BY <1>0, <1>3 DEF R!TemplateBase
  <2> QED BY <1>0, <1>3, <2>1
<1>4. CASE q \in BaseNo /\ q # cur
  <2>1. n = R!RequestedBase(Config, index, q)
    BY <1>0, <1>4 DEF R!TemplateBase
  <2>2. n = q
    BY <1>0, <1>4, <2>1 DEF R!RequestedBase
  <2> QED BY <1>0, <1>4, <2>2
<1> QED BY <1>1, <1>2, <1>3, <1>4

(* base_options marks the version that is named, and no other.             *)
Entry == [value : BaseNo, selected : BOOLEAN, gone : BOOLEAN]

LEMMA BaseOptionsOK ==
  ASSUME NEW offered \in Seq(BaseNo), NEW named \in BaseNo \cup {None}, NEW s, s = R!BaseOptions(offered, named)
  PROVE  /\ s \in Seq(Entry)
         /\ \A i \in 1..Len(s) : s[i].selected => s[i].value = named
         /\ named # None => \E i \in 1..Len(s) : s[i].selected /\ s[i].value = named
<1>1. PICK g : g = [i \in DOMAIN offered |-> [value |-> offered[i], selected |-> offered[i] = named, gone |-> FALSE]]
  OBVIOUS
<1>2. /\ g \in Seq(Entry) /\ Len(g) = Len(offered)
      /\ \A i \in 1..Len(offered) : g[i].value = offered[i] /\ (g[i].selected <=> offered[i] = named)
  <2>1. DOMAIN offered = 1..Len(offered) /\ Len(offered) \in Nat /\ \A i \in 1..Len(offered) : offered[i] \in BaseNo
    OBVIOUS
  <2>2. \A i \in 1..Len(offered) : g[i] = [value |-> offered[i], selected |-> offered[i] = named, gone |-> FALSE]
    BY <1>1, <2>1
  <2>3. \A i \in 1..Len(offered) : g[i] \in Entry
    <3> TAKE i \in 1..Len(offered)
    <3>1. PICK b \in BOOLEAN : b <=> offered[i] = named
      OBVIOUS
    <3>2. g[i] = [value |-> offered[i], selected |-> b, gone |-> FALSE]
      BY <2>2, <3>1
    <3> QED BY <2>1, <3>2 DEF Entry
  <2>4. g \in [1..Len(offered) -> Entry]
    BY <1>1, <2>1, <2>3
  <2>5. g \in Seq(Entry) /\ Len(g) = Len(offered)
    BY <2>1, <2>4
  <2>6. \A i \in 1..Len(offered) : g[i].value = offered[i] /\ (g[i].selected <=> offered[i] = named)
    <3> TAKE i \in 1..Len(offered)
    <3>1. PICK b \in BOOLEAN : b <=> offered[i] = named
      OBVIOUS
    <3>2. g[i] = [value |-> offered[i], selected |-> b, gone |-> FALSE]
      BY <2>2, <3>1
    <3> QED BY <3>1, <3>2
  <2> QED BY <2>5, <2>6
<1>3. CASE named # None /\ ~R!Contains(offered, named)
  <2>1. PICK e : e = [value |-> named, selected |-> TRUE, gone |-> TRUE]
    OBVIOUS
  <2>2. s = g \o <<e>> /\ e \in Entry /\ e.value = named /\ e.selected
    BY <1>1, <1>3, <2>1 DEF R!BaseOptions, Entry
  <2>a. g \in Seq(Entry) /\ <<e>> \in Seq(Entry) /\ Len(<<e>>) = 1 /\ <<e>>[1] = e
    BY <1>2, <2>2
  <2>3. /\ s \in Seq(Entry) /\ Len(s) = Len(g) + 1 /\ s[Len(g) + 1] = e /\ Len(g) \in Nat
        /\ \A i \in 1..Len(g) : s[i] = g[i]
    BY <2>2, <2>a
  <2>4. \A i \in 1..Len(s) : s[i].selected => s[i].value = named
    BY <1>2, <2>2, <2>3
  <2>5. Len(g) + 1 \in 1..Len(s)
    BY <2>3
  <2> QED BY <2>2, <2>3, <2>4, <2>5
<1>4. CASE ~(named # None /\ ~R!Contains(offered, named))
  <2>1. s = g \o <<>>
    BY <1>1, <1>4 DEF R!BaseOptions
  <2>2. s = g
    BY <1>2, <2>1
  <2>3. named # None => \E i \in 1..Len(offered) : offered[i] = named
    BY <1>4 DEF R!Contains
  <2> QED BY <1>2, <2>2, <2>3
<1> QED BY <1>3, <1>4

LEMMA TemplateSelectOK ==
  ASSUME FormsInv, NEW named \in BaseNo \cup {None}, NEW s, s = R!TemplateBaseSelect(named), s # <<>>
  PROVE  {o.value : o \in {p \in R!ToSet(s) : p.selected}} = {IF named = None THEN Blank ELSE named}
<1>1. PICK offered : offered = R!Offered(Config, index)
  OBVIOUS
<1>2. offered \in Seq(BaseNo)
  <2>1. PICK n : n = Cardinality(OfferedSet(Config, index))
    OBVIOUS
  <2>2. offered = O!Offered(Config, index) /\ O!IsIndex(index) /\ O!IsConfig(Config)
    BY <1>1, SameBases, FormIndex, OptionAssumption
  <2>3. n \in Nat /\ offered \in [1..n -> OfferedSet(Config, index)] /\ OfferedSet(Config, index) \subseteq BaseNo
    BY <2>1, <2>2, OfferedOK
  <2> QED BY <2>3
<1>3. PICK g : g = R!BaseOptions(offered, named)
  OBVIOUS
<1>4. /\ g \in Seq(Entry)
      /\ \A i \in 1..Len(g) : g[i].selected => g[i].value = named
      /\ named # None => \E i \in 1..Len(g) : g[i].selected /\ g[i].value = named
  BY <1>2, <1>3, BaseOptionsOK
<1>5. PICK b \in BOOLEAN : b <=> named = None
  OBVIOUS
<1>6. PICK e : e = [value |-> Blank, selected |-> b, gone |-> FALSE]
  OBVIOUS
<1>7. s = <<e>> \o g /\ e.value = Blank /\ (e.selected <=> named = None)
  BY <1>1, <1>3, <1>5, <1>6 DEF R!TemplateBaseSelect
<1>8. PICK target : target = IF named = None THEN Blank ELSE named
  OBVIOUS
<1>9. /\ DOMAIN s = 1..(Len(g) + 1) /\ s[1] = e /\ Len(g) \in Nat
      /\ \A i \in 1..Len(g) : s[i + 1] = g[i]
      /\ \A i \in DOMAIN s : i # 1 => i - 1 \in 1..Len(g) /\ s[i] = g[i - 1]
  BY <1>4, <1>7
<1>10. \A i \in DOMAIN s : s[i].selected => s[i].value = target
  <2> SUFFICES ASSUME NEW i \in DOMAIN s, s[i].selected PROVE s[i].value = target
    OBVIOUS
  <2>1. CASE i = 1
    BY <1>7, <1>8, <1>9, <2>1
  <2>2. CASE i # 1
    <3>0. i - 1 \in 1..Len(g) /\ s[i] = g[i - 1]
      BY <1>9, <2>2
    <3>1. g[i - 1].value = named /\ i - 1 \in 1..Len(g) /\ s[i] = g[i - 1]
      BY <1>4, <3>0
    <3>a. g[i - 1] \in Entry
      BY <1>4, <3>0
    <3>2. g[i - 1].value \in BaseNo
      BY <3>a DEF Entry
    <3>3. named # None
      BY <3>1, <3>2, SessionAssumption DEF BaseNo
    <3> QED BY <1>8, <3>1, <3>3
  <2> QED BY <2>1, <2>2
<1>11. \E i \in DOMAIN s : s[i].selected /\ s[i].value = target
  <2>1. CASE named = None
    BY <1>7, <1>8, <1>9, <2>1
  <2>2. CASE named # None
    <3>1. PICK i \in 1..Len(g) : g[i].selected /\ g[i].value = named
      BY <1>4, <2>2
    <3>2. i + 1 \in DOMAIN s /\ s[i + 1] = g[i]
      BY <1>9
    <3> QED BY <1>8, <2>2, <3>1, <3>2
  <2> QED BY <2>1, <2>2
<1> QED BY <1>8, <1>10, <1>11 DEF R!ToSet

-----------------------------------------------------------------------------
(* A form is opened.                                                       *)
LEMMA OpenOK ==
  ASSUME FormsInv, NEW u \in Users, NEW f, R!Open(u, f), FormOK(f, tpl, saved)
  PROVE  FormsInv'
<1>1. /\ post[u] = None /\ form' = [form EXCEPT ![u] = f] /\ UNCHANGED <<index, now, tpl, saved, post>>
  BY DEF R!Open
<1>2. post' = [post EXCEPT ![u] = None]
  BY <1>1 DEF FormsInv
<1>3. RowsMove /\ index' \in FormIndexes /\ now' \in Nat /\ now' >= now
  BY <1>1, RowsStay DEF FormsInv
<1>4. FormOK(f, tpl', saved')
  BY <1>1
<1> QED BY <1>1, <1>2, <1>3, <1>4, FormStepOK

LEMMA QueryOK ==
  ASSUME NEW q \in R!Queries
  PROVE  q \in BaseNo \cup {None}
BY FormAssumption, SameBases DEF R!Queries, R!Bases, O!IsIndex

LEMMA CreateRoomOK ==
  ASSUME FormsInv, NEW u \in Users, NEW q \in R!Queries, NEW t \in Tpls \cup {None}, R!CreateRoom(u, q, t)
  PROVE  FormsInv'
<1>0. PICK b : b = R!NewRoomBase(q, IF t # None /\ R!Readable(u, t) THEN tpl[t].named ELSE None)
  OBVIOUS
<1>1. PICK f : f = [kind |-> "create_room", query |-> q, id |-> t, base |-> b, rows |-> R!ManifestRows(b), select |-> <<>>]
  OBVIOUS
<1>2. b \in DOMAIN index.rels /\ R!Open(u, f)
  BY <1>0, <1>1, FormIndex DEF R!CreateRoom
<1>3. f.kind = "create_room" /\ f.query = q /\ f.id = t /\ f.rows = R!ManifestRows(b)
  BY <1>1
<1>4. FormOK(f, tpl, saved)
  BY <1>2, <1>3, QueryOK, RowsOfBase DEF FormOK, RoomForms, TplForms
<1> QED BY <1>2, <1>4, OpenOK

LEMMA EditRoomOK ==
  ASSUME FormsInv, NEW u \in Users, NEW r \in Rooms, R!EditRoom(u, r)
  PROVE  FormsInv'
<1>0. PICK b : b = saved[r].base
  OBVIOUS
<1>1. PICK f : f = [kind |-> "edit_room", query |-> None, id |-> r, base |-> b, rows |-> R!ManifestRows(b), select |-> <<>>]
  OBVIOUS
<1>2. b \in DOMAIN index.rels /\ R!Open(u, f) /\ saved[r] # None
  BY <1>0, <1>1, FormIndex DEF R!EditRoom, R!Here
<1>3. f.kind = "edit_room" /\ f.id = r /\ f.rows = R!ManifestRows(b)
  BY <1>1
<1>4. FormOK(f, tpl, saved)
  BY <1>2, <1>3, RowsOfBase DEF FormOK, RoomForms, TplForms
<1> QED BY <1>2, <1>4, OpenOK

LEMMA CreateTemplateOK ==
  ASSUME FormsInv, NEW u \in Users, NEW q \in R!Queries \cup {Blank}, R!CreateTemplate(u, q)
  PROVE  FormsInv'
<1>0. PICK n, b : n = R!TemplateBase(q, None) /\ b = R!BaseOrDefault(Config, index, n)
  OBVIOUS
<1>1. PICK s : s = R!TemplateBaseSelect(n)
  OBVIOUS
<1>2. PICK f : f = [kind |-> "create_tpl", query |-> q, id |-> None, base |-> b, rows |-> R!ManifestRows(b), select |-> s]
  OBVIOUS
<1>3. n # R!NoVersion /\ b \in DOMAIN index.rels /\ R!Open(u, f)
  BY <1>0, <1>1, <1>2, FormIndex DEF R!CreateTemplate
<1>4. f.kind = "create_tpl" /\ f.query = q /\ f.rows = R!ManifestRows(b) /\ f.select = s
  BY <1>2
<1>5. q \in BaseNo \cup {Blank, None}
  BY QueryOK
<1>6. (q = None => n = None) /\ (q = Blank => n = None) /\ (q \in BaseNo => n = q) /\ n \in BaseNo \cup {None}
  BY <1>0, <1>3, <1>5, TemplateBaseOK
<1>7. SelectShows(f)
  <2>1. (IF n = None THEN Blank ELSE n) = (IF q = None THEN Blank ELSE q)
    BY <1>5, <1>6, SessionAssumption DEF BaseNo
  <2> QED BY <1>1, <1>4, <1>6, <2>1, TemplateSelectOK DEF SelectShows
<1>8. FormOK(f, tpl, saved)
  BY <1>3, <1>4, <1>5, <1>7, RowsOfBase DEF FormOK, RoomForms, TplForms
<1> QED BY <1>3, <1>8, OpenOK

LEMMA EditTemplateOK ==
  ASSUME FormsInv, NEW u \in Users, NEW t \in Tpls, NEW q \in R!Queries \cup {Blank}, R!EditTemplate(u, t, q)
  PROVE  FormsInv'
<1>0. PICK n, b : n = R!TemplateBase(q, tpl[t].named) /\ b = R!BaseOrDefault(Config, index, n)
  OBVIOUS
<1>1. PICK s, z : s = R!TemplateBaseSelect(n) /\ z = IF n = None THEN Blank ELSE n
  OBVIOUS
<1>2. PICK f : f = [kind |-> "edit_tpl", query |-> z, id |-> t, base |-> b, rows |-> R!ManifestRows(b), select |-> s]
  OBVIOUS
<1>3. n # R!NoVersion /\ b \in DOMAIN index.rels /\ R!Open(u, f) /\ R!Here(tpl[t])
  BY <1>0, <1>1, <1>2, FormIndex DEF R!EditTemplate, R!Readable
<1>4. f.kind = "edit_tpl" /\ f.query = z /\ f.rows = R!ManifestRows(b) /\ f.select = s /\ f.id = t
  BY <1>2
<1>5. q \in BaseNo \cup {Blank, None} /\ tpl[t] # None /\ tpl[t] \in TplRow
  BY <1>3, QueryOK DEF R!Here, FormsInv
<1>6. tpl[t].named \in BaseNo \cup {None}
  BY <1>5, SameBases DEF TplRow
<1>7. n \in BaseNo \cup {None}
  BY <1>0, <1>3, <1>5, <1>6, TemplateBaseOK
<1>8. z # None /\ z \in BaseNo \cup {Blank}
  BY <1>1, <1>7, FormAssumption
<1>9. SelectShows(f)
  BY <1>1, <1>4, <1>7, <1>8, TemplateSelectOK DEF SelectShows
<1>10. FormOK(f, tpl, saved)
  BY <1>3, <1>4, <1>5, <1>8, <1>9, RowsOfBase DEF FormOK, RoomForms, TplForms
<1> QED BY <1>3, <1>10, OpenOK

-----------------------------------------------------------------------------
(* A form is posted.                                                       *)
LEMMA FieldOK ==
  ASSUME NEW f \in R!Fields
  PROVE  /\ f.name \in {"room", ""} /\ f.limited \in BOOLEAN /\ f.limit = 0 /\ f.close \in Nat /\ f.global \in BOOLEAN
BY FormAssumption DEF R!Fields

(* The record that a request keeps of what it will save                    *)
IsPost(p) ==
  p = [name |-> p.name, limit |-> p.limit, close |-> p.close, author |-> p.author, from |-> p.from, named |-> p.named,
       global |-> p.global, base |-> p.base, manifest |-> p.manifest, current |-> p.current, picks |-> p.picks]

(* What Posting makes of the row that its handler gives it                 *)
Fills(p, made, b) ==
  /\ p.name = made.name /\ p.limit = made.limit /\ p.close = made.close /\ p.author = made.author
  /\ p.from = made.from /\ p.named = made.named /\ p.global = made.global /\ p.current = made.current
  /\ p.base = b /\ b \in DOMAIN index.rels
  /\ p.manifest \in Manifest
  /\ \A w \in DOMAIN p.manifest : p.manifest[w] = IF w \in DOMAIN p.picks THEN p.picks[w] ELSE Off

LEMMA PostingOK ==
  ASSUME FormsInv, NEW u \in Users, form[u] # None, NEW picks \in R!Picks(form[u].rows), NEW b, NEW made,
         R!Posting(u, picks, b, made), post[u] = None,
         \A p : Fills(p, made, b) => PostOK(p, form[u], u, tpl, saved, now),
         IsPost(made)
  PROVE  FormsInv'
<1>0. PICK m : m = R!ManifestFromForm(picks, b)
  OBVIOUS
<1>1. PICK p : p = [made EXCEPT !.base = b, !.manifest = m, !.picks = picks]
  OBVIOUS
<1>2. /\ b \in DOMAIN index.rels /\ post' = [post EXCEPT ![u] = p] /\ UNCHANGED <<index, now, tpl, saved, form>>
  BY <1>0, <1>1, FormIndex DEF R!Posting
<1>3. /\ p.name = made.name /\ p.limit = made.limit /\ p.close = made.close /\ p.author = made.author
      /\ p.from = made.from /\ p.named = made.named /\ p.global = made.global /\ p.current = made.current
      /\ p.base = b /\ p.manifest = m /\ p.picks = picks
  BY <1>1 DEF IsPost
<1>4. m = [w \in DOMAIN index.rels[b] |-> IF w \in DOMAIN picks THEN picks[w] ELSE Off]
  BY <1>0 DEF R!ManifestFromForm
<1>5. \A w \in DOMAIN picks : picks[w] \in Pick
  <2>1. \A w \in DOMAIN form[u].rows : form[u].rows[w] \subseteq Pick
    BY DEF FormsInv, FormOK
  <2> QED BY <2>1 DEF R!Picks
<1>6. m \in Manifest
  <2>1. DOMAIN index.rels[b] \in SUBSET Worlds
    BY <1>2, FormIndex
  <2>2. m \in [DOMAIN index.rels[b] -> Nat \cup {Off, Latest, Supported}]
    BY <1>4, <1>5 DEF Pick
  <2> QED BY <2>1, <2>2 DEF Manifest
<1>7. PostOK(p, form[u], u, tpl, saved, now)
  <2>1. Fills(p, made, b)
    BY <1>2, <1>3, <1>4, <1>6 DEF Fills
  <2> QED BY <2>1
<1>8. form' = [form EXCEPT ![u] = form[u]] /\ FormOK(form[u], tpl, saved)
  BY <1>2 DEF FormsInv
<1>9. RowsMove /\ index' \in FormIndexes /\ now' \in Nat /\ now' >= now
  BY <1>2, RowsStay DEF FormsInv
<1> HIDE <1>1
<1> QED BY <1>2, <1>7, <1>8, <1>9, FormStepOK

(* What Settings takes from the form                                       *)
LEMMA SettingsOK ==
  ASSUME NEW f \in R!Fields, R!ValidateRoomForm(f), NEW s, s = R!Settings(f)
  PROVE  /\ s.name \in {"room", ""} /\ s.name # "" /\ s.limit = None
         /\ s.close = None /\ s.author = None /\ s.from = None /\ s.named = None /\ s.global = FALSE
         /\ s.current = None /\ IsPost(s)
<1>0. f.name \in {"room", ""} /\ f.limited \in BOOLEAN /\ f.limit = 0
  BY FieldOK
<1>a. f.name # "" /\ (f.limited => f.limit >= 1)
  BY DEF R!ValidateRoomForm
<1>b. ~(0 >= 1)
  OBVIOUS
<1>1. f.name \in {"room", ""} /\ f.name # "" /\ ~f.limited
  BY <1>0, <1>a, <1>b
<1>2. s.name = f.name /\ s.limit = None
  BY <1>1 DEF R!Settings
<1> QED BY <1>1, <1>2 DEF R!Settings, IsPost

LEMMA CreateRoomSubmitOK ==
  ASSUME FormsInv, NEW u \in Users, form[u] # None, NEW picks \in R!Picks(form[u].rows), NEW f \in R!Fields,
         R!CreateRoomSubmit(u, picks, f)
  PROVE  FormsInv'
<1>0. PICK t, b : /\ t = form[u].id
                  /\ b = R!NewRoomBase(form[u].query, IF t = None THEN None ELSE tpl[t].named)
  OBVIOUS
<1>1. PICK s : s = R!Settings(f)
  OBVIOUS
<1>2. PICK made : made = [s EXCEPT !.close = f.close, !.author = u, !.from = t]
  OBVIOUS
<1>3. /\ form[u].kind = "create_room" /\ post[u] = None /\ R!ValidateRoomForm(f) /\ f.close <= now + MaxAhead
      /\ R!Posting(u, picks, b, made)
  BY <1>0, <1>1, <1>2 DEF R!CreateRoomSubmit, R!ValidateCloseDate
<1>4. FormOK(form[u], tpl, saved)
  BY DEF FormsInv
<1>5. /\ s.name \in {"room", ""} /\ s.name # "" /\ s.limit = None /\ s.current = None /\ IsPost(s)
  BY <1>1, <1>3, SettingsOK
<1>6. /\ made.name = s.name /\ made.limit = None /\ made.close = f.close /\ made.author = u /\ made.from = t
      /\ made.current = None /\ IsPost(made)
  BY <1>2, <1>5 DEF IsPost
<1>7. f.close \in Nat
  BY FieldOK
<1>8. b \in DOMAIN index.rels => b \in BaseNo /\ (form[u].query # None => b = form[u].query)
  <2>1. b \in DOMAIN index.rels => b \in BaseNo /\ b # 0
    BY FormIndex DEF BaseNo
  <2>2. form[u].query # None => b = R!RequestedBase(Config, index, form[u].query)
    BY <1>0 DEF R!NewRoomBase
  <2> QED BY <2>1, <2>2, SameBases DEF R!RequestedBase
<1>20. ASSUME NEW p, Fills(p, made, b) PROVE PostOK(p, form[u], u, tpl, saved, now)
  BY <1>0, <1>3, <1>4, <1>5, <1>6, <1>7, <1>8, <1>20 DEF Fills, PostOK, FormOK, RoomForms, TplForms
<1> QED BY <1>3, <1>6, <1>20, PostingOK

LEMMA EditRoomSubmitOK ==
  ASSUME FormsInv, NEW u \in Users, form[u] # None, NEW picks \in R!Picks(form[u].rows), NEW f \in R!Fields,
         R!EditRoomSubmit(u, picks, f)
  PROVE  FormsInv'
<1>0. PICK r : r = saved[form[u].id]
  OBVIOUS
<1>1. PICK s : s = R!Settings(f)
  OBVIOUS
<1>2. PICK made : made = [s EXCEPT !.close = f.close, !.author = r.author, !.from = r.from, !.current = r.close]
  OBVIOUS
<1>3. /\ form[u].kind = "edit_room" /\ post[u] = None /\ R!ValidateRoomForm(f) /\ R!Here(r) /\ R!Mine(u, r)
      /\ (r.close = None \/ R!Minute(r.close) # R!Minute(f.close)) => f.close <= now + MaxAhead
      /\ R!Posting(u, picks, r.base, made)
  BY <1>0, <1>1, <1>2 DEF R!EditRoomSubmit, R!ValidateCloseDate
<1>4. FormOK(form[u], tpl, saved) /\ r \in RoomRow
  BY <1>0, <1>3 DEF FormsInv, FormOK, R!Here
<1>5. /\ s.name \in {"room", ""} /\ s.name # "" /\ s.limit = None /\ s.current = None /\ IsPost(s)
  BY <1>1, <1>3, SettingsOK
<1>6. /\ made.name = s.name /\ made.limit = None /\ made.close = f.close /\ made.author = r.author /\ made.from = r.from
      /\ made.current = r.close /\ IsPost(made)
  BY <1>2, <1>5 DEF IsPost
<1>7. f.close \in Nat /\ r.author \in Users /\ r.from \in Tpls \cup {None} /\ r.base \in BaseNo
  BY <1>4, FieldOK, SameBases DEF RoomRow
<1>20. ASSUME NEW p, Fills(p, made, r.base) PROVE PostOK(p, form[u], u, tpl, saved, now)
  BY <1>0, <1>3, <1>5, <1>6, <1>7, <1>20 DEF Fills, PostOK, RoomForms, TplForms
<1> QED BY <1>3, <1>6, <1>20, PostingOK

LEMMA CreateTplSubmitOK ==
  ASSUME FormsInv, NEW u \in Users, form[u] # None, NEW picks \in R!Picks(form[u].rows), NEW f \in R!Fields,
         R!CreateTplSubmit(u, picks, f)
  PROVE  FormsInv'
<1>0. PICK n : n = R!TemplateBase(form[u].query, None)
  OBVIOUS
<1>1. PICK s : s = R!Settings(f)
  OBVIOUS
<1>a. PICK g \in BOOLEAN : g <=> f.global /\ u \in Admins
  OBVIOUS
<1>2. PICK made : made = [s EXCEPT !.named = n, !.global = g, !.author = u]
  OBVIOUS
<1>b. made = R!TplRow(u, f, n, u)
  BY <1>1, <1>a, <1>2 DEF R!TplRow, R!IsAdmin
<1>3. /\ form[u].kind = "create_tpl" /\ post[u] = None /\ R!ValidateRoomForm(f) /\ n # R!NoVersion
      /\ R!Posting(u, picks, R!BaseOrDefault(Config, index, n), made)
  BY <1>0, <1>b DEF R!CreateTplSubmit
<1>4. FormOK(form[u], tpl, saved)
  BY DEF FormsInv
<1>5. /\ s.name \in {"room", ""} /\ s.name # "" /\ s.limit = None /\ IsPost(s)
  BY <1>1, <1>3, SettingsOK
<1>6. /\ made.name = s.name /\ made.limit = None /\ made.author = u /\ made.named = n /\ made.global = g /\ IsPost(made)
  BY <1>2, <1>5 DEF IsPost
<1>7. n \in BaseNo \cup {None} /\ n = IF form[u].query \in {Blank, None} THEN None ELSE form[u].query
  BY <1>0, <1>3, <1>4, TemplateBaseOK DEF FormOK
<1>20. ASSUME NEW p, Fills(p, made, R!BaseOrDefault(Config, index, n)) PROVE PostOK(p, form[u], u, tpl, saved, now)
  BY <1>a, <1>3, <1>5, <1>6, <1>7, <1>20 DEF Fills, PostOK, RoomForms, TplForms
<1> QED BY <1>3, <1>6, <1>20, PostingOK

LEMMA EditTplSubmitOK ==
  ASSUME FormsInv, NEW u \in Users, form[u] # None, NEW picks \in R!Picks(form[u].rows), NEW f \in R!Fields,
         R!EditTplSubmit(u, picks, f)
  PROVE  FormsInv'
<1>0. PICK t, n : t = tpl[form[u].id] /\ n = R!TemplateBase(form[u].query, t.named)
  OBVIOUS
<1>1. PICK s : s = R!Settings(f)
  OBVIOUS
<1>a. PICK g \in BOOLEAN : g <=> f.global /\ u \in Admins
  OBVIOUS
<1>2. PICK made : made = [s EXCEPT !.named = n, !.global = g, !.author = t.author]
  OBVIOUS
<1>b. made = R!TplRow(u, f, n, t.author)
  BY <1>1, <1>a, <1>2 DEF R!TplRow, R!IsAdmin
<1>3. /\ form[u].kind = "edit_tpl" /\ post[u] = None /\ R!ValidateRoomForm(f) /\ n # R!NoVersion
      /\ R!Here(t) /\ R!Mine(u, t)
      /\ R!Posting(u, picks, R!BaseOrDefault(Config, index, n), made)
  BY <1>0, <1>b DEF R!EditTplSubmit
<1>4. FormOK(form[u], tpl, saved) /\ t \in TplRow
  BY <1>0, <1>3 DEF FormsInv, FormOK, R!Here
<1>5. /\ s.name \in {"room", ""} /\ s.name # "" /\ s.limit = None /\ IsPost(s)
  BY <1>1, <1>3, SettingsOK
<1>6. /\ made.name = s.name /\ made.limit = None /\ made.author = t.author /\ made.named = n /\ made.global = g
      /\ IsPost(made)
  BY <1>2, <1>5 DEF IsPost
<1>7. t.author \in Users /\ t.named \in BaseNo \cup {None}
  BY <1>4, SameBases DEF TplRow
<1>8. form[u].query \in BaseNo \cup {Blank}
  BY <1>3, <1>4 DEF FormOK
<1>9. n \in BaseNo \cup {None} /\ n = IF form[u].query \in {Blank, None} THEN None ELSE form[u].query
  <2>1. form[u].query \in BaseNo \cup {Blank, None} /\ None \notin BaseNo /\ Blank \notin BaseNo /\ Blank # None
    BY <1>8, SessionAssumption, FormAssumption DEF BaseNo
  <2>2. /\ form[u].query = Blank => n = None
        /\ form[u].query \in BaseNo => n = form[u].query
        /\ n \in BaseNo \cup {None}
    BY <1>0, <1>3, <1>7, <2>1, TemplateBaseOK
  <2> QED BY <1>8, <2>1, <2>2
<1>20. ASSUME NEW p, Fills(p, made, R!BaseOrDefault(Config, index, n)) PROVE PostOK(p, form[u], u, tpl, saved, now)
  BY <1>0, <1>a, <1>3, <1>5, <1>6, <1>7, <1>9, <1>20 DEF Fills, PostOK, RoomForms, TplForms
<1> QED BY <1>3, <1>6, <1>20, PostingOK

LEMMA SubmitOK ==
  ASSUME FormsInv, NEW u \in Users, R!Submit(u)
  PROVE  FormsInv'
BY CreateRoomSubmitOK, EditRoomSubmitOK, CreateTplSubmitOK, EditTplSubmitOK DEF R!Submit

-----------------------------------------------------------------------------
(* A row is written.                                                       *)
LEMMA DoneOK ==
  ASSUME FormsInv, RowsMove, UNCHANGED <<index, now>>, NEW u \in Users, R!Done(u)
  PROVE  FormsInv'
<1>1. form' = [form EXCEPT ![u] = None] /\ post' = [post EXCEPT ![u] = None]
  BY DEF R!Done
<1>2. index' \in FormIndexes /\ now' \in Nat /\ now' >= now
  BY DEF FormsInv
<1> QED BY <1>1, <1>2, FormStepOK

LEMMA RoomRowOK ==
  ASSUME FormsInv, NEW u \in Users, post[u] # None, form[u].kind \in RoomForms, NEW made, made = R!RoomRow(post[u])
  PROVE  /\ made \in RoomRow /\ made # None /\ made # Gone /\ made.author = post[u].author
<1>1. PICK p : p = post[u]
  OBVIOUS
<1>2. PostOK(p, form[u], u, tpl, saved, now)
  BY <1>1 DEF FormsInv
<1>3. /\ p.name \in {"room", ""} /\ p.limit \in Nat \cup {None} /\ p.close \in Nat /\ p.author \in Users
      /\ p.from \in Tpls \cup {None} /\ p.base \in O!Numbered /\ p.manifest \in Manifest
  BY <1>2, SameBases DEF PostOK
<1>4. made = [name |-> p.name, limit |-> p.limit, close |-> p.close, author |-> p.author, from |-> p.from,
             base |-> p.base, manifest |-> p.manifest]
  BY <1>1 DEF R!RoomRow
<1>5. made \in RoomRow
  <2>1. PICK N, L, F : N = {"room", ""} /\ L = Nat \cup {None} /\ F = Tpls \cup {None}
    OBVIOUS
  <2>2. RoomRow = [name : N, limit : L, close : Nat, author : Users, from : F, base : O!Numbered, manifest : Manifest]
    BY <2>1 DEF RoomRow
  <2>3. p.name \in N /\ p.limit \in L /\ p.from \in F
    BY <1>3, <2>1
  <2>4. PICK n \in N, l \in L, c \in Nat, a \in Users, f \in F, b \in O!Numbered, m \in Manifest :
          n = p.name /\ l = p.limit /\ c = p.close /\ a = p.author /\ f = p.from /\ b = p.base /\ m = p.manifest
    BY <1>3, <2>3
  <2>5. made = [name |-> n, limit |-> l, close |-> c, author |-> a, from |-> f, base |-> b, manifest |-> m]
    BY <1>4, <2>4
  <2>6. made \in [name : N, limit : L, close : Nat, author : Users, from : F, base : O!Numbered, manifest : Manifest]
    BY <2>5
  <2> QED BY <2>2, <2>6
<1>6. made.author = p.author
  BY <1>4
<1> QED BY <1>1, <1>5, <1>6, FormAssumption

LEMMA TemplateRowOK ==
  ASSUME FormsInv, NEW u \in Users, post[u] # None, form[u].kind \in TplForms, NEW made, made = R!TemplateRow(post[u])
  PROVE  /\ made \in TplRow /\ made # None /\ made # Gone /\ made.author = post[u].author
<1>1. PICK p : p = post[u]
  OBVIOUS
<1>2. PostOK(p, form[u], u, tpl, saved, now)
  BY <1>1 DEF FormsInv
<1>3. /\ p.name \in {"room", ""} /\ p.limit \in Nat \cup {None} /\ p.author \in Users
      /\ p.named \in O!Numbered \cup {None} /\ p.global \in BOOLEAN /\ p.manifest \in Manifest
  BY <1>2, SameBases DEF PostOK
<1>4. made = [name |-> p.name, limit |-> p.limit, author |-> p.author, named |-> p.named, global |-> p.global,
             manifest |-> p.manifest]
  BY <1>1 DEF R!TemplateRow
<1>5. made \in TplRow
  <2>1. PICK N, L, F : N = {"room", ""} /\ L = Nat \cup {None} /\ F = O!Numbered \cup {None}
    OBVIOUS
  <2>2. TplRow = [name : N, limit : L, author : Users, named : F, global : BOOLEAN, manifest : Manifest]
    BY <2>1 DEF TplRow
  <2>3. p.name \in N /\ p.limit \in L /\ p.named \in F
    BY <1>3, <2>1
  <2>4. PICK n \in N, l \in L, a \in Users, v \in F, g \in BOOLEAN, m \in Manifest :
          n = p.name /\ l = p.limit /\ a = p.author /\ v = p.named /\ g = p.global /\ m = p.manifest
    BY <1>3, <2>3
  <2>5. made = [name |-> n, limit |-> l, author |-> a, named |-> v, global |-> g, manifest |-> m]
    BY <1>4, <2>4
  <2>6. made \in [name : N, limit : L, author : Users, named : F, global : BOOLEAN, manifest : Manifest]
    BY <2>5
  <2> QED BY <2>2, <2>6
<1>6. made.author = p.author
  BY <1>4
<1> QED BY <1>1, <1>5, <1>6, FormAssumption

LEMMA DbCreateRoomOK ==
  ASSUME FormsInv, NEW u \in Users, NEW r \in Rooms, R!DbCreateRoom(u, r)
  PROVE  FormsInv'
<1>1. PICK made : made = R!RoomRow(post[u])
  OBVIOUS
<1>2. /\ post[u] # None /\ form[u].kind = "create_room" /\ saved[r] = None /\ saved' = [saved EXCEPT ![r] = made]
      /\ R!Done(u) /\ UNCHANGED <<index, now, tpl>>
  BY <1>1 DEF R!DbCreateRoom
<1>3. made \in RoomRow
  BY <1>1, <1>2, RoomRowOK DEF RoomForms
<1>4. RowsMove
  BY <1>2, <1>3 DEF RowsMove, FormsInv
<1> QED BY <1>2, <1>4, DoneOK

LEMMA DbUpdateRoomOK ==
  ASSUME FormsInv, NEW u \in Users, R!DbUpdateRoom(u)
  PROVE  FormsInv'
<1>1. PICK made, r : made = R!RoomRow(post[u]) /\ r = form[u].id
  OBVIOUS
<1>2. /\ post[u] # None /\ form[u].kind = "edit_room"
      /\ saved' = [saved EXCEPT ![r] = IF R!Here(saved[r]) THEN made ELSE saved[r]]
      /\ R!Done(u) /\ UNCHANGED <<index, now, tpl>>
  BY <1>1 DEF R!DbUpdateRoom
<1>3. made \in RoomRow /\ made # None /\ made.author = post[u].author
  BY <1>1, <1>2, RoomRowOK DEF RoomForms
<1>4. /\ r \in Rooms /\ saved[r] # None
      /\ R!Here(saved[r]) => made.author = saved[r].author
  BY <1>1, <1>2, <1>3 DEF FormsInv, FormOK, PostOK
<1>5. RowsMove
  <2>1. saved' \in [Rooms -> RoomRow \cup {None, Gone}]
    BY <1>2, <1>3, <1>4 DEF FormsInv
  <2>2. saved'[r] = (IF R!Here(saved[r]) THEN made ELSE saved[r]) /\ \A q \in Rooms : q # r => saved'[q] = saved[q]
    BY <1>2, <1>4 DEF FormsInv
  <2>3. \A q \in Rooms : saved[q] # None =>
          saved'[q] # None /\ (R!Here(saved'[q]) => R!Here(saved[q]) /\ saved'[q].author = saved[q].author)
    BY <1>3, <1>4, <2>2
  <2> QED BY <1>2, <2>1, <2>3 DEF RowsMove, FormsInv
<1> QED BY <1>2, <1>5, DoneOK

LEMMA DbCreateTemplateOK ==
  ASSUME FormsInv, NEW u \in Users, NEW t \in Tpls, R!DbCreateTemplate(u, t)
  PROVE  FormsInv'
<1>1. PICK made : made = R!TemplateRow(post[u])
  OBVIOUS
<1>2. /\ post[u] # None /\ form[u].kind = "create_tpl" /\ tpl[t] = None /\ tpl' = [tpl EXCEPT ![t] = made]
      /\ R!Done(u) /\ UNCHANGED <<index, now, saved>>
  BY <1>1 DEF R!DbCreateTemplate
<1>3. made \in TplRow
  BY <1>1, <1>2, TemplateRowOK DEF TplForms
<1>4. RowsMove
  BY <1>2, <1>3 DEF RowsMove, FormsInv
<1> QED BY <1>2, <1>4, DoneOK

LEMMA DbUpdateTemplateOK ==
  ASSUME FormsInv, NEW u \in Users, R!DbUpdateTemplate(u)
  PROVE  FormsInv'
<1>1. PICK made, t : made = R!TemplateRow(post[u]) /\ t = form[u].id
  OBVIOUS
<1>2. /\ post[u] # None /\ form[u].kind = "edit_tpl"
      /\ tpl' = [tpl EXCEPT ![t] = IF R!Here(tpl[t]) THEN made ELSE tpl[t]]
      /\ R!Done(u) /\ UNCHANGED <<index, now, saved>>
  BY <1>1 DEF R!DbUpdateTemplate
<1>3. made \in TplRow /\ made # None /\ made.author = post[u].author
  BY <1>1, <1>2, TemplateRowOK DEF TplForms
<1>4. /\ t \in Tpls /\ tpl[t] # None
      /\ R!Here(tpl[t]) => made.author = tpl[t].author
  BY <1>1, <1>2, <1>3 DEF FormsInv, FormOK, PostOK
<1>5. RowsMove
  <2>1. tpl' \in [Tpls -> TplRow \cup {None, Gone}]
    BY <1>2, <1>3, <1>4 DEF FormsInv
  <2>2. tpl'[t] = (IF R!Here(tpl[t]) THEN made ELSE tpl[t]) /\ \A q \in Tpls : q # t => tpl'[q] = tpl[q]
    BY <1>2, <1>4 DEF FormsInv
  <2>3. \A q \in Tpls : tpl[q] # None =>
          tpl'[q] # None /\ (R!Here(tpl'[q]) => R!Here(tpl[q]) /\ tpl'[q].author = tpl[q].author)
    BY <1>3, <1>4, <2>2
  <2> QED BY <1>2, <2>1, <2>3 DEF RowsMove, FormsInv
<1> QED BY <1>2, <1>5, DoneOK

(* A row is deleted.                                                       *)
LEMMA DeletesOK ==
  ASSUME FormsInv, NEW u \in Users,
         (\E r \in Rooms : R!DeleteRoom(u, r)) \/ \E t \in Tpls : R!DeleteTemplate(u, t)
  PROVE  FormsInv'
<1>0. Gone # None
  BY SessionAssumption
<1>1. RowsMove /\ UNCHANGED <<index, now, form, post>>
  <2>1. ASSUME NEW r \in Rooms, R!DeleteRoom(u, r) PROVE RowsMove /\ UNCHANGED <<index, now, form, post>>
    BY <1>0, <2>1 DEF R!DeleteRoom, RowsMove, FormsInv, R!Here
  <2>2. ASSUME NEW t \in Tpls, R!DeleteTemplate(u, t) PROVE RowsMove /\ UNCHANGED <<index, now, form, post>>
    BY <1>0, <2>2 DEF R!DeleteTemplate, RowsMove, FormsInv, R!Here
  <2> QED BY <2>1, <2>2
<1>2. index' \in FormIndexes /\ now' \in Nat /\ now' >= now
  BY <1>1 DEF FormsInv
<1> QED BY <1>1, <1>2, FormsRestOK

LEMMA FormsStep ==
  ASSUME FormsInv, [R!Next]_(R!vars)
  PROVE  FormsInv'
<1>1. ASSUME NEW u \in Users, R!UserStep(u) PROVE FormsInv'
  BY <1>1, CreateRoomOK, CreateTemplateOK, EditTemplateOK, EditRoomOK, DbCreateRoomOK, DbCreateTemplateOK, DeletesOK,
     SubmitOK, DbUpdateRoomOK, DbUpdateTemplateOK DEF R!UserStep
<1>2. CASE R!Refresh
  <2>1. index' \in FormIndexes /\ UNCHANGED <<now, tpl, saved, form, post>>
    BY <1>2 DEF R!Refresh
  <2>2. RowsMove /\ now' \in Nat /\ now' >= now
    BY <2>1, RowsStay DEF FormsInv
  <2> QED BY <2>1, <2>2, FormsRestOK
<1>3. CASE R!Tick
  <2>1. now' = now + 1 /\ UNCHANGED <<index, tpl, saved, form, post>>
    BY <1>3 DEF R!Tick
  <2>2. RowsMove /\ index' \in FormIndexes /\ now' \in Nat /\ now' >= now
    BY <2>1, RowsStay DEF FormsInv
  <2> QED BY <2>1, <2>2, FormsRestOK
<1>4. CASE UNCHANGED R!vars
  <2>1. UNCHANGED <<index, now, tpl, saved, form, post>>
    BY <1>4 DEF R!vars
  <2>2. RowsMove /\ index' \in FormIndexes /\ now' \in Nat /\ now' >= now
    BY <2>1, RowsStay DEF FormsInv
  <2> QED BY <2>1, <2>2, FormsRestOK
<1> QED BY <1>1, <1>2, <1>3, <1>4 DEF R!Next

-----------------------------------------------------------------------------
(* A step in which a request of u ends is the one that writes its row.     *)
LEMMA SavedBy ==
  ASSUME FormsInv, [R!Next]_(R!vars), NEW u \in Users, R!Saved(u)
  PROVE  \/ \E r \in Rooms : R!DbCreateRoom(u, r)
         \/ \E t \in Tpls : R!DbCreateTemplate(u, t)
         \/ R!DbUpdateRoom(u) \/ R!DbUpdateTemplate(u)
<1>1. post[u] # None /\ post'[u] = None
  BY DEF R!Saved
<1>2. ASSUME UNCHANGED post PROVE FALSE
  BY <1>1, <1>2
<1>3. ASSUME NEW v \in Users, R!Done(v) PROVE v = u
  BY <1>1, <1>3 DEF R!Done, FormsInv
<1>4. PICK v \in Users : R!UserStep(v)
  BY <1>2 DEF R!Next, R!vars, R!Refresh, R!Tick
<1>5. ~R!Submit(v)
  <2> SUFFICES ASSUME R!Submit(v) PROVE FALSE
    OBVIOUS
  <2>1. post[v] = None /\ \E p : post' = [post EXCEPT ![v] = p]
    BY DEF R!Submit, R!CreateRoomSubmit, R!EditRoomSubmit, R!CreateTplSubmit, R!EditTplSubmit, R!Posting
  <2>2. v # u
    BY <1>1, <2>1
  <2> QED BY <1>1, <2>1, <2>2 DEF FormsInv
<1>6. ~(\E q \in R!Queries, t \in Tpls \cup {None} : R!CreateRoom(v, q, t))
  BY <1>2 DEF R!CreateRoom, R!Open
<1>7. ~(\E q \in R!Queries \cup {Blank} : R!CreateTemplate(v, q) \/ \E t \in Tpls : R!EditTemplate(v, t, q))
  BY <1>2 DEF R!CreateTemplate, R!EditTemplate, R!Open
<1>8. ~(\E r \in Rooms : R!EditRoom(v, r) \/ R!DeleteRoom(v, r)) /\ ~(\E t \in Tpls : R!DeleteTemplate(v, t))
  BY <1>2 DEF R!EditRoom, R!DeleteRoom, R!DeleteTemplate, R!Open
<1>9. \/ \E r \in Rooms : R!DbCreateRoom(v, r)
      \/ \E t \in Tpls : R!DbCreateTemplate(v, t)
      \/ R!DbUpdateRoom(v) \/ R!DbUpdateTemplate(v)
  BY <1>4, <1>5, <1>6, <1>7, <1>8 DEF R!UserStep
<1>10. R!Done(v)
  BY <1>9 DEF R!DbCreateRoom, R!DbCreateTemplate, R!DbUpdateRoom, R!DbUpdateTemplate
<1> QED BY <1>3, <1>9, <1>10

(* What it writes                                                          *)
LEMMA WrittenRow ==
  ASSUME FormsInv, [R!Next]_(R!vars), NEW u \in Users, R!Saved(u), NEW made \in R!NewRow(u)
  PROVE  /\ form[u].kind \in RoomForms => made = R!RoomRow(post[u])
         /\ form[u].kind \in TplForms => made = R!TemplateRow(post[u])
<1>1. ASSUME NEW r \in Rooms, R!DbCreateRoom(u, r) PROVE form[u].kind \in RoomForms /\ made = R!RoomRow(post[u])
  <2>1. form[u].kind = "create_room" /\ saved' = [saved EXCEPT ![r] = R!RoomRow(post[u])]
    BY <1>1 DEF R!DbCreateRoom
  <2>2. \A q \in Rooms : saved'[q] # saved[q] => saved'[q] = R!RoomRow(post[u])
    BY <2>1 DEF FormsInv
  <2> QED BY <2>1, <2>2 DEF R!NewRow, RoomForms
<1>2. ASSUME R!DbUpdateRoom(u) PROVE form[u].kind \in RoomForms /\ made = R!RoomRow(post[u])
  <2>0. PICK r : r = form[u].id
    OBVIOUS
  <2>1. /\ form[u].kind = "edit_room"
        /\ saved' = [saved EXCEPT ![r] = IF R!Here(saved[r]) THEN R!RoomRow(post[u]) ELSE saved[r]]
    BY <1>2, <2>0 DEF R!DbUpdateRoom
  <2>2. \A q \in Rooms : saved'[q] # saved[q] => saved'[q] = R!RoomRow(post[u])
    BY <2>1 DEF FormsInv
  <2> QED BY <2>1, <2>2 DEF R!NewRow, RoomForms
<1>3. ASSUME NEW t \in Tpls, R!DbCreateTemplate(u, t) PROVE form[u].kind \in TplForms /\ made = R!TemplateRow(post[u])
  <2>1. form[u].kind = "create_tpl" /\ tpl' = [tpl EXCEPT ![t] = R!TemplateRow(post[u])]
    BY <1>3 DEF R!DbCreateTemplate
  <2>2. \A q \in Tpls : tpl'[q] # tpl[q] => tpl'[q] = R!TemplateRow(post[u])
    BY <2>1 DEF FormsInv
  <2> QED BY <2>1, <2>2 DEF R!NewRow, TplForms
<1>4. ASSUME R!DbUpdateTemplate(u) PROVE form[u].kind \in TplForms /\ made = R!TemplateRow(post[u])
  <2>0. PICK t : t = form[u].id
    OBVIOUS
  <2>1. /\ form[u].kind = "edit_tpl"
        /\ tpl' = [tpl EXCEPT ![t] = IF R!Here(tpl[t]) THEN R!TemplateRow(post[u]) ELSE tpl[t]]
    BY <1>4, <2>0 DEF R!DbUpdateTemplate
  <2>2. \A q \in Tpls : tpl'[q] # tpl[q] => tpl'[q] = R!TemplateRow(post[u])
    BY <2>1 DEF FormsInv
  <2> QED BY <2>1, <2>2 DEF R!NewRow, TplForms
<1>5. ~(form[u].kind \in RoomForms /\ form[u].kind \in TplForms)
  BY DEF RoomForms, TplForms
<1> QED BY <1>1, <1>2, <1>3, <1>4, <1>5, SavedBy

(* What both kinds of row take from the request                            *)
LEMMA RowFields ==
  ASSUME NEW p, NEW made, made = R!RoomRow(p) \/ made = R!TemplateRow(p)
  PROVE  /\ made.name = p.name /\ made.limit = p.limit /\ made.manifest = p.manifest
         /\ made = R!RoomRow(p) => made.base = p.base
         /\ made = R!TemplateRow(p) => made.named = p.named /\ made.global = p.global
BY DEF R!RoomRow, R!TemplateRow

LEMMA SavesStep ==
  ASSUME FormsInv, [R!Next]_(R!vars), NEW u \in Users, R!Saved(u), NEW made \in R!NewRow(u)
  PROVE  /\ \A w \in DOMAIN made.manifest :
              made.manifest[w] = IF w \in DOMAIN post[u].picks THEN post[u].picks[w] ELSE Off
         /\ made.name # "" /\ (made.limit = None \/ made.limit >= 1)
         /\ (form[u].kind = "create_room" /\ form[u].query # None) => made.base = form[u].query
         /\ form[u].kind \in TplForms =>
              made.named = (IF form[u].query \in {Blank, None} THEN None ELSE form[u].query)
<1>1. post[u] # None
  BY DEF R!Saved
<1>2. FormOK(form[u], tpl, saved) /\ PostOK(post[u], form[u], u, tpl, saved, now)
  BY <1>1 DEF FormsInv
<1>3. form[u].kind \in RoomForms \cup TplForms
  BY <1>2 DEF FormOK
<1>4. /\ form[u].kind \in RoomForms => made = R!RoomRow(post[u])
      /\ form[u].kind \in TplForms => made = R!TemplateRow(post[u])
  BY WrittenRow
<1>5. /\ made.name = post[u].name /\ made.limit = post[u].limit /\ made.manifest = post[u].manifest
      /\ form[u].kind \in RoomForms => made.base = post[u].base
      /\ form[u].kind \in TplForms => made.named = post[u].named
  BY <1>3, <1>4, RowFields
<1>6. /\ post[u].name # "" /\ (post[u].limit = None \/ post[u].limit >= 1)
      /\ \A w \in DOMAIN post[u].manifest :
           post[u].manifest[w] = IF w \in DOMAIN post[u].picks THEN post[u].picks[w] ELSE Off
  BY <1>2 DEF PostOK
<1>7. (form[u].kind = "create_room" /\ form[u].query # None) => made.base = form[u].query
  BY <1>2, <1>5 DEF PostOK, RoomForms
<1>8. form[u].kind \in TplForms => made.named = IF form[u].query \in {Blank, None} THEN None ELSE form[u].query
  BY <1>2, <1>5 DEF PostOK, TplForms
<1> QED BY <1>5, <1>6, <1>7, <1>8

(* Who changes a row                                                       *)
LEMMA TplChange ==
  ASSUME FormsInv, [R!Next]_(R!vars), NEW t \in Tpls, tpl'[t] # tpl[t]
  PROVE  \/ \E u \in Users : R!DeleteTemplate(u, t)
         \/ \E u \in Users : R!DbCreateTemplate(u, t)
         \/ \E u \in Users : R!DbUpdateTemplate(u) /\ form[u].id = t /\ R!Here(tpl[t])
<1>1. ASSUME UNCHANGED tpl PROVE FALSE
  BY <1>1
<1>2. PICK u \in Users : R!UserStep(u)
  BY <1>1 DEF R!Next, R!vars, R!Refresh, R!Tick
<1>3. ~R!Submit(u)
  BY <1>1 DEF R!Submit, R!CreateRoomSubmit, R!EditRoomSubmit, R!CreateTplSubmit, R!EditTplSubmit, R!Posting
<1>4. ~(\E q \in R!Queries, s \in Tpls \cup {None} : R!CreateRoom(u, q, s))
  BY <1>1 DEF R!CreateRoom, R!Open
<1>5. ~(\E q \in R!Queries \cup {Blank} : R!CreateTemplate(u, q) \/ \E s \in Tpls : R!EditTemplate(u, s, q))
  BY <1>1 DEF R!CreateTemplate, R!EditTemplate, R!Open
<1>6. ~(\E r \in Rooms : R!EditRoom(u, r) \/ R!DeleteRoom(u, r) \/ R!DbCreateRoom(u, r)) /\ ~R!DbUpdateRoom(u)
  BY <1>1 DEF R!EditRoom, R!DeleteRoom, R!DbCreateRoom, R!DbUpdateRoom, R!Open
<1>7. ASSUME NEW s \in Tpls, R!DeleteTemplate(u, s) PROVE s = t
  BY <1>7 DEF R!DeleteTemplate, FormsInv
<1>8. ASSUME NEW s \in Tpls, R!DbCreateTemplate(u, s) PROVE s = t
  BY <1>8 DEF R!DbCreateTemplate, FormsInv
<1>9. ASSUME R!DbUpdateTemplate(u) PROVE form[u].id = t /\ R!Here(tpl[t])
  <2>0. PICK s : s = form[u].id
    OBVIOUS
  <2>1. tpl' = [tpl EXCEPT ![s] = IF R!Here(tpl[s]) THEN R!TemplateRow(post[u]) ELSE tpl[s]]
    BY <1>9, <2>0 DEF R!DbUpdateTemplate
  <2> QED BY <2>0, <2>1 DEF FormsInv
<1> QED BY <1>2, <1>3, <1>4, <1>5, <1>6, <1>7, <1>8, <1>9 DEF R!UserStep

LEMMA RoomChange ==
  ASSUME FormsInv, [R!Next]_(R!vars), NEW r \in Rooms, saved'[r] # saved[r]
  PROVE  \/ \E u \in Users : R!DeleteRoom(u, r)
         \/ \E u \in Users : R!DbCreateRoom(u, r)
         \/ \E u \in Users : R!DbUpdateRoom(u) /\ form[u].id = r /\ R!Here(saved[r])
<1>1. ASSUME UNCHANGED saved PROVE FALSE
  BY <1>1
<1>2. PICK u \in Users : R!UserStep(u)
  BY <1>1 DEF R!Next, R!vars, R!Refresh, R!Tick
<1>3. ~R!Submit(u)
  BY <1>1 DEF R!Submit, R!CreateRoomSubmit, R!EditRoomSubmit, R!CreateTplSubmit, R!EditTplSubmit, R!Posting
<1>4. ~(\E q \in R!Queries, s \in Tpls \cup {None} : R!CreateRoom(u, q, s))
  BY <1>1 DEF R!CreateRoom, R!Open
<1>5. ~(\E q \in R!Queries \cup {Blank} : R!CreateTemplate(u, q) \/ \E s \in Tpls : R!EditTemplate(u, s, q))
  BY <1>1 DEF R!CreateTemplate, R!EditTemplate, R!Open
<1>6. ~(\E s \in Rooms : R!EditRoom(u, s)) /\ ~(\E t \in Tpls : R!DeleteTemplate(u, t) \/ R!DbCreateTemplate(u, t))
      /\ ~R!DbUpdateTemplate(u)
  BY <1>1 DEF R!EditRoom, R!DeleteTemplate, R!DbCreateTemplate, R!DbUpdateTemplate, R!Open
<1>7. ASSUME NEW s \in Rooms, R!DeleteRoom(u, s) PROVE s = r
  BY <1>7 DEF R!DeleteRoom, FormsInv
<1>8. ASSUME NEW s \in Rooms, R!DbCreateRoom(u, s) PROVE s = r
  BY <1>8 DEF R!DbCreateRoom, FormsInv
<1>9. ASSUME R!DbUpdateRoom(u) PROVE form[u].id = r /\ R!Here(saved[r])
  <2>0. PICK s : s = form[u].id
    OBVIOUS
  <2>1. saved' = [saved EXCEPT ![s] = IF R!Here(saved[s]) THEN R!RoomRow(post[u]) ELSE saved[s]]
    BY <1>9, <2>0 DEF R!DbUpdateRoom
  <2> QED BY <2>0, <2>1 DEF FormsInv
<1> QED BY <1>2, <1>3, <1>4, <1>5, <1>6, <1>7, <1>8, <1>9 DEF R!UserStep

LEMMA Writes ==
  ASSUME FormsInv, NEW u \in Users, post[u] # None, R!Done(u)
  PROVE  R!Saved(u) /\ FormOK(form[u], tpl, saved) /\ PostOK(post[u], form[u], u, tpl, saved, now)
<1>1. post'[u] = None
  BY DEF R!Done, FormsInv
<1> QED BY <1>1 DEF FormsInv, R!Saved

LEMMA TplOwners ==
  ASSUME FormsInv, [R!Next]_(R!vars), NEW t \in Tpls, tpl'[t] # tpl[t]
  PROVE  /\ R!Here(tpl[t]) => \E u \in Users : R!Mine(u, tpl[t]) /\ (R!Saved(u) \/ tpl'[t] = Gone)
         /\ (R!Here(tpl'[t]) /\ tpl'[t].global) => \E u \in Admins : R!Saved(u)
<1>1. ASSUME NEW u \in Users, R!DeleteTemplate(u, t)
      PROVE  R!Mine(u, tpl[t]) /\ tpl'[t] = Gone /\ ~R!Here(tpl'[t])
  <2>1. R!Mine(u, tpl[t]) /\ tpl'[t] = Gone
    BY <1>1 DEF R!DeleteTemplate, FormsInv
  <2> QED BY <2>1 DEF R!Here
<1>2. ASSUME NEW u \in Users, R!DbCreateTemplate(u, t)
      PROVE  ~R!Here(tpl[t]) /\ R!Saved(u) /\ (tpl'[t].global => u \in Admins)
  <2>1. /\ post[u] # None /\ form[u].kind = "create_tpl" /\ tpl[t] = None /\ R!Done(u)
        /\ tpl' = [tpl EXCEPT ![t] = R!TemplateRow(post[u])]
    BY <1>2 DEF R!DbCreateTemplate
  <2>2. R!Saved(u) /\ PostOK(post[u], form[u], u, tpl, saved, now)
    BY <2>1, Writes
  <2>3. tpl'[t] = R!TemplateRow(post[u])
    BY <2>1 DEF FormsInv
  <2>4. tpl'[t].global = post[u].global
    BY <2>3, RowFields
  <2>5. post[u].global => u \in Admins
    BY <2>1, <2>2 DEF PostOK, TplForms
  <2> QED BY <2>1, <2>2, <2>4, <2>5 DEF R!Here
<1>3. ASSUME NEW u \in Users, R!DbUpdateTemplate(u), form[u].id = t, R!Here(tpl[t])
      PROVE  R!Mine(u, tpl[t]) /\ R!Saved(u) /\ (tpl'[t].global => u \in Admins)
  <2>1. /\ post[u] # None /\ form[u].kind = "edit_tpl" /\ R!Done(u)
        /\ tpl' = [tpl EXCEPT ![t] = R!TemplateRow(post[u])]
    BY <1>3 DEF R!DbUpdateTemplate
  <2>2. R!Saved(u) /\ PostOK(post[u], form[u], u, tpl, saved, now)
    BY <2>1, Writes
  <2>3. tpl'[t] = R!TemplateRow(post[u])
    BY <2>1 DEF FormsInv
  <2>4. tpl'[t].global = post[u].global
    BY <2>3, RowFields
  <2>5. (post[u].global => u \in Admins) /\ R!Mine(u, tpl[t])
    BY <1>3, <2>1, <2>2 DEF PostOK, TplForms
  <2> QED BY <2>2, <2>4, <2>5
<1> QED BY <1>1, <1>2, <1>3, TplChange

LEMMA RoomOwners ==
  ASSUME FormsInv, [R!Next]_(R!vars), NEW r \in Rooms, saved'[r] # saved[r], R!Here(saved[r]), R!Here(saved'[r])
  PROVE  /\ saved'[r].author = saved[r].author
         /\ \E u \in Users : R!Mine(u, saved[r]) /\ R!Saved(u)
<1>1. ~(\E u \in Users : R!DeleteRoom(u, r) \/ R!DbCreateRoom(u, r))
  BY DEF R!DeleteRoom, R!DbCreateRoom, R!Here, FormsInv
<1>2. PICK u \in Users : R!DbUpdateRoom(u) /\ form[u].id = r
  BY <1>1, RoomChange
<1>3. /\ post[u] # None /\ form[u].kind = "edit_room" /\ R!Done(u)
      /\ saved' = [saved EXCEPT ![r] = R!RoomRow(post[u])]
  BY <1>2 DEF R!DbUpdateRoom
<1>4. R!Saved(u) /\ PostOK(post[u], form[u], u, tpl, saved, now)
  BY <1>3, Writes
<1>5. saved'[r] = R!RoomRow(post[u])
  BY <1>3 DEF FormsInv
<1>6. saved'[r].author = post[u].author
  BY <1>3, <1>5, RoomRowOK DEF RoomForms
<1>7. R!Mine(u, saved[r]) /\ post[u].author = saved[r].author
  BY <1>2, <1>3, <1>4 DEF PostOK
<1> QED BY <1>4, <1>6, <1>7

LEMMA CloseStep ==
  ASSUME FormsInv, NEW u \in Users, R!Saved(u), form[u].kind \in RoomForms
  PROVE  \/ post[u].close <= now + MaxAhead
         \/ post[u].current # None /\ R!Minute(post[u].current) = R!Minute(post[u].close)
BY DEF R!Saved, FormsInv, PostOK

LEMMA FormsAlways ==
  ASSUME FormsInv PROVE R!SelectorShowsVersion /\ R!ListsAreOpen
<1>1. R!SelectorShowsVersion
  BY DEF FormsInv, FormOK, SelectShows, TplForms, R!SelectorShowsVersion
<1>2. R!ListsAreOpen
  BY DEF R!ListsAreOpen, R!ListTemplates, R!ListAssociatedRooms, R!Readable, R!Mine
<1> QED BY <1>1, <1>2

(* From rows that forms can have written, whatever rows they are, what     *)
(* the lobby promises of its forms holds.                                  *)
THEOREM FormsKeepPromises == FormsInv /\ [][R!Next]_(R!vars) => FormsHold
<1>1. FormsInv /\ [R!Next]_(R!vars) => FormsInv'
  BY FormsStep
<1>2. FormsInv => R!SelectorShowsVersion /\ R!ListsAreOpen
  BY FormsAlways
<1>3. FormsInv /\ [R!Next]_(R!vars) =>
        [\A u \in Users : R!Saved(u) =>
           \A made \in R!NewRow(u) :
             /\ \A w \in DOMAIN made.manifest :
                  made.manifest[w] = IF w \in DOMAIN post[u].picks THEN post[u].picks[w] ELSE Off
             /\ made.name # "" /\ (made.limit = None \/ made.limit >= 1)]_(R!vars)
  BY SavesStep
<1>4. FormsInv /\ [R!Next]_(R!vars) =>
        [\A u \in Users : R!Saved(u) =>
           \A made \in R!NewRow(u) :
             /\ (form[u].kind = "create_room" /\ form[u].query # None) => made.base = form[u].query
             /\ form[u].kind \in {"create_tpl", "edit_tpl"} =>
                  made.named = (IF form[u].query \in {Blank, None} THEN None ELSE form[u].query)]_(R!vars)
  BY SavesStep DEF TplForms
<1>5. FormsInv /\ [R!Next]_(R!vars) =>
        [/\ \A t \in Tpls : (R!Here(tpl[t]) /\ tpl'[t] # tpl[t]) =>
              \E u \in Users : R!Mine(u, tpl[t]) /\ (R!Saved(u) \/ tpl'[t] = Gone)
         /\ \A t \in Tpls : (R!Here(tpl'[t]) /\ tpl'[t].global /\ tpl'[t] # tpl[t]) =>
              \E u \in Admins : R!Saved(u)
         /\ \A r \in Rooms : (R!Here(saved[r]) /\ R!Here(saved'[r]) /\ saved'[r] # saved[r]) =>
              /\ saved'[r].author = saved[r].author
              /\ \E u \in Users : R!Mine(u, saved[r]) /\ R!Saved(u)]_(R!vars)
  BY TplOwners, RoomOwners
<1>6. FormsInv /\ [R!Next]_(R!vars) =>
        [\A u \in Users : (R!Saved(u) /\ form[u].kind \in {"create_room", "edit_room"}) =>
           \/ post[u].close <= now + MaxAhead
           \/ post[u].current # None /\ R!Minute(post[u].current) = R!Minute(post[u].close)]_(R!vars)
  BY CloseStep DEF RoomForms
<1> QED BY <1>1, <1>2, <1>3, <1>4, <1>5, <1>6, PTL DEF FormsHold, R!SavesAreThePicks, R!VersionAsNamed, R!OnlyOwnersChange,
            R!CloseDatesHeld

(* With any users, templates and rooms, whatever indexes are loaded and    *)
(* however requests interleave: a form saves what was picked in it, its    *)
(* version is the one it named, only owners change rows, and lists open.   *)
THEOREM FormsSaveThePicks == R!Spec => FormsHold
BY FormsInitially, FormsKeepPromises, PTL DEF R!Spec

=============================================================================
