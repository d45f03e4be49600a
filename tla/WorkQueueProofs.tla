--------------------------- MODULE WorkQueueProofs ---------------------------
(***************************************************************************)
(* Proofs about WorkQueue, for any number of jobs, workers, calls,         *)
(* checkers and partitions: no job is lost, nobody sleeps, the queue       *)
(* implements a JobBoard, and a claim does not outlast its timeout.        *)
(***************************************************************************)
EXTENDS WorkQueue, TLAPS

USE QueueConstants

(* The stored form of a partition's name. *)
LEMMA NormalizeType ==
  ASSUME NEW n \in PartitionNames \cup {None}
  PROVE  Normalize(n) \in Parts
BY DEF Normalize, Parts

LEMMA IdleType == Idle \in CallRecord
BY DEF Idle, CallRecord, Stages, Parts

LEMMA WokenType ==
  ASSUME NEW c \in CallRecord, NEW p \in Parts
  PROVE  /\ Woken(c, p) \in CallRecord
         /\ Woken(c, p).pc = c.pc /\ Woken(c, p).job = c.job
         /\ Woken(c, p).part = c.part /\ Woken(c, p).score = c.score
BY DEF Woken, CallRecord, ClaimStages, Statuses

LEMMA NotifiedType ==
  ASSUME NEW c \in CallRecord, NEW j \in Jobs, NEW s \in Statuses
  PROVE  /\ Notified(c, j, s) \in CallRecord
         /\ Notified(c, j, s).pc = c.pc /\ Notified(c, j, s).job = c.job
         /\ Notified(c, j, s).part = c.part /\ Notified(c, j, s).score = c.score
BY DEF Notified, CallRecord, Statuses

-----------------------------------------------------------------------------
(* What holds of a call in progress, c: what its fields hold at the stages *)
(* that use them, ...                                                      *)
CallTyped(c) ==
  /\ c \in CallRecord
  /\ c.pc \notin {"idle", "claim_pop", "claim_wait"} => c.job \in Jobs
  /\ c.pc \in ClaimStages \cup {"reclaim_hget", "reclaim_hset"} => c.worker \in Workers
  /\ c.pc \in {"resolve_hget", "resolve_get", "resolve_hdel", "resolve_callback",
              "resolve_publish", "resolve_cleanup", "waited", "orphan_callback"}
       => c.status \in Statuses
  /\ c.pc \in WaitStages => c.msg # "wake"
  /\ c.pc \in ClaimStages => c.msg \in {None, "wake"}

(* ... that its job was enqueued, and where it thinks the job belongs, ... *)
CallPlaced(c) ==
  /\ c.job # None => Has(home, c.job)
  /\ c.pc \in PlacedStages => Place(c) \in home
  /\ c.pc = "orphan_del_result" => ~Has(desc, c.job)

(* ... what it knows when it sleeps, and what it was told. *)
CallAware(c) ==
  /\ c.pc = "claim_wait" /\ c.msg = None => \A e \in pending : e.part # c.part
  /\ c.pc \in {"wait_check2", "wait_recv"} /\ c.msg = None => ~Has(results, c.job)
  /\ c.pc = "wait_recv" /\ c.msg = None => ~Has(resolved, c.job)
  /\ HasCallback /\ (\/ c.msg = "success"
                     \/ c.pc \in {"resolve_publish", "waited"} /\ c.status = "success")
       => c.job \in handled

CallOK(c) == CallTyped(c) /\ CallPlaced(c) /\ CallAware(c)

(* What holds of the keys and the histories. *)
KeysTyped ==
  /\ desc \subseteq [job : Jobs, part : Parts]
  /\ pending \subseteq Entry
  /\ partitions \subseteq Parts \ {None}
  /\ claims \subseteq Claim
  /\ results \subseteq JobResult
  /\ resolved \subseteq JobResult
  /\ overdue \subseteq Jobs
  /\ snap \in [Checkers -> SUBSET Entry]
  /\ home \subseteq Entry
  /\ handled \subseteq Jobs
  /\ dropped \subseteq Jobs

KeysPlaced ==
  /\ pending \subseteq home
  /\ \A e \in home : e.part \in partitions \cup {None}
  /\ \A c \in claims : Place(c) \in home
  /\ \A k \in Checkers : snap[k] \subseteq home
  /\ \A r \in results : Has(home, r.job)

KeysHandled ==
  HasCallback => \A r \in results \cup resolved : r.status = "success" => r.job \in handled

(* The inductive invariant. *)
QueueInv ==
  /\ KeysTyped /\ KeysPlaced /\ KeysHandled
  /\ DOMAIN call = Calls /\ call = [t \in Calls |-> call[t]]
  /\ \A t \in Calls : CallOK(call[t])
  /\ NoJobLost

LEMMA InvImplies ==
  QueueInv => /\ TypeOK /\ JobKeepsItsPlace /\ NoJobLost
              /\ NoSleepingWorker /\ NoSleepingWaiter /\ SuccessIsHandled
<1> SUFFICES ASSUME QueueInv
             PROVE  /\ TypeOK /\ JobKeepsItsPlace /\ NoJobLost
                    /\ NoSleepingWorker /\ NoSleepingWaiter /\ SuccessIsHandled
  OBVIOUS
<1>1. TypeOK
  BY DEF QueueInv, KeysTyped, TypeOK, CallOK, CallTyped
<1>2. JobKeepsItsPlace
  BY DEF QueueInv, KeysPlaced, CallOK, CallPlaced, JobKeepsItsPlace
<1>3. NoSleepingWorker
  BY DEF QueueInv, CallOK, CallAware, NoSleepingWorker, At
<1>4. NoSleepingWaiter
  BY DEF QueueInv, CallOK, CallAware, NoSleepingWaiter, At
<1>5. SuccessIsHandled
  BY DEF QueueInv, KeysHandled, CallOK, CallAware, SuccessIsHandled, At
<1> QED BY <1>1, <1>2, <1>3, <1>4, <1>5 DEF QueueInv

LEMMA InvInit == Init => QueueInv
<1> SUFFICES ASSUME Init PROVE QueueInv
  OBVIOUS
<1>1. KeysTyped /\ KeysPlaced /\ KeysHandled /\ NoJobLost
  BY DEF Init, KeysTyped, KeysPlaced, KeysHandled, NoJobLost
<1>2. CallOK(Idle)
  BY IdleType DEF CallOK, CallTyped, CallPlaced, CallAware, Idle, ClaimStages,
     WaitStages, PlacedStages
<1> QED BY <1>1, <1>2 DEF Init, QueueInv

(* Most steps of a call are a read: call slot t goes on with record c, and *)
(* lets go of its job only if that has no description.                     *)
LEMMA QuietStep ==
  ASSUME QueueInv, NEW t \in Calls, NEW c, CallOK(c), Go(t, c),
         UNCHANGED <<store, rest>>,
         call[t].pc \in HoldingStages =>
            (c.pc \in HoldingStages /\ c.job = call[t].job) \/ ~Has(desc, call[t].job)
  PROVE  QueueInv'
<1> USE DEF store, rest
<1>1. KeysTyped' /\ KeysPlaced' /\ KeysHandled'
  BY DEF QueueInv, KeysTyped, KeysPlaced, KeysHandled
<1>2. /\ DOMAIN call' = Calls /\ call' = [u \in Calls |-> call'[u]]
      /\ call'[t] = c /\ \A u \in Calls \ {t} : call'[u] = call[u]
  BY DEF QueueInv, Go
<1>3. ASSUME NEW u \in Calls PROVE CallOK(call[u])'
  <2>1. CallOK(call'[u])
    BY <1>2 DEF QueueInv
  <2> QED BY <2>1 DEF CallOK, CallTyped, CallPlaced, CallAware, Has
<1>4. NoJobLost'
  <2> SUFFICES ASSUME NEW d \in desc, Held(d.job) PROVE Held(d.job)'
    BY DEF QueueInv, NoJobLost, Has
  <2>1. PICK u \in Calls : call[u].job = d.job /\ call[u].pc \in HoldingStages
    BY DEF Held
  <2>2. CASE u = t
    <3>1. c.pc \in HoldingStages /\ c.job = d.job
      BY <2>1, <2>2 DEF Has
    <3> QED BY <3>1, <1>2 DEF Held
  <2>3. CASE u # t
    BY <2>1, <2>3, <1>2 DEF Held
  <2> QED BY <2>2, <2>3
<1> QED BY <1>1, <1>2, <1>3, <1>4 DEF QueueInv
LEMMA DescribedPartType ==
  ASSUME QueueInv, NEW j \in Jobs PROVE DescribedPart(j) \in Parts
<1>1. CASE \E d \in desc : d.job = j
  <2>1. (CHOOSE d \in desc : d.job = j) \in desc
    BY <1>1
  <2>2. (CHOOSE d \in desc : d.job = j).part \in Parts
    BY <2>1 DEF QueueInv, KeysTyped
  <2> QED BY <1>1, <2>2 DEF DescribedPart
<1>2. CASE ~ \E d \in desc : d.job = j
  BY <1>2 DEF DescribedPart, Parts
<1> QED BY <1>1, <1>2


LEMMA IdleOK == CallOK(Idle)
BY IdleType DEF Idle, CallOK, CallTyped, CallPlaced, CallAware, ClaimStages,
   WaitStages, PlacedStages

-----------------------------------------------------------------------------
(* The steps that only start a call. *)
LEMMA CallStarts ==
  ASSUME QueueInv, NEW t \in Calls
  PROVE  CallStart(t) => QueueInv'
<1> USE DEF At, Start
<1>1. ASSUME NEW w \in Workers, NEW n \in PartitionNames \cup {None}, ClaimJob(t, w, n)
      PROVE  QueueInv'
  <2>0. PICK p \in Parts : p = Normalize(n)
    BY NormalizeType
  <2> DEFINE d == [Idle EXCEPT !.pc = "claim_pop", !.worker = w, !.part = p,
                               !.msg = "wake"]
  <2>1. d \in CallRecord /\ d.pc = "claim_pop" /\ d.worker = w /\ d.job = None
        /\ d.msg = "wake"
    BY IdleType DEF Idle, CallRecord, Stages, ClaimStages, WaitStages
  <2>2. CallOK(d)
    BY <2>1 DEF CallOK, CallTyped, CallPlaced, CallAware, Place,
       ClaimStages, WaitStages, PlacedStages
  <2> QED BY <1>1, <2>0, <2>2, QuietStep DEF ClaimJob, HoldingStages
<1>2. ASSUME NEW j \in Jobs, CancelJob(t, j) PROVE QueueInv'
  <2> DEFINE d == [Idle EXCEPT !.pc = "cancel_get", !.job = j]
  <2>1. d \in CallRecord /\ d.pc = "cancel_get" /\ d.job = j /\ d.msg = None
    BY IdleType DEF Idle, CallRecord, Stages, ClaimStages, WaitStages
  <2>2. CallOK(d)
    BY <1>2, <2>1 DEF CancelJob, CallOK, CallTyped, CallPlaced, CallAware, Place,
       ClaimStages, WaitStages, PlacedStages
  <2> QED BY <1>2, <2>2, QuietStep DEF CancelJob, HoldingStages
<1>3. ASSUME NEW j \in Jobs, WaitForJob(t, j) PROVE QueueInv'
  <2> DEFINE d == [Idle EXCEPT !.pc = "wait_status", !.job = j]
  <2>1. d \in CallRecord /\ d.pc = "wait_status" /\ d.job = j /\ d.msg = None
    BY IdleType DEF Idle, CallRecord, Stages, ClaimStages, WaitStages
  <2>2. CallOK(d)
    BY <1>3, <2>1 DEF WaitForJob, CallOK, CallTyped, CallPlaced, CallAware, Place,
       ClaimStages, WaitStages, PlacedStages
  <2> QED BY <1>3, <2>2, QuietStep DEF WaitForJob, HoldingStages
<1>4. ASSUME NEW j \in Jobs, OrphanedResult(t, j) PROVE QueueInv'
  <2>0. Has(home, j)
    BY <1>4 DEF QueueInv, KeysPlaced, OrphanedResult, Has
  <2> DEFINE d == [Idle EXCEPT !.pc = "orphan_get", !.job = j]
  <2>1. d \in CallRecord /\ d.pc = "orphan_get" /\ d.job = j /\ d.msg = None
    BY IdleType DEF Idle, CallRecord, Stages, ClaimStages, WaitStages
  <2>2. CallOK(d)
    BY <1>4, <2>0, <2>1 DEF OrphanedResult, CallOK, CallTyped, CallPlaced, CallAware, Place,
       ClaimStages, WaitStages, PlacedStages
  <2> QED BY <1>4, <2>2, QuietStep DEF OrphanedResult, HoldingStages
<1>5. ASSUME NEW w \in Workers, NEW j \in Jobs, ReclaimJob(t, w, j) PROVE QueueInv'
  <2> DEFINE d == [Idle EXCEPT !.pc = "reclaim_hget", !.worker = w, !.job = j]
  <2>1. d \in CallRecord /\ d.pc = "reclaim_hget" /\ d.job = j /\ d.worker = w
        /\ d.msg = None
    BY IdleType DEF Idle, CallRecord, Stages, ClaimStages, WaitStages
  <2>2. CallOK(d)
    BY <1>5, <2>1 DEF ReclaimJob, CallOK, CallTyped, CallPlaced, CallAware, Place,
       ClaimStages, WaitStages, PlacedStages
  <2> QED BY <1>5, <2>2, QuietStep DEF ReclaimJob, HoldingStages
<1>6. ASSUME NEW w \in Workers, NEW j \in Jobs, NEW s \in Reported, ResolveJob(t, w, j, s)
      PROVE  QueueInv'
  <2> DEFINE d == [Idle EXCEPT !.pc = "resolve_hget", !.worker = w, !.job = j, !.status = s]
  <2>1. d \in CallRecord /\ d.pc = "resolve_hget" /\ d.job = j /\ d.status = s
        /\ d.msg = None
    BY IdleType DEF Idle, CallRecord, Stages, ClaimStages, WaitStages, Statuses
  <2>2. CallOK(d)
    BY <1>6, <2>1 DEF ResolveJob, Statuses, CallOK, CallTyped, CallPlaced, CallAware, Place,
       ClaimStages, WaitStages, PlacedStages
  <2> QED BY <1>6, <2>2, QuietStep DEF ResolveJob, HoldingStages
<1> QED BY <1>1, <1>2, <1>3, <1>4, <1>5, <1>6 DEF CallStart

-----------------------------------------------------------------------------
(* The steps of claim_job_in, cancel_job and reclaim_job that only read. *)
LEMMA QueueReads ==
  ASSUME QueueInv, NEW t \in Calls,
         \/ ClaimEmpty(t) \/ ClaimWake(t) \/ ClaimTimeout(t) \/ ClaimGet(t)
         \/ ClaimDropGet(t) \/ CancelGet(t) \/ ReclaimHget(t)
         \/ ResolveHget(t) \/ ResolveGet(t)
  PROVE  QueueInv'
<1> USE DEF At, Return, Start
<1> DEFINE c == call[t]
<1>0. c \in CallRecord /\ CallOK(c) /\ CallOK(Idle)
  BY IdleOK DEF QueueInv, CallOK, CallTyped
<1>1. CASE ClaimEmpty(t)
  <2> DEFINE d == [c EXCEPT !.pc = "claim_wait"]
  <2>1. c.pc = "claim_pop" /\ \A e \in pending : e.part # c.part
    BY <1>1 DEF ClaimEmpty
  <2>2. d \in CallRecord /\ d.pc = "claim_wait" /\ d.worker = c.worker /\ d.job = c.job
        /\ d.part = c.part /\ d.msg = c.msg
    BY <1>0, <2>1 DEF CallRecord, Stages, ClaimStages, WaitStages
  <2>3. CallOK(d)
    BY <1>0, <2>1, <2>2 DEF CallOK, CallTyped, CallPlaced, CallAware, Place,
       ClaimStages, WaitStages, PlacedStages
  <2> QED BY <1>1, <2>1, <2>2, <2>3, QuietStep DEF ClaimEmpty, HoldingStages
<1>2. CASE ClaimWake(t)
  <2> DEFINE d == [c EXCEPT !.pc = "claim_pop", !.msg = None]
  <2>1. c.pc = "claim_wait"
    BY <1>2 DEF ClaimWake
  <2>2. d \in CallRecord /\ d.pc = "claim_pop" /\ d.worker = c.worker /\ d.job = c.job
        /\ d.msg = None
    BY <1>0, <2>1 DEF CallRecord, Stages, ClaimStages, WaitStages
  <2>3. CallOK(d)
    BY <1>0, <2>1, <2>2 DEF CallOK, CallTyped, CallPlaced, CallAware, Place,
       ClaimStages, WaitStages, PlacedStages
  <2> QED BY <1>2, <2>1, <2>2, <2>3, QuietStep DEF ClaimWake, HoldingStages
<1>3. CASE ClaimTimeout(t)
  BY <1>0, <1>3, QuietStep DEF ClaimTimeout, HoldingStages
<1>4. CASE ClaimGet(t)
  <2>1. CASE ~Has(desc, c.job) /\ Go(t, Idle)
    BY <1>0, <1>4, <2>1, QuietStep DEF ClaimGet
  <2>2. CASE Has(desc, c.job)
    <3>0. PICK q \in {"claim_drop_get", "claim_hset"} :
             q = IF c.job \in overdue THEN "claim_drop_get" ELSE "claim_hset"
      OBVIOUS
    <3> DEFINE d == [c EXCEPT !.pc = q]
    <3>1. c.pc = "claim_get"
      BY <1>4 DEF ClaimGet
    <3>2. d \in CallRecord /\ d.pc = q /\ d.worker = c.worker /\ d.job = c.job /\ d.part = c.part
          /\ d.score = c.score /\ d.msg = c.msg
      BY <1>0, <3>1 DEF CallRecord, Stages, ClaimStages, WaitStages
    <3>3. CallOK(d)
      BY <1>0, <3>1, <3>2 DEF CallOK, CallTyped, CallPlaced, CallAware, Place,
         ClaimStages, WaitStages, PlacedStages
    <3> QED BY <1>4, <2>2, <3>2, <3>1, <3>2, <3>3, QuietStep, <3>0 DEF ClaimGet, HoldingStages
<2> QED BY <1>4, <2>1, <2>2 DEF ClaimGet
<1>5. CASE ClaimDropGet(t)
  <2>0. PICK b \in BOOLEAN : b = Has(desc, c.job)
    BY DEF Has
  <2> DEFINE d == [c EXCEPT !.pc = "claim_drop_exec", !.flag = b]
  <2>1. c.pc = "claim_drop_get"
    BY <1>5 DEF ClaimDropGet
  <2>a. "claim_drop_exec" \in Stages
    BY DEF Stages, ClaimStages
  <2>2. d \in CallRecord /\ d.pc = "claim_drop_exec" /\ d.worker = c.worker /\ d.job = c.job
        /\ d.part = c.part /\ d.score = c.score /\ d.msg = c.msg
    BY <1>0, <2>a DEF CallRecord
  <2>3. CallOK(d)
    BY <1>0, <2>1, <2>2 DEF CallOK, CallTyped, CallPlaced, CallAware, Place,
       ClaimStages, WaitStages, PlacedStages
  <2> QED BY <1>5, <2>1, <2>2, <2>3, QuietStep, <2>0 DEF ClaimDropGet, HoldingStages
<1>6. CASE CancelGet(t)
  <2>0. PICK p \in Parts : p = DescribedPart(c.job)
    BY <1>0, <1>6, DescribedPartType DEF CancelGet, CallOK, CallTyped
  <2> DEFINE d == [c EXCEPT !.pc = "cancel_exec", !.part = p]
  <2>1. c.pc = "cancel_get"
    BY <1>6 DEF CancelGet
  <2>2. d \in CallRecord /\ d.pc = "cancel_exec" /\ d.job = c.job /\ d.msg = c.msg
    BY <1>0, <2>1 DEF CallRecord, Stages, ClaimStages, WaitStages
  <2>3. CallOK(d)
    BY <1>0, <2>1, <2>2 DEF CallOK, CallTyped, CallPlaced, CallAware, Place,
       ClaimStages, WaitStages, PlacedStages
  <2> QED BY <1>6, <2>1, <2>2, <2>3, QuietStep, <2>0 DEF CancelGet, HoldingStages
<1>7. CASE ReclaimHget(t)
  <2>1. CASE Go(t, Idle)
    BY <1>0, <1>7, <2>1, QuietStep DEF ReclaimHget, HoldingStages
  <2>2. ASSUME NEW e \in OwnClaims(t),
               Go(t, [c EXCEPT !.pc = "reclaim_hset", !.score = e.score, !.part = e.part])
        PROVE  QueueInv'
    <3>0. e.score \in Scores /\ e.part \in Parts /\ e.job = c.job /\ Place(e) \in home
      BY DEF QueueInv, KeysTyped, KeysPlaced, OwnClaims, Claim
    <3> DEFINE d == [c EXCEPT !.pc = "reclaim_hset", !.score = e.score, !.part = e.part]
    <3>1. c.pc = "reclaim_hget"
      BY <1>7 DEF ReclaimHget
    <3>2. d \in CallRecord /\ d.pc = "reclaim_hset" /\ d.worker = c.worker /\ d.job = c.job
            /\ d.score = e.score /\ d.part = e.part /\ d.msg = c.msg
      BY <1>0, <3>1, <3>0 DEF CallRecord, Stages, ClaimStages, WaitStages
    <3>3. CallOK(d)
      BY <1>0, <3>1, <3>2, <3>0 DEF CallOK, CallTyped, CallPlaced, CallAware, Place,
         ClaimStages, WaitStages, PlacedStages
    <3> QED BY <1>7, <2>2, <3>2, <3>1, <3>2, <3>3, QuietStep DEF ReclaimHget, HoldingStages
<2> QED BY <1>7, <2>1, <2>2 DEF ReclaimHget
<1>8. CASE ResolveHget(t)
  <2>a. CASE Go(t, Idle)
    BY <1>0, <1>8, <2>a, QuietStep DEF ResolveHget, HoldingStages
  <2>b. CASE Go(t, [c EXCEPT !.pc = "resolve_get"])
    <3> DEFINE d == [c EXCEPT !.pc = "resolve_get"]
    <3>1. c.pc = "resolve_hget"
      BY <1>8 DEF ResolveHget
    <3>2. d \in CallRecord /\ d.pc = "resolve_get" /\ d.job = c.job /\ d.status = c.status
          /\ d.msg = c.msg
      BY <1>0, <3>1 DEF CallRecord, Stages, ClaimStages, WaitStages
    <3>3. CallOK(d)
      BY <1>0, <3>1, <3>2 DEF CallOK, CallTyped, CallPlaced, CallAware, Place,
         ClaimStages, WaitStages, PlacedStages
    <3> QED BY <1>8, <2>b, <3>1, <3>2, <3>3, QuietStep DEF ResolveHget, HoldingStages
<2> QED BY <1>8, <2>a, <2>b DEF ResolveHget
<1>9. CASE ResolveGet(t)
  <2>a. CASE Go(t, Idle)
    BY <1>0, <1>9, <2>a, QuietStep DEF ResolveGet, HoldingStages
  <2>b. CASE Go(t, [c EXCEPT !.pc = "resolve_hdel"])
    <3> DEFINE d == [c EXCEPT !.pc = "resolve_hdel"]
    <3>1. c.pc = "resolve_get"
      BY <1>9 DEF ResolveGet
    <3>2. d \in CallRecord /\ d.pc = "resolve_hdel" /\ d.job = c.job /\ d.status = c.status
          /\ d.msg = c.msg
      BY <1>0, <3>1 DEF CallRecord, Stages, ClaimStages, WaitStages
    <3>3. CallOK(d)
      BY <1>0, <3>1, <3>2 DEF CallOK, CallTyped, CallPlaced, CallAware, Place,
         ClaimStages, WaitStages, PlacedStages
    <3> QED BY <1>9, <2>b, <3>1, <3>2, <3>3, QuietStep DEF ResolveGet, HoldingStages
<2> QED BY <1>9, <2>a, <2>b DEF ResolveGet
<1> QED BY <1>1, <1>2, <1>3, <1>4, <1>5, <1>6, <1>7, <1>8, <1>9

-----------------------------------------------------------------------------
(* The steps of wait_for_job and of the orphaned results that only read. *)
LEMMA WaitReads ==
  ASSUME QueueInv, NEW t \in Calls,
         \/ WaitStatus(t) \/ WaitGetResult(t) \/ WaitNotFound(t) \/ WaitSubscribe(t)
         \/ WaitCheck(t) \/ WaitCheck2(t) \/ WaitRecv(t) \/ WaitTimeout(t)
         \/ WaitReturn(t) \/ OrphanRead(t)
  PROVE  QueueInv'
<1> USE DEF At, Return, Start
<1> DEFINE c == call[t]
<1>0. c \in CallRecord /\ CallOK(c) /\ CallOK(Idle)
  BY IdleOK DEF QueueInv, CallOK, CallTyped
<1>1. CASE WaitStatus(t)
  <2> DEFINE j == c.job
             live == Has(claims, j) \/ Has(desc, j)
  <2>0. PICK b \in BOOLEAN, q \in {"wait_get_result", "wait_subscribe", "wait_not_found"} :
           /\ b = (live /\ Has(results, j))
           /\ q = IF Has(results, j) THEN "wait_get_result"
                  ELSE IF live THEN "wait_subscribe" ELSE "wait_not_found"
    BY DEF Has
  <2> DEFINE d == [c EXCEPT !.flag = b, !.pc = q]
  <2>1. c.pc = "wait_status"
    BY <1>1 DEF WaitStatus
  <2>a. q \in Stages
    BY DEF Stages, WaitStages
  <2>2. d \in CallRecord /\ d.pc = q /\ d.job = c.job /\ d.msg = c.msg
    BY <1>0, <2>a DEF CallRecord
  <2>3. CallOK(d)
    BY <1>0, <2>1, <2>2 DEF CallOK, CallTyped, CallPlaced, CallAware, Place,
       ClaimStages, WaitStages, PlacedStages
  <2> QED BY <1>1, <2>1, <2>2, <2>3, QuietStep, <2>0 DEF WaitStatus, HoldingStages
<1>2. CASE WaitGetResult(t)
  <2>0. PICK q \in {"wait_subscribe", "wait_not_found"} :
           q = IF Has(results, c.job) \/ c.flag THEN "wait_subscribe" ELSE "wait_not_found"
    OBVIOUS
  <2> DEFINE d == [c EXCEPT !.flag = FALSE, !.pc = q]
  <2>1. c.pc = "wait_get_result"
    BY <1>2 DEF WaitGetResult
  <2>a. q \in Stages
    BY DEF Stages, WaitStages
  <2>2. d \in CallRecord /\ d.pc = q /\ d.job = c.job /\ d.msg = c.msg
    BY <1>0, <2>a DEF CallRecord
  <2>3. CallOK(d)
    BY <1>0, <2>1, <2>2 DEF CallOK, CallTyped, CallPlaced, CallAware, Place,
       ClaimStages, WaitStages, PlacedStages
  <2> QED BY <1>2, <2>1, <2>2, <2>3, QuietStep, <2>0 DEF WaitGetResult, HoldingStages
<1>3. CASE WaitSubscribe(t)
  <2> DEFINE d == [c EXCEPT !.pc = "wait_check"]
  <2>1. c.pc = "wait_subscribe"
    BY <1>3 DEF WaitSubscribe
  <2>2. d \in CallRecord /\ d.pc = "wait_check" /\ d.job = c.job /\ d.msg = c.msg
    BY <1>0, <2>1 DEF CallRecord, Stages, ClaimStages, WaitStages
  <2>3. CallOK(d)
    BY <1>0, <2>1, <2>2 DEF CallOK, CallTyped, CallPlaced, CallAware, Place,
       ClaimStages, WaitStages, PlacedStages
  <2> QED BY <1>3, <2>1, <2>2, <2>3, QuietStep DEF WaitSubscribe, HoldingStages
<1>4. ASSUME NEW r \in results \cup resolved, r.job = c.job, c.pc \in WaitStages,
             Go(t, [c EXCEPT !.pc = "waited", !.status = r.status, !.msg = None]),
             UNCHANGED <<store, rest>>
      PROVE  QueueInv'
  <2> DEFINE d == [c EXCEPT !.pc = "waited", !.status = r.status, !.msg = None]
  <2>1. r.status \in Statuses /\ (HasCallback /\ r.status = "success" => c.job \in handled)
    BY <1>4 DEF QueueInv, KeysTyped, KeysHandled, JobResult
  <2>2. d \in CallRecord /\ d.pc = "waited" /\ d.job = c.job /\ d.msg = None
        /\ d.status = r.status
    BY <1>0, <2>1 DEF CallRecord, Stages, ClaimStages, WaitStages
  <2>3. CallOK(d)
    BY <1>0, <1>4, <2>1, <2>2 DEF CallOK, CallTyped, CallPlaced, CallAware, Place,
       ClaimStages, WaitStages, PlacedStages
  <2> QED BY <1>4, <2>3, QuietStep DEF WaitStages, HoldingStages
<1>5. CASE WaitNotFound(t)
  BY <1>0, <1>4, <1>5, QuietStep DEF WaitNotFound, WaitRead, WaitStages, HoldingStages
<1>6. CASE WaitCheck(t)
  <2>a. CASE ~Has(results, c.job) /\ Go(t, [c EXCEPT !.pc = "wait_check2"])
    <3> DEFINE d == [c EXCEPT !.pc = "wait_check2"]
    <3>1. c.pc = "wait_check" /\ UNCHANGED <<store, rest>>
      BY <1>6 DEF WaitCheck, WaitRead
    <3>2. d \in CallRecord /\ d.pc = "wait_check2" /\ d.job = c.job /\ d.msg = c.msg
      BY <1>0, <3>1 DEF CallRecord, Stages, ClaimStages, WaitStages
    <3>3. CallOK(d)
      BY <1>0, <3>1, <3>2, <2>a DEF CallOK, CallTyped, CallPlaced, CallAware, Place,
         ClaimStages, WaitStages, PlacedStages
    <3> QED BY <1>6, <2>a, <3>1, <3>2, <3>3, QuietStep DEF WaitCheck, WaitRead, HoldingStages
<2> QED BY <1>4, <1>6, <2>a DEF WaitCheck, WaitRead, WaitStages
<1>7. CASE WaitCheck2(t)
  <2>a. CASE ~Has(resolved, c.job) /\ Go(t, [c EXCEPT !.pc = "wait_recv"])
    <3> DEFINE d == [c EXCEPT !.pc = "wait_recv"]
    <3>1. c.pc = "wait_check2" /\ UNCHANGED <<store, rest>>
      BY <1>7 DEF WaitCheck2, WaitRead
    <3>2. d \in CallRecord /\ d.pc = "wait_recv" /\ d.job = c.job /\ d.msg = c.msg
      BY <1>0, <3>1 DEF CallRecord, Stages, ClaimStages, WaitStages
    <3>3. CallOK(d)
      BY <1>0, <3>1, <3>2, <2>a DEF CallOK, CallTyped, CallPlaced, CallAware, Place,
         ClaimStages, WaitStages, PlacedStages
    <3> QED BY <1>7, <2>a, <3>1, <3>2, <3>3, QuietStep DEF WaitCheck2, WaitRead, HoldingStages
<2> QED BY <1>4, <1>7, <2>a DEF WaitCheck2, WaitRead, WaitStages
<1>8. CASE WaitRecv(t)
  <2>0. c.msg \in Statuses
    BY <1>0, <1>8 DEF WaitRecv, CallOK, CallTyped, CallRecord, WaitStages
  <2> DEFINE d == [c EXCEPT !.pc = "waited", !.status = c.msg, !.msg = None]
  <2>1. c.pc = "wait_recv"
    BY <1>8 DEF WaitRecv
  <2>2. d \in CallRecord /\ d.pc = "waited" /\ d.job = c.job /\ d.status = c.msg
        /\ d.msg = None
    BY <1>0, <2>1, <2>0 DEF CallRecord, Stages, ClaimStages, WaitStages
  <2>3. CallOK(d)
    BY <1>0, <2>1, <2>2, <2>0 DEF CallOK, CallTyped, CallPlaced, CallAware, Place,
       ClaimStages, WaitStages, PlacedStages
  <2> QED BY <1>8, <2>1, <2>2, <2>3, QuietStep DEF WaitRecv, HoldingStages
<1>9. ASSUME c.pc \in WaitStages, UNCHANGED <<store, rest>>,
             Go(t, [Idle EXCEPT !.pc = "cancel_get", !.job = c.job])
      PROVE  QueueInv'
  <2> DEFINE d == [Idle EXCEPT !.pc = "cancel_get", !.job = c.job]
  <2>1. c.job \in Jobs
    BY <1>0, <1>9 DEF CallOK, CallTyped, WaitStages
  <2>2. d \in CallRecord /\ d.pc = "cancel_get" /\ d.job = c.job /\ d.msg = None
    BY <2>1, IdleType DEF Idle, CallRecord, Stages, ClaimStages, WaitStages
  <2>3. CallOK(d)
    BY <1>0, <2>1, <2>2 DEF CallOK, CallTyped, CallPlaced, CallAware, Place,
       ClaimStages, WaitStages, PlacedStages
  <2> QED BY <1>9, <2>3, QuietStep DEF WaitStages, HoldingStages
<1>10. CASE WaitTimeout(t)
  BY <1>0, <1>9, <1>10, QuietStep DEF WaitTimeout, WaitStages, HoldingStages
<1>11. CASE WaitReturn(t)
  BY <1>0, <1>9, <1>11, QuietStep DEF WaitReturn, WaitStages, HoldingStages
<1>12. CASE OrphanRead(t)
  <2>a. CASE Go(t, Idle)
    BY <1>0, <1>12, <2>a, QuietStep DEF OrphanRead, HoldingStages
  <2>b. ASSUME NEW r \in results, r.job = c.job,
               Go(t, [c EXCEPT !.pc = "orphan_callback", !.status = r.status])
        PROVE  QueueInv'
    <3>0. r.status \in Statuses
      BY DEF QueueInv, KeysTyped, JobResult
    <3> DEFINE d == [c EXCEPT !.pc = "orphan_callback", !.status = r.status]
    <3>1. c.pc = "orphan_read"
      BY <1>12 DEF OrphanRead
    <3>2. d \in CallRecord /\ d.pc = "orphan_callback" /\ d.job = c.job /\ d.status = r.status
          /\ d.msg = c.msg
      BY <1>0, <3>1, <3>0 DEF CallRecord, Stages, ClaimStages, WaitStages
    <3>3. CallOK(d)
      BY <1>0, <3>1, <3>2, <3>0 DEF CallOK, CallTyped, CallPlaced, CallAware, Place,
         ClaimStages, WaitStages, PlacedStages
    <3> QED BY <1>12, <2>b, <3>1, <3>2, <3>3, QuietStep DEF OrphanRead, HoldingStages
<2> QED BY <1>12, <2>a, <2>b DEF OrphanRead
<1> QED BY <1>1, <1>2, <1>3, <1>5, <1>6, <1>7, <1>8, <1>10, <1>11, <1>12

-----------------------------------------------------------------------------
(* The other steps of a call write, but add nothing that a call may wait   *)
(* for or that a call has seen gone; j is the one job they touch.          *)
LEMMA WriteStep ==
  ASSUME QueueInv, NEW t \in Calls, NEW c, Go(t, c), NEW j \in Jobs,
         desc' \subseteq desc, pending' \subseteq pending,
         results' \subseteq results, resolved' \subseteq resolved,
         claims' \subseteq Claim, \A x \in claims' : Place(x) \in home,
         UNCHANGED <<partitions, overdue, snap, home>>,
         handled \subseteq handled', handled' \subseteq Jobs,
         dropped \subseteq dropped', dropped' \subseteq Jobs,
         CallOK(call[t])',
         \A i \in Jobs \ {j} : /\ Has(pending, i) => Has(pending', i)
                               /\ Has(claims, i) => Has(claims', i)
                               /\ Has(results, i) => Has(results', i),
         call[t].pc \in HoldingStages => call[t].job = j,
         \A d \in desc' : d.job = j =>
            \/ Has(pending', j) \/ Has(claims', j) \/ Has(results', j)
            \/ (c.job = j /\ c.pc \in HoldingStages) \/ j \in dropped'
            \/ \E u \in Calls \ {t} : call[u].job = j /\ call[u].pc \in HoldingStages
  PROVE  QueueInv'
<1>1. KeysTyped' /\ KeysPlaced' /\ KeysHandled'
  <2>1. KeysTyped'
    BY DEF QueueInv, KeysTyped
  <2>2. KeysPlaced'
    BY DEF QueueInv, KeysPlaced
  <2>3. KeysHandled'
    BY DEF QueueInv, KeysHandled
  <2> QED BY <2>1, <2>2, <2>3
<1>2. /\ DOMAIN call' = Calls /\ call' = [u \in Calls |-> call'[u]]
      /\ call'[t] = c /\ \A u \in Calls \ {t} : call'[u] = call[u]
  BY DEF QueueInv, Go
<1>3. ASSUME NEW u \in Calls \ {t} PROVE CallOK(call[u])'
  <2>1. CallOK(call[u]) /\ call'[u] = call[u]
    BY <1>2 DEF QueueInv
  <2>2. CallTyped(call[u])'
    BY <2>1 DEF CallOK, CallTyped
  <2>3. CallPlaced(call[u])'
    BY <2>1 DEF CallOK, CallPlaced, Has
  <2>4. CallAware(call[u])'
    BY <2>1 DEF CallOK, CallAware, Has
  <2> QED BY <2>2, <2>3, <2>4 DEF CallOK
<1>4. NoJobLost'
  <2> SUFFICES ASSUME NEW d \in desc'
               PROVE  \/ Has(pending', d.job) \/ Has(claims', d.job)
                      \/ Has(results', d.job) \/ Held(d.job)' \/ d.job \in dropped'
    BY DEF NoJobLost, Has, Held
  <2>0. d.job \in Jobs
    BY DEF QueueInv, KeysTyped
  <2>1. CASE d.job = j
    BY <1>2, <2>1 DEF Held
  <2>2. CASE d.job # j
    <3>1. ASSUME Held(d.job) PROVE Held(d.job)'
      <4>1. PICK u \in Calls : call[u].job = d.job /\ call[u].pc \in HoldingStages
        BY <3>1 DEF Held
      <4>2. call'[u] = call[u]
        BY <1>2, <2>2, <4>1
      <4> QED BY <4>1, <4>2 DEF Held
    <3> QED BY <2>0, <2>2, <3>1 DEF QueueInv, NoJobLost
  <2> QED BY <2>1, <2>2
<1> QED BY <1>1, <1>2, <1>3, <1>4 DEF QueueInv

(* A call that returns is fine in any state. *)
LEMMA IdleNext ==
  ASSUME QueueInv, NEW t \in Calls, Go(t, Idle)
  PROVE  CallOK(call[t])'
<1>1. call'[t] = Idle
  BY DEF QueueInv, Go
<1> QED BY <1>1, IdleType DEF Idle, CallOK, CallTyped, CallPlaced, CallAware,
       ClaimStages, WaitStages, PlacedStages

(* Removing one job's entries from a relation leaves those of the others. *)
LEMMA WithoutOthers ==
  ASSUME NEW rel, NEW j
  PROVE  /\ Without(rel, j) \subseteq rel
         /\ \A i : i # j /\ Has(rel, i) => Has(Without(rel, j), i)
         /\ ~Has(Without(rel, j), j)
BY DEF Without, Has

LEMMA ZRemOthers ==
  ASSUME NEW p, NEW j
  PROVE  /\ ZRem(p, j) \subseteq pending
         /\ \A i : i # j /\ Has(pending, i) => Has(ZRem(p, j), i)
BY DEF ZRem, Has

LEMMA ClaimWrites ==
  ASSUME QueueInv, NEW t \in Calls,
         ClaimPop(t) \/ ClaimHset(t) \/ ReclaimHset(t) \/ ResolveHdel(t)
  PROVE  QueueInv'
<1> USE DEF At
<1> DEFINE c == call[t]
<1>0. c \in CallRecord /\ CallOK(c)
  BY DEF QueueInv, CallOK, CallTyped
<1>1. CASE ClaimPop(t)
  <2>1. PICK e \in pending :
           /\ e.part = c.part
           /\ pending' = pending \ {e}
           /\ Go(t, [c EXCEPT !.pc = "claim_get", !.job = e.job, !.score = e.score])
    BY <1>1 DEF ClaimPop
  <2>2. /\ e \in home /\ e.job \in Jobs /\ e.score \in Scores
        /\ e = [job |-> e.job, part |-> e.part, score |-> e.score]
    BY DEF QueueInv, KeysTyped, KeysPlaced, Entry
  <2>3. /\ c.pc = "claim_pop"
        /\ UNCHANGED <<desc, partitions, claims, results, resolved, rest>>
    BY <1>1 DEF ClaimPop
  <2> DEFINE d == [c EXCEPT !.pc = "claim_get", !.job = e.job, !.score = e.score]
  <2>4. d \in CallRecord /\ d.pc = "claim_get" /\ d.job = e.job /\ d.score = e.score
        /\ d.part = c.part /\ d.worker = c.worker /\ d.msg = c.msg
    BY <1>0, <2>2 DEF CallRecord, Stages, ClaimStages, WaitStages
  <2>5. Place(d) \in home /\ Has(home, e.job)
    BY <2>1, <2>2, <2>4 DEF Place, Has
  <2>6. CallOK(d)
    BY <1>0, <2>2, <2>3, <2>4, <2>5 DEF CallOK, CallTyped, CallPlaced, CallAware,
       ClaimStages, WaitStages, PlacedStages
  <2>7. call'[t] = d
    BY <2>1 DEF QueueInv, Go
  <2>8. CallOK(call[t])'
    BY <2>1, <2>3, <2>4, <2>6, <2>7 DEF CallOK, CallTyped, CallPlaced, CallAware, rest, Has
  <2>9. \A i \in Jobs \ {e.job} : Has(pending, i) => Has(pending', i)
    BY <2>1 DEF Has
  <2>10. /\ pending' \subseteq pending /\ claims' \subseteq Claim
         /\ \A x \in claims' : Place(x) \in home
         /\ handled' \subseteq Jobs /\ dropped' \subseteq Jobs
         /\ UNCHANGED <<desc, partitions, claims, results, resolved, overdue, snap,
                        home, handled, dropped>>
    BY <2>1, <2>3 DEF rest, QueueInv, KeysTyped, KeysPlaced
  <2>11. d.pc \in HoldingStages /\ c.pc \notin HoldingStages
    BY <2>3, <2>4 DEF HoldingStages
  <2> QED BY <2>1, <2>2, <2>4, <2>8, <2>9, <2>10, <2>11, WriteStep
<1>2. ASSUME c.pc \in {"claim_hset", "reclaim_hset"}, Go(t, Idle),
             claims' = Without(claims, c.job)
                 \cup {[job |-> c.job, worker |-> c.worker, score |-> c.score,
                        part |-> c.part, stale |-> FALSE]},
             UNCHANGED <<desc, pending, partitions, results, resolved, rest>>
      PROVE  QueueInv'
  <2> DEFINE n == [job |-> c.job, worker |-> c.worker, score |-> c.score,
                   part |-> c.part, stale |-> FALSE]
  <2>1. Place(c) \in home /\ c.job \in Jobs /\ c.worker \in Workers /\ c.part \in Parts
    BY <1>0, <1>2 DEF CallOK, CallTyped, CallPlaced, CallRecord, ClaimStages, PlacedStages
  <2>2. c.score \in Scores
    BY <2>1 DEF Place, QueueInv, KeysTyped, Entry
  <2>3. n \in Claim /\ Place(n) = Place(c) /\ n.job = c.job
    BY <2>1, <2>2 DEF Claim, Place
  <2>4. /\ claims' \subseteq Claim /\ \A x \in claims' : Place(x) \in home
        /\ \A i \in Jobs \ {c.job} : Has(claims, i) => Has(claims', i)
        /\ Has(claims', c.job)
    <3>1. Without(claims, c.job) \subseteq claims
      BY WithoutOthers
    <3>2. \A i \in Jobs \ {c.job} : Has(claims, i) => Has(Without(claims, c.job), i)
      BY WithoutOthers
    <3>3. \A x \in claims' : x \in claims \/ x = n
      BY <1>2, <3>1
    <3>4. claims' \subseteq Claim
      BY <2>3, <3>3 DEF QueueInv, KeysTyped
    <3>5. \A x \in claims' : Place(x) \in home
      BY <2>1, <2>3, <3>3 DEF QueueInv, KeysPlaced
    <3>6. \A i \in Jobs \ {c.job} : Has(claims, i) => Has(claims', i)
      BY <1>2, <3>2 DEF Has
    <3>7. Has(claims', c.job)
      BY <1>2, <2>3 DEF Has
    <3> QED BY <3>4, <3>5, <3>6, <3>7
  <2> QED BY <1>2, <2>1, <2>4, IdleNext, WriteStep DEF rest, QueueInv, KeysTyped
<1>3. CASE ClaimHset(t)
  BY <1>2, <1>3 DEF ClaimHset, Return
<1>4. CASE ReclaimHset(t)
  BY <1>2, <1>4 DEF ReclaimHset, Return
<1>5. CASE ResolveHdel(t)
  <2> DEFINE d == [c EXCEPT !.pc = "resolve_callback"]
  <2>1. /\ c.pc = "resolve_hdel" /\ c.job \in Jobs
        /\ claims' = Without(claims, c.job)
        /\ Go(t, d)
        /\ UNCHANGED <<desc, pending, partitions, results, resolved, rest>>
    BY <1>0, <1>5 DEF ResolveHdel, CallOK, CallTyped
  <2>2. d \in CallRecord /\ d.pc = "resolve_callback" /\ d.job = c.job
        /\ d.status = c.status /\ d.msg = c.msg
    BY <1>0 DEF CallRecord, Stages, ClaimStages, WaitStages
  <2>3. CallOK(d)
    BY <1>0, <2>1, <2>2 DEF CallOK, CallTyped, CallPlaced, CallAware, Place,
       ClaimStages, WaitStages, PlacedStages
  <2>4. call'[t] = d
    BY <2>1 DEF QueueInv, Go
  <2>5. CallOK(call[t])'
    BY <2>1, <2>2, <2>3, <2>4 DEF CallOK, CallTyped, CallPlaced, CallAware, rest, Has
  <2>6. /\ claims' \subseteq Claim /\ \A x \in claims' : Place(x) \in home
        /\ \A i \in Jobs \ {c.job} : Has(claims, i) => Has(claims', i)
    BY <2>1, WithoutOthers DEF QueueInv, KeysTyped, KeysPlaced
  <2>7. /\ handled' \subseteq Jobs /\ dropped' \subseteq Jobs
        /\ UNCHANGED <<desc, pending, partitions, results, resolved, overdue, snap,
                       home, handled, dropped>>
    BY <2>1 DEF rest, QueueInv, KeysTyped
  <2>8. d.pc \in HoldingStages
    BY <2>2 DEF HoldingStages
  <2>9. \A i \in Jobs \ {c.job} : /\ Has(pending, i) => Has(pending', i)
                                  /\ Has(claims, i) => Has(claims', i)
                                  /\ Has(results, i) => Has(results', i)
    BY <2>6, <2>7
  <2> HIDE DEF d
  <2> QED BY <2>1, <2>2, <2>5, <2>6, <2>7, <2>8, <2>9, WriteStep
<1> QED BY <1>1, <1>3, <1>4, <1>5

LEMMA DeletingWrites ==
  ASSUME QueueInv, NEW t \in Calls,
         \/ CancelExec(t) \/ ClaimDropExec(t) \/ ResolveCleanup(t)
         \/ DeleteJobResult(t) \/ OrphanGet(t) \/ OrphanDelJob(t) \/ OrphanDelResult(t)
  PROVE  QueueInv'
<1> USE DEF At, Return
<1> DEFINE c == call[t]
           j == c.job
<1>0. c \in CallRecord /\ CallOK(c)
  BY DEF QueueInv, CallOK, CallTyped
<1>1. ASSUME NEW p, CancelKeys(p, j), UNCHANGED rest, NEW d, Go(t, d), CallOK(call[t])',
             j \in Jobs
      PROVE  QueueInv'
  <2>1. /\ pending' \subseteq pending /\ desc' \subseteq desc /\ claims' \subseteq claims
        /\ ~Has(desc', j)
        /\ \A i \in Jobs \ {j} : /\ Has(pending, i) => Has(pending', i)
                                 /\ Has(claims, i) => Has(claims', i)
    BY <1>1, WithoutOthers, ZRemOthers DEF CancelKeys
  <2>2. claims' \subseteq Claim /\ \A x \in claims' : Place(x) \in home
    BY <2>1 DEF QueueInv, KeysTyped, KeysPlaced
  <2>3. c.pc \in HoldingStages => c.job = j
    OBVIOUS
  <2> QED BY <1>1, <2>1, <2>2, <2>3, WriteStep DEF CancelKeys, rest, Has, QueueInv, KeysTyped
<1>2. ASSUME DeleteKeys(j), UNCHANGED rest, NEW d, Go(t, d), CallOK(call[t])', j \in Jobs
      PROVE  QueueInv'
  <2>1. /\ results' \subseteq results /\ desc' \subseteq desc /\ ~Has(desc', j)
        /\ \A i \in Jobs \ {j} : Has(results, i) => Has(results', i)
    BY <1>2, WithoutOthers DEF DeleteKeys
  <2> QED BY <1>2, <2>1, WriteStep DEF DeleteKeys, rest, Has, QueueInv, KeysTyped, KeysPlaced
<1>3. CASE CancelExec(t)
  <2>1. j \in Jobs /\ Go(t, Idle)
    BY <1>0, <1>3 DEF CancelExec, CallOK, CallTyped
  <2> QED BY <1>1, <1>3, <2>1, IdleNext DEF CancelExec
<1>4. CASE ClaimDropExec(t)
  <2> DEFINE d == [c EXCEPT !.pc = "claim_pop", !.job = None, !.score = None, !.flag = FALSE]
             p == IF c.flag THEN c.part ELSE None
  <2>1. c.pc = "claim_drop_exec" /\ Go(t, d) /\ CancelKeys(p, j) /\ UNCHANGED rest
    BY <1>4 DEF ClaimDropExec
  <2>2. d \in CallRecord /\ d.pc = "claim_pop" /\ d.job = None /\ d.worker = c.worker
        /\ d.msg = c.msg
    BY <1>0 DEF CallRecord, Stages, ClaimStages, WaitStages
  <2>3. c.worker \in Workers /\ j \in Jobs /\ c.msg \in {None, "wake"}
    BY <1>0, <2>1 DEF CallOK, CallTyped, ClaimStages
  <2>4. call'[t] = d
    BY <2>1 DEF QueueInv, Go
  <2>5. CallOK(call[t])'
    BY <2>2, <2>3, <2>4 DEF CallOK, CallTyped, CallPlaced, CallAware, Place,
       ClaimStages, WaitStages, PlacedStages
  <2> QED BY <1>1, <2>1, <2>3, <2>5
<1>5. CASE ResolveCleanup(t)
  <2>1. j \in Jobs /\ Go(t, Idle)
    BY <1>0, <1>5 DEF ResolveCleanup, CallOK, CallTyped
  <2> QED BY <1>2, <1>5, <2>1, IdleNext DEF ResolveCleanup
<1>6. CASE DeleteJobResult(t)
  <2>1. j \in Jobs /\ Go(t, Idle)
    BY <1>0, <1>6 DEF DeleteJobResult, CallOK, CallTyped
  <2> QED BY <1>2, <1>6, <2>1, IdleNext DEF DeleteJobResult
<1>7. CASE OrphanGet(t)
  <2>1. c.pc = "orphan_get" /\ j \in Jobs /\ UNCHANGED rest
    BY <1>0, <1>7 DEF OrphanGet, CallOK, CallTyped
  <2>2. CASE DeleteKeys(j) /\ Go(t, Idle)
    BY <1>2, <2>1, <2>2, IdleNext
  <2>3. CASE Go(t, [c EXCEPT !.pc = "orphan_read"]) /\ UNCHANGED store
    <3> DEFINE d == [c EXCEPT !.pc = "orphan_read"]
    <3>1. d \in CallRecord /\ d.pc = "orphan_read" /\ d.job = j /\ d.msg = c.msg
      BY <1>0 DEF CallRecord, Stages, ClaimStages, WaitStages
    <3>2. CallOK(d)
      BY <1>0, <2>1, <3>1 DEF CallOK, CallTyped, CallPlaced, CallAware, Place,
       ClaimStages, WaitStages, PlacedStages
    <3> QED BY <2>1, <2>3, <3>2, QuietStep DEF HoldingStages
  <2> QED BY <1>7, <2>2, <2>3 DEF OrphanGet
<1>8. CASE OrphanDelJob(t)
  <2> DEFINE d == [c EXCEPT !.pc = "orphan_del_result"]
  <2>1. /\ c.pc = "orphan_del_job" /\ j \in Jobs /\ Go(t, d)
        /\ desc' = Without(desc, j)
        /\ UNCHANGED <<pending, partitions, claims, results, resolved, rest>>
    BY <1>0, <1>8 DEF OrphanDelJob, CallOK, CallTyped
  <2>2. d \in CallRecord /\ d.pc = "orphan_del_result" /\ d.job = j /\ d.msg = c.msg
    BY <1>0 DEF CallRecord, Stages, ClaimStages, WaitStages
  <2>3. desc' \subseteq desc /\ ~Has(desc', j)
    BY <2>1, WithoutOthers
  <2>4. call'[t] = d
    BY <2>1 DEF QueueInv, Go
  <2>5. CallOK(call[t])'
    BY <1>0, <2>1, <2>2, <2>3, <2>4 DEF rest, Has, CallOK, CallTyped, CallPlaced, CallAware, Place,
       ClaimStages, WaitStages, PlacedStages
  <2> QED BY <2>1, <2>2, <2>3, <2>5, WriteStep DEF rest, Has, HoldingStages, QueueInv, KeysTyped, KeysPlaced
<1>9. CASE OrphanDelResult(t)
  <2>1. /\ c.pc = "orphan_del_result" /\ j \in Jobs /\ ~Has(desc, j) /\ Go(t, Idle)
        /\ results' = Without(results, j)
        /\ UNCHANGED <<desc, pending, partitions, claims, resolved, rest>>
    BY <1>0, <1>9 DEF OrphanDelResult, CallOK, CallTyped, CallPlaced
  <2>2. results' \subseteq results /\ \A i \in Jobs \ {j} : Has(results, i) => Has(results', i)
    BY <2>1, WithoutOthers
  <2> QED BY <2>1, <2>2, IdleNext, WriteStep DEF rest, Has, HoldingStages, QueueInv, KeysTyped, KeysPlaced
<1> QED BY <1>3, <1>4, <1>5, <1>6, <1>7, <1>8, <1>9

(* The callback, and a call that is cut off. *)
LEMMA HistoryWrites ==
  ASSUME QueueInv, NEW t \in Calls,
         ResolveCallback(t) \/ OrphanCallback(t) \/ CallDies(t)
  PROVE  QueueInv'
<1> USE DEF At, Return
<1> DEFINE c == call[t]
           j == c.job
<1>0. c \in CallRecord /\ CallOK(c)
  BY DEF QueueInv, CallOK, CallTyped
<1>1. ASSUME NEW d, Go(t, d), CallOK(call[t])', j \in Jobs,
             UNCHANGED <<store, overdue, snap, home>>,
             handled \subseteq handled', handled' \subseteq Jobs,
             dropped \subseteq dropped', dropped' \subseteq Jobs,
             c.pc \in HoldingStages =>
                (d.job = j /\ d.pc \in HoldingStages) \/ j \in dropped'
      PROVE  QueueInv'
  <2>1. /\ desc' = desc /\ pending' = pending /\ claims' = claims /\ results' = results
        /\ resolved' = resolved /\ UNCHANGED <<partitions, overdue, snap, home>>
        /\ claims \subseteq Claim /\ \A x \in claims : Place(x) \in home
    BY <1>1 DEF store, QueueInv, KeysTyped, KeysPlaced
  <2>2. \A i \in desc : i.job = j =>
            \/ Has(pending, j) \/ Has(claims, j) \/ Has(results, j)
            \/ c.pc \in HoldingStages \/ j \in dropped
            \/ \E u \in Calls \ {t} : call[u].job = j /\ call[u].pc \in HoldingStages
    BY DEF QueueInv, NoJobLost, Held
  <2> QED BY <1>1, <2>1, <2>2, WriteStep
<1>2. /\ Accepted(t) \subseteq Jobs \/ j \notin Jobs
      /\ handled \subseteq Accepted(t) /\ handled \subseteq Jobs /\ dropped \subseteq Jobs
      /\ c.status = "success" => j \in Accepted(t)
  BY DEF Accepted, QueueInv, KeysTyped
<1>3. CASE ResolveCallback(t)
  <2>1. /\ c.pc = "resolve_callback" /\ j \in Jobs /\ c.status \in Statuses
        /\ UNCHANGED <<store, overdue, snap, home, dropped>>
    BY <1>0, <1>3 DEF ResolveCallback, CallOK, CallTyped
  <2>2. ASSUME NEW f \in BOOLEAN, NEW q \in Statuses,
               Go(t, [c EXCEPT !.pc = "resolve_publish", !.flag = f, !.status = q]),
               handled' \in {handled, Accepted(t)},
               HasCallback /\ q = "success" => handled' = Accepted(t) /\ q = c.status
        PROVE  QueueInv'
    <3> DEFINE d == [c EXCEPT !.pc = "resolve_publish", !.flag = f, !.status = q]
    <3>a. "resolve_publish" \in Stages
      BY DEF Stages, WaitStages
    <3>1. d \in CallRecord /\ d.pc = "resolve_publish" /\ d.job = j /\ d.status = q
          /\ d.msg = c.msg
      BY <1>0, <3>a DEF CallRecord
    <3>2. call'[t] = d
      BY <2>2 DEF QueueInv, Go
    <3>3. handled \subseteq handled' /\ handled' \subseteq Jobs
      BY <1>2, <2>1, <2>2
    <3>4. HasCallback /\ q = "success" => j \in handled'
      BY <1>2, <2>2
    <3>5. CallOK(call[t])'
      BY <1>0, <2>1, <3>1, <3>2, <3>3, <3>4 DEF store, CallOK, CallTyped, CallPlaced, CallAware, Place,
       ClaimStages, WaitStages, PlacedStages
    <3>6. d.pc \in HoldingStages
      BY <3>1 DEF HoldingStages
    <3> HIDE DEF d
    <3> QED BY <1>1, <1>2, <2>1, <2>2, <3>1, <3>3, <3>5, <3>6 DEF d
  <2>3. CASE ~HasCallback /\ Go(t, [c EXCEPT !.pc = "resolve_publish"]) /\ UNCHANGED handled
    <3>1. [c EXCEPT !.pc = "resolve_publish"]
            = [c EXCEPT !.pc = "resolve_publish", !.flag = c.flag, !.status = c.status]
      BY <1>0 DEF CallRecord
    <3>2. c.flag \in BOOLEAN
      BY <1>0 DEF CallRecord
    <3> QED BY <2>1, <2>2, <2>3, <3>1, <3>2
  <2>4. ASSUME NEW f \in BOOLEAN, HasCallback, handled' = Accepted(t),
               Go(t, [c EXCEPT !.pc = "resolve_publish", !.flag = f])
        PROVE  QueueInv'
    <3>1. [c EXCEPT !.pc = "resolve_publish", !.flag = f]
            = [c EXCEPT !.pc = "resolve_publish", !.flag = f, !.status = c.status]
      BY <1>0 DEF CallRecord
    <3> QED BY <2>1, <2>2, <2>4, <3>1
  <2>5. CASE Go(t, [c EXCEPT !.pc = "resolve_publish", !.flag = TRUE, !.status = "error"])
             /\ UNCHANGED handled
    BY <2>2, <2>5 DEF Statuses
  <2> QED BY <1>3, <2>3, <2>4, <2>5 DEF ResolveCallback
<1>4. CASE OrphanCallback(t)
  <2>1. /\ c.pc = "orphan_callback" /\ j \in Jobs /\ c.status \in Statuses
        /\ UNCHANGED <<store, overdue, snap, home, dropped>>
        /\ c.pc \notin HoldingStages
    BY <1>0, <1>4 DEF OrphanCallback, CallOK, CallTyped, HoldingStages
  <2>2. handled' \in {handled, Accepted(t)}
    BY <1>4 DEF OrphanCallback
  <2>3. handled \subseteq handled' /\ handled' \subseteq Jobs
    BY <1>2, <2>1, <2>2
  <2>4. CASE Go(t, Idle)
    BY <1>1, <1>2, <2>1, <2>3, <2>4, IdleNext
  <2>5. CASE Go(t, [c EXCEPT !.pc = "orphan_del_job"])
    <3> DEFINE d == [c EXCEPT !.pc = "orphan_del_job"]
    <3>1. d \in CallRecord /\ d.pc = "orphan_del_job" /\ d.job = j /\ d.msg = c.msg
      BY <1>0 DEF CallRecord, Stages, ClaimStages, WaitStages
    <3>2. call'[t] = d
      BY <2>5 DEF QueueInv, Go
    <3>3. CallOK(call[t])'
      BY <1>0, <2>1, <2>3, <3>1, <3>2 DEF store, CallOK, CallTyped, CallPlaced, CallAware, Place,
       ClaimStages, WaitStages, PlacedStages
    <3> HIDE DEF d
    <3> QED BY <1>1, <1>2, <2>1, <2>3, <2>5, <3>3 DEF d
  <2> QED BY <1>4, <2>4, <2>5 DEF OrphanCallback
<1>5. CASE CallDies(t)
  <2>1. /\ Go(t, Idle) /\ UNCHANGED <<store, overdue, snap, home, handled>>
        /\ dropped' = IF c.pc \in HoldingStages THEN dropped \cup {j} ELSE dropped
    BY <1>5 DEF CallDies
  <2>2. CASE c.pc \in HoldingStages
    <3>1. j \in Jobs
      BY <1>0, <2>2 DEF CallOK, CallTyped, HoldingStages
    <3> QED BY <1>1, <1>2, <2>1, <2>2, <3>1, IdleNext
  <2>3. CASE c.pc \notin HoldingStages
    <3>1. UNCHANGED <<store, rest>>
      BY <2>1, <2>3 DEF rest
    <3> QED BY <2>1, <2>3, <3>1, IdleOK, QuietStep
  <2> QED BY <2>2, <2>3
<1> QED BY <1>3, <1>4, <1>5

-----------------------------------------------------------------------------
(* A job is put in the queue: entry e is added to the pending jobs and     *)
(* published, so that every call sleeping on its partition is woken.       *)
LEMMA ZAddStep ==
  ASSUME QueueInv, NEW e \in Entry,
         pending' = ZAdd(e),
         call' = [t \in Calls |-> Woken(call[t], e.part)],
         \A d \in desc' : d \in desc \/ d.job = e.job,
         \A t \in Calls : call[t].pc = "orphan_del_result" =>
            call[t].job # e.job \/ desc' = desc,
         home \subseteq home', e \in home',
         KeysTyped', KeysPlaced', KeysHandled',
         \A i \in Jobs \ {e.job} : Has(claims, i) => Has(claims', i),
         UNCHANGED <<results, resolved, handled, dropped>>
  PROVE  QueueInv'
<1>1. DOMAIN call' = Calls /\ call' = [u \in Calls |-> call'[u]]
  OBVIOUS
<1>2. \A f \in pending' : f \in pending \/ f = e
  BY DEF ZAdd
<1>3. Has(pending', e.job) /\ \A i : i # e.job /\ Has(pending, i) => Has(pending', i)
  BY DEF ZAdd, Has
<1>4. e.part \in Parts /\ e.job \in Jobs
  BY DEF Entry
<1>5. ASSUME NEW u \in Calls
      PROVE  CallOK(call[u])' /\ call'[u].job = call[u].job /\ call'[u].pc = call[u].pc
  <2> DEFINE c == call[u]
             x == Woken(c, e.part)
  <2>1. CallOK(c) /\ c \in CallRecord /\ call'[u] = x
    BY DEF QueueInv, CallOK, CallTyped
  <2>2. /\ x \in CallRecord /\ x.pc = c.pc /\ x.job = c.job /\ x.part = c.part
        /\ x.score = c.score
    BY <1>4, <2>1, WokenType
  <2>3. x.worker = c.worker /\ x.status = c.status
        /\ (x.msg = c.msg \/ (x.msg = "wake" /\ c.pc \in ClaimStages))
        /\ (c.pc \in ClaimStages /\ c.part = e.part => x.msg = "wake")
    BY <2>1 DEF Woken, CallRecord
  <2> HIDE DEF x
  <2>4. CallTyped(call[u])'
    BY <2>1, <2>2, <2>3 DEF CallOK, CallTyped, ClaimStages, WaitStages
  <2>5. CallPlaced(call[u])'
    BY <2>1, <2>2, <2>3 DEF CallOK, CallPlaced, Place, Has
  <2>6. CallAware(call[u])'
    <3>1. c.pc = "claim_wait" /\ x.msg = None => \A f \in pending' : f.part # c.part
      BY <1>2, <2>1, <2>2, <2>3 DEF CallOK, CallAware, ClaimStages
    <3> QED BY <2>1, <2>2, <2>3, <3>1 DEF CallOK, CallAware, Has
  <2> QED BY <2>1, <2>2, <2>4, <2>5, <2>6 DEF CallOK
<1>6. NoJobLost'
  <2> SUFFICES ASSUME NEW d \in desc', d.job # e.job
               PROVE  \/ Has(pending', d.job) \/ Has(claims', d.job)
                      \/ Has(results', d.job) \/ Held(d.job)' \/ d.job \in dropped'
    BY <1>3 DEF NoJobLost, Has, Held
  <2>1. d \in desc /\ d.job \in Jobs
    BY DEF QueueInv, KeysTyped
  <2>2. Held(d.job) => Held(d.job)'
    BY <1>5 DEF Held
  <2> QED BY <1>3, <2>1, <2>2 DEF QueueInv, NoJobLost
<1> QED BY <1>1, <1>5, <1>6 DEF QueueInv

LEMMA EnqueueStep ==
  ASSUME QueueInv, NEW j \in Jobs, NEW n \in PartitionNames \cup {None},
         NEW s \in Scores, EnqueueJob(j, n, s)
  PROVE  QueueInv'
<1>0. PICK p \in Parts : p = Normalize(n)
  BY NormalizeType
<1> DEFINE e == [job |-> j, part |-> p, score |-> s]
<1>1. /\ ~Has(home, j)
      /\ desc' = desc \cup {[job |-> j, part |-> p]}
      /\ partitions' = partitions \cup ({p} \ {None})
      /\ pending' = ZAdd(e)
      /\ call' = [t \in Calls |-> Woken(call[t], p)]
      /\ home' = home \cup {e}
      /\ UNCHANGED <<claims, results, resolved, overdue, snap, handled, dropped>>
  BY <1>0 DEF EnqueueJob
<1>2. e \in Entry /\ e.part = p /\ e.job = j
  BY DEF Entry
<1> HIDE DEF e
<1>3. KeysTyped'
  BY <1>1, <1>2 DEF QueueInv, KeysTyped, ZAdd, Parts
<1>4. KeysPlaced'
  BY <1>1, <1>2 DEF QueueInv, KeysPlaced, ZAdd, Has
<1>5. KeysHandled'
  BY <1>1 DEF QueueInv, KeysHandled
<1>6. ASSUME NEW t \in Calls, call[t].pc = "orphan_del_result" PROVE call[t].job # j
  <2>1. call[t].job \in Jobs /\ Has(home, call[t].job)
    BY <1>6 DEF QueueInv, CallOK, CallTyped, CallPlaced
  <2> QED BY <1>1, <2>1
<1> QED BY <1>1, <1>2, <1>3, <1>4, <1>5, <1>6, ZAddStep

LEMMA CheckerReinsertStep ==
  ASSUME QueueInv, NEW k \in Checkers, NEW j \in Jobs, CheckerReinsert(k, j)
  PROVE  QueueInv'
<1>1. PICK e \in snap[k] : /\ e.job = j
                           /\ Reinsert(e)
                           /\ snap' = [snap EXCEPT ![k] = @ \ {e}]
                           /\ UNCHANGED <<overdue, home, handled, dropped>>
  BY DEF CheckerReinsert
<1>2. e \in Entry /\ e \in home
  BY DEF QueueInv, KeysTyped, KeysPlaced
<1>3. /\ pending' = ZAdd(e) /\ claims' = Without(claims, e.job)
      /\ call' = [t \in Calls |-> Woken(call[t], e.part)]
      /\ UNCHANGED <<desc, partitions, results, resolved>>
  BY <1>1 DEF Reinsert
<1>4. claims' \subseteq claims /\ \A i \in Jobs \ {e.job} : Has(claims, i) => Has(claims', i)
  BY <1>3, WithoutOthers
<1>5. snap' \in [Checkers -> SUBSET Entry] /\ \A m \in Checkers : snap'[m] \subseteq snap[m]
  BY <1>1 DEF QueueInv, KeysTyped
<1>6. KeysTyped'
  BY <1>1, <1>2, <1>3, <1>4, <1>5 DEF QueueInv, KeysTyped, ZAdd
<1>7. KeysPlaced'
  BY <1>1, <1>2, <1>3, <1>4, <1>5 DEF QueueInv, KeysPlaced, ZAdd
<1>8. KeysHandled'
  BY <1>1, <1>3 DEF QueueInv, KeysHandled
<1> QED BY <1>1, <1>2, <1>3, <1>4, <1>6, <1>7, <1>8, ZAddStep

(* The result is stored and published: every call that waits for it gets  *)
(* its status.                                                             *)
LEMMA PublishStep ==
  ASSUME QueueInv, NEW t \in Calls, ResolvePublish(t)
  PROVE  QueueInv'
<1> DEFINE c == call[t]
           j == c.job
           s == c.status
           r == [job |-> j, status |-> s]
<1>0. c \in CallRecord /\ CallOK(c)
  BY DEF QueueInv, CallOK, CallTyped
<1>1. /\ c.pc = "resolve_publish" /\ j \in Jobs /\ s \in Statuses
      /\ results' = Without(results, j) \cup {r}
      /\ resolved' = Without(resolved, j) \cup {r}
      /\ UNCHANGED <<desc, pending, partitions, claims, rest>>
  BY <1>0 DEF ResolvePublish, At, CallOK, CallTyped
<1>2. (HasCallback /\ s = "success" => j \in handled) /\ Has(home, j)
  BY <1>0, <1>1 DEF CallOK, CallPlaced, CallAware
<1>3. r \in JobResult /\ r.job = j /\ r.status = s
  BY <1>1 DEF JobResult
<1>4. /\ \A x \in results' : x \in results \/ x = r
      /\ \A x \in resolved' : x \in resolved \/ x = r
  BY <1>1, WithoutOthers
<1>5. /\ Has(results', j)
      /\ \A i : i # j => (Has(results', i) <=> Has(results, i))
      /\ \A i : i # j => (Has(resolved', i) <=> Has(resolved, i))
  BY <1>1, <1>3 DEF Has, Without
<1>6. KeysTyped'
  BY <1>1, <1>3, <1>4 DEF QueueInv, KeysTyped, rest
<1>7. KeysPlaced'
  BY <1>1, <1>2, <1>3, <1>4 DEF QueueInv, KeysPlaced, rest
<1>8. KeysHandled'
  BY <1>1, <1>2, <1>3, <1>4 DEF QueueInv, KeysHandled, rest
<1>9. /\ DOMAIN call' = Calls /\ call' = [u \in Calls |-> call'[u]]
      /\ \A u \in Calls \ {t} : call'[u] = Notified(call[u], j, s)
      /\ call'[t] \in {[c EXCEPT !.pc = "resolve_cleanup"], Idle}
  BY DEF ResolvePublish
<1>10. CallOK(call[t])'
  <2>1. CASE call'[t] = Idle
    BY <2>1, IdleType DEF Idle, CallOK, CallTyped, CallPlaced, CallAware,
       ClaimStages, WaitStages, PlacedStages
  <2>2. CASE call'[t] = [c EXCEPT !.pc = "resolve_cleanup"]
    <3> DEFINE d == [c EXCEPT !.pc = "resolve_cleanup"]
    <3>1. d \in CallRecord /\ d.pc = "resolve_cleanup" /\ d.job = j /\ d.status = s
          /\ d.msg = c.msg
      BY <1>0 DEF CallRecord, Stages, ClaimStages, WaitStages
    <3> HIDE DEF d
    <3> QED BY <1>0, <1>1, <2>2, <3>1 DEF d, rest, CallOK, CallTyped, CallPlaced, CallAware, Place,
       ClaimStages, WaitStages, PlacedStages
  <2> QED BY <1>9, <2>1, <2>2
<1>11. ASSUME NEW u \in Calls \ {t}
       PROVE  CallOK(call[u])' /\ call'[u].job = call[u].job /\ call'[u].pc = call[u].pc
  <2> DEFINE b == call[u]
             x == Notified(b, j, s)
  <2>1. CallOK(b) /\ b \in CallRecord /\ call'[u] = x
    BY <1>9 DEF QueueInv, CallOK, CallTyped
  <2>2. /\ x \in CallRecord /\ x.pc = b.pc /\ x.job = b.job /\ x.part = b.part
        /\ x.score = b.score
    BY <1>1, <2>1, NotifiedType
  <2>3. /\ x.worker = b.worker /\ x.status = b.status
        /\ \/ x.msg = b.msg
           \/ x.msg = s /\ b.job = j /\ b.pc \in {"wait_check", "wait_check2", "wait_recv"}
        /\ b.pc \in {"wait_check2", "wait_recv"} /\ x.msg = None => b.job # j /\ b.msg = None
    BY <1>1, <2>1 DEF Notified, CallRecord, Statuses
  <2> HIDE DEF x
  <2>4. CallTyped(call[u])'
    BY <1>1, <2>1, <2>2, <2>3 DEF CallOK, CallTyped, ClaimStages, WaitStages, Statuses
  <2>5. CallPlaced(call[u])'
    BY <1>1, <2>1, <2>2, <2>3 DEF CallOK, CallPlaced, Place, Has, rest
  <2>6. CallAware(call[u])'
    <3>1. /\ b.pc \in {"wait_check2", "wait_recv"} /\ x.msg = None => ~Has(results', b.job)
          /\ b.pc = "wait_recv" /\ x.msg = None => ~Has(resolved', b.job)
      BY <1>5, <2>1, <2>3 DEF CallOK, CallAware
    <3>2. b.pc = "claim_wait" => x.msg = b.msg
      BY <2>3
    <3> QED BY <1>1, <1>2, <2>1, <2>2, <2>3, <3>1, <3>2 DEF CallOK, CallAware, rest
  <2> QED BY <2>1, <2>2, <2>4, <2>5, <2>6 DEF CallOK
<1>12. NoJobLost'
  <2> SUFFICES ASSUME NEW d \in desc, d.job # j
               PROVE  \/ Has(pending', d.job) \/ Has(claims', d.job)
                      \/ Has(results', d.job) \/ Held(d.job)' \/ d.job \in dropped'
    BY <1>1, <1>5 DEF NoJobLost, Held, rest
  <2>1. Held(d.job) => Held(d.job)'
    BY <1>11 DEF Held
  <2> QED BY <1>1, <1>5, <2>1 DEF QueueInv, NoJobLost, rest
<1> QED BY <1>6, <1>7, <1>8, <1>9, <1>10, <1>11, <1>12 DEF QueueInv

(* Steps of the checkers and of time: every job keeps its keys. *)
LEMMA KeysStep ==
  ASSUME QueueInv,
         claims' \subseteq Claim, \A x \in claims' : Place(x) \in home,
         \A i \in Jobs : Has(claims, i) => Has(claims', i),
         snap' \in [Checkers -> SUBSET Entry], \A k \in Checkers : snap'[k] \subseteq home,
         resolved' \subseteq resolved, overdue' \subseteq Jobs,
         UNCHANGED <<desc, pending, partitions, results, call, home, handled, dropped>>
  PROVE  QueueInv'
<1>1. KeysTyped' /\ KeysPlaced' /\ KeysHandled'
  BY DEF QueueInv, KeysTyped, KeysPlaced, KeysHandled
<1>2. ASSUME NEW u \in Calls PROVE CallOK(call[u])'
  <2>1. CallOK(call[u])
    BY DEF QueueInv
  <2> QED BY <2>1 DEF CallOK, CallTyped, CallPlaced, CallAware, Has
<1>3. NoJobLost'
  BY DEF QueueInv, KeysTyped, NoJobLost, Held
<1> QED BY <1>1, <1>2, <1>3 DEF QueueInv

LEMMA CheckerAndTimeSteps ==
  ASSUME QueueInv,
         \/ \E k \in Checkers : CheckerScan(k) \/ CheckerFails(k)
         \/ \E c \in claims : ClaimExpires(c)
         \/ \E j \in Jobs : DeadlinePasses(j)
         \/ \E r \in resolved : ResolvedExpires(r)
  PROVE  QueueInv'
<1>0. /\ claims \subseteq Claim /\ \A x \in claims : Place(x) \in home
      /\ snap \in [Checkers -> SUBSET Entry] /\ \A k \in Checkers : snap[k] \subseteq home
      /\ overdue \subseteq Jobs
  BY DEF QueueInv, KeysTyped, KeysPlaced
<1>1. ASSUME NEW k \in Checkers, CheckerScan(k) PROVE QueueInv'
  <2> DEFINE S == {[job |-> c.job, part |-> c.part, score |-> c.score]
                     : c \in {x \in claims : x.stale}}
  <2>1. snap' = [snap EXCEPT ![k] = S] /\ UNCHANGED <<store, overdue, call, home, handled, dropped>>
    BY <1>1 DEF CheckerScan
  <2>2. S \subseteq home /\ S \subseteq Entry
    BY <1>0 DEF Place, Claim, Entry
  <2> HIDE DEF S
  <2>3. snap' \in [Checkers -> SUBSET Entry] /\ \A m \in Checkers : snap'[m] \subseteq home
    BY <1>0, <2>1, <2>2
  <2> QED BY <1>0, <2>1, <2>3, KeysStep DEF store
<1>2. ASSUME NEW k \in Checkers, CheckerFails(k) PROVE QueueInv'
  <2>1. PICK e \in snap[k] : snap' = [snap EXCEPT ![k] = @ \ {e}]
    BY <1>2 DEF CheckerFails
  <2>2. snap' \in [Checkers -> SUBSET Entry] /\ \A m \in Checkers : snap'[m] \subseteq home
    BY <1>0, <2>1
  <2>3. UNCHANGED <<store, overdue, call, home, handled, dropped>>
    BY <1>2 DEF CheckerFails
  <2> QED BY <1>0, <2>2, <2>3, KeysStep DEF store
<1>3. ASSUME NEW c \in claims, ClaimExpires(c) PROVE QueueInv'
  <2> DEFINE n == [c EXCEPT !.stale = TRUE]
  <2>1. c \in Claim /\ Place(c) \in home
    BY <1>0
  <2>2. n \in Claim /\ n.job = c.job /\ n.part = c.part /\ n.score = c.score
    BY <2>1 DEF Claim
  <2>3. Place(n) \in home
    BY <2>1, <2>2 DEF Place
  <2>4. /\ claims' = (claims \ {c}) \cup {n}
        /\ UNCHANGED <<desc, pending, partitions, results, resolved, call, overdue,
                       snap, home, handled, dropped>>
    BY <1>3 DEF ClaimExpires, rest
  <2> HIDE DEF n
  <2>5. claims' \subseteq Claim /\ \A x \in claims' : Place(x) \in home
    BY <1>0, <2>2, <2>3, <2>4
  <2>6. \A i \in Jobs : Has(claims, i) => Has(claims', i)
    BY <2>2, <2>4 DEF Has
  <2> QED BY <1>0, <2>4, <2>5, <2>6, KeysStep
<1>4. ASSUME NEW j \in Jobs, DeadlinePasses(j) PROVE QueueInv'
  BY <1>0, <1>4, KeysStep DEF DeadlinePasses, store
<1>5. ASSUME NEW r \in resolved, ResolvedExpires(r) PROVE QueueInv'
  BY <1>0, <1>5, KeysStep DEF ResolvedExpires, rest
<1> QED BY <1>1, <1>2, <1>3, <1>4, <1>5

-----------------------------------------------------------------------------
LEMMA InvNext == QueueInv /\ [Next]_vars => QueueInv'
<1> SUFFICES ASSUME QueueInv, [Next]_vars PROVE QueueInv'
  OBVIOUS
<1>1. CASE \E j \in Jobs, n \in PartitionNames \cup {None}, s \in Scores : EnqueueJob(j, n, s)
  BY <1>1, EnqueueStep
<1>2. ASSUME NEW t \in Calls, CallStart(t) \/ CallStep(t) \/ CallTimeout(t) \/ CallDies(t)
      PROVE  QueueInv'
  BY <1>2, CallStarts, QueueReads, WaitReads, ClaimWrites, DeletingWrites, HistoryWrites,
     PublishStep DEF CallStep, CallTimeout
<1>3. ASSUME NEW k \in Checkers,
             \/ CheckerScan(k) \/ CheckerFails(k)
             \/ \E j \in Jobs : CheckerReinsert(k, j)
      PROVE  QueueInv'
  BY <1>3, CheckerAndTimeSteps, CheckerReinsertStep
<1>4. CASE \/ \E c \in claims : ClaimExpires(c)
           \/ \E j \in Jobs : DeadlinePasses(j)
           \/ \E r \in resolved : ResolvedExpires(r)
  BY <1>4, CheckerAndTimeSteps
<1>5. CASE UNCHANGED vars
  <2>1. UNCHANGED <<desc, pending, partitions, claims, results, resolved, overdue,
                    call, snap, home, handled, dropped>>
    BY <1>5 DEF vars
  <2> QED BY <2>1, KeysStep DEF QueueInv, KeysTyped, KeysPlaced
<1> QED BY <1>1, <1>2, <1>3, <1>4, <1>5 DEF Next

LEMMA InvAlways == Spec => []QueueInv
BY InvInit, InvNext, PTL DEF Spec

(* The queue's keys and the calls in progress always have their types: no  *)
(* operation stores a claim without a worker or a result without a status. *)
THEOREM QueueTypeCorrect == Spec => []TypeOK
BY InvAlways, InvImplies, PTL

(* Through any number of claims, refreshes, expiries and failures, a job   *)
(* is only ever offered in the partition, and with the priority, it was    *)
(* enqueued with.                                                          *)
THEOREM QueueKeepsPlaces == Spec => []JobKeepsItsPlace
BY InvAlways, InvImplies, PTL

(* No interleaving of the operations loses a job; only a call that is cut  *)
(* off between two round trips can.                                        *)
THEOREM QueueLosesNoJob == Spec => []NoJobLost
BY InvAlways, InvImplies, PTL

(* No wake-up is lost: no worker sleeps while a job waits in its partition, *)
(* and no caller while it could read the result it waits for.              *)
THEOREM QueueWakesSleepers == Spec => []NobodySleeps
<1>1. QueueInv => NobodySleeps
  BY InvImplies DEF NobodySleeps
<1> QED
  BY <1>1, InvAlways, PTL

(* Nobody reads a success that the callback has not accepted. *)
THEOREM QueueHandlesSuccess == Spec => []SuccessIsHandled
BY InvAlways, InvImplies, PTL

-----------------------------------------------------------------------------
(* The queue in Valkey implements a JobBoard.  A step of the queue either  *)
(* takes a call out of wait_for_job or leaves it outside, which is a       *)
(* client that leaves (or a stutter) on the board; or it is one of the few *)
(* steps of wait_for_job, of the callback and of the publisher.            *)

(* Before it subscribes, a wait_for_job call has received nothing. *)
Early == {"wait_status", "wait_get_result", "wait_not_found", "wait_subscribe"}

NothingReceived == \A t \in Calls : call[t].pc \in Early => call[t].msg = None

BoardInv == QueueInv /\ NothingReceived

-----------------------------------------------------------------------------
(* What the steps do that matters on the board. *)
KeepsHistory == UNCHANGED <<home, handled>>
OnlyTakesDown == results' \subseteq results /\ resolved' \subseteq resolved

(* Call slot t changes alone ... *)
Moves(t) == \A u \in Calls \ {t} : call'[u] = call[u]

(* ... and does not wait afterwards. *)
Leaves(t) ==
  /\ Moves(t) /\ call'[t].pc \notin WaitStages
  /\ KeepsHistory /\ OnlyTakesDown

(* No call that waits changes. *)
NoClient ==
  \A u \in Calls : call'[u] = call[u] \/ (call[u].pc \in ClaimStages /\ call'[u].pc = call[u].pc)

LEMMA GoMoves ==
  ASSUME QueueInv, NEW t \in Calls, NEW c, Go(t, c)
  PROVE  Moves(t) /\ call'[t] = c
BY DEF QueueInv, Go, Moves

LEMMA CallTypes ==
  ASSUME QueueInv
  PROVE  \A t \in Calls : call[t] \in CallRecord
BY DEF QueueInv, CallOK, CallTyped

(* A call that leaves is a client that leaves. *)
LEMMA LeavesIsLeave ==
  ASSUME QueueInv, NEW t \in Calls, Leaves(t)
  PROVE  Board!Leave(t)
<1>1. Asked(call'[t]) = None /\ Answered(call'[t]) = None
  BY DEF Leaves, Asked, Answered, Subscribed, WaitStages
<1>2. /\ [u \in Calls |-> Asked(call'[u])] = [[u \in Calls |-> Asked(call[u])] EXCEPT ![t] = None]
      /\ [u \in Calls |-> Answered(call'[u])] = [[u \in Calls |-> Answered(call[u])] EXCEPT ![t] = None]
  BY <1>1 DEF Leaves, Moves
<1>3. results' \cup resolved' \subseteq results \cup resolved
  BY DEF Leaves, OnlyTakesDown
<1> QED
  BY <1>2, <1>3 DEF Board!Leave, Leaves, KeepsHistory

LEMMA NoClientKeepsClients ==
  ASSUME QueueInv, NoClient
  PROVE  /\ [u \in Calls |-> Asked(call'[u])] = [u \in Calls |-> Asked(call[u])]
         /\ [u \in Calls |-> Answered(call'[u])] = [u \in Calls |-> Answered(call[u])]
<1>1. ASSUME NEW u \in Calls
      PROVE  Asked(call'[u]) = Asked(call[u]) /\ Answered(call'[u]) = Answered(call[u])
  BY <1>1 DEF NoClient, Asked, Answered, Subscribed, WaitStages, ClaimStages
<1> QED
  BY <1>1

(* Steps of nobody who waits take down what they delete. *)
LEMMA NoClientTakesDown ==
  ASSUME QueueInv, NoClient, KeepsHistory, OnlyTakesDown
  PROVE  Board!TakeDown
<1>1. results' \cup resolved' \subseteq results \cup resolved
  BY DEF OnlyTakesDown
<1> QED
  BY <1>1, NoClientKeepsClients DEF Board!TakeDown, KeepsHistory

-----------------------------------------------------------------------------

LEMMA QuietKeys ==
  ASSUME UNCHANGED <<store, rest>>
  PROVE  KeepsHistory /\ OnlyTakesDown
BY DEF KeepsHistory, OnlyTakesDown, store, rest

LEMMA GoLeaves ==
  ASSUME QueueInv, NEW t \in Calls, NEW c, Go(t, c), c.pc \notin WaitStages,
         KeepsHistory, OnlyTakesDown
  PROVE  Leaves(t)
BY GoMoves DEF Leaves

LEMMA ReturnLeaves ==
  ASSUME QueueInv, NEW t \in Calls, Return(t), KeepsHistory, OnlyTakesDown
  PROVE  Leaves(t)
<1>1. Idle.pc \notin WaitStages
  BY DEF Idle, WaitStages
<1> QED BY <1>1, GoLeaves DEF Return

(* The steps that start an operation other than wait_for_job. *)
LEMMA OtherStarts ==
  ASSUME QueueInv, NEW t \in Calls, CallStart(t)
  PROVE  Leaves(t) \/ \E j \in Jobs : WaitForJob(t, j)
<1> DEFINE Begun == {"claim_pop", "cancel_get", "orphan_get", "reclaim_hget", "resolve_hget"}
<1>1. ASSUME NEW c, Go(t, c), c.pc \in Begun, UNCHANGED <<store, rest>> PROVE Leaves(t)
  BY <1>1, QuietKeys, GoLeaves DEF WaitStages
<1> HIDE DEF Begun
<1>2. ASSUME NEW w \in Workers, NEW n \in PartitionNames \cup {None}, ClaimJob(t, w, n) PROVE Leaves(t)
  <2> DEFINE d == [Idle EXCEPT !.pc = "claim_pop", !.worker = w, !.part = Normalize(n), !.msg = "wake"]
  <2>1. d.pc = "claim_pop"
    BY DEF Idle
  <2>2. Go(t, d) /\ UNCHANGED <<store, rest>>
    BY <1>2 DEF ClaimJob, Start
  <2> HIDE DEF d
  <2> QED BY <1>1, <2>1, <2>2 DEF Begun
<1>3. ASSUME NEW j \in Jobs, CancelJob(t, j) PROVE Leaves(t)
  <2> DEFINE d == [Idle EXCEPT !.pc = "cancel_get", !.job = j]
  <2>1. d.pc = "cancel_get"
    BY DEF Idle
  <2>2. Go(t, d) /\ UNCHANGED <<store, rest>>
    BY <1>3 DEF CancelJob, Start
  <2> HIDE DEF d
  <2> QED BY <1>1, <2>1, <2>2 DEF Begun
<1>4. ASSUME NEW j \in Jobs, OrphanedResult(t, j) PROVE Leaves(t)
  <2> DEFINE d == [Idle EXCEPT !.pc = "orphan_get", !.job = j]
  <2>1. d.pc = "orphan_get"
    BY DEF Idle
  <2>2. Go(t, d) /\ UNCHANGED <<store, rest>>
    BY <1>4 DEF OrphanedResult, Start
  <2> HIDE DEF d
  <2> QED BY <1>1, <2>1, <2>2 DEF Begun
<1>5. ASSUME NEW j \in Jobs, NEW w \in Workers, ReclaimJob(t, w, j) PROVE Leaves(t)
  <2> DEFINE d == [Idle EXCEPT !.pc = "reclaim_hget", !.worker = w, !.job = j]
  <2>1. d.pc = "reclaim_hget"
    BY DEF Idle
  <2>2. Go(t, d) /\ UNCHANGED <<store, rest>>
    BY <1>5 DEF ReclaimJob, Start
  <2> HIDE DEF d
  <2> QED BY <1>1, <2>1, <2>2 DEF Begun
<1>6. ASSUME NEW j \in Jobs, NEW w \in Workers, NEW s \in Reported, ResolveJob(t, w, j, s) PROVE Leaves(t)
  <2> DEFINE d == [Idle EXCEPT !.pc = "resolve_hget", !.worker = w, !.job = j, !.status = s]
  <2>1. d.pc = "resolve_hget"
    BY DEF Idle
  <2>2. Go(t, d) /\ UNCHANGED <<store, rest>>
    BY <1>6 DEF ResolveJob, Start
  <2> HIDE DEF d
  <2> QED BY <1>1, <2>1, <2>2 DEF Begun
<1> QED BY <1>2, <1>3, <1>4, <1>5, <1>6 DEF CallStart

(* The steps of claim_job_in. *)
LEMMA ClaimSteps ==
  ASSUME QueueInv, NEW t \in Calls,
         \/ ClaimPop(t) \/ ClaimEmpty(t) \/ ClaimWake(t) \/ ClaimGet(t)
         \/ ClaimHset(t) \/ ClaimDropGet(t) \/ ClaimDropExec(t) \/ ClaimTimeout(t)
  PROVE  Leaves(t)
<1>0. call[t] \in CallRecord
  BY CallTypes
<1>1. CASE ClaimPop(t)
  <2>1. PICK e \in pending :
           /\ pending' = pending \ {e}
           /\ Go(t, [call[t] EXCEPT !.pc = "claim_get", !.job = e.job, !.score = e.score])
    BY <1>1, Zenon DEF ClaimPop
  <2> DEFINE d == [call[t] EXCEPT !.pc = "claim_get", !.job = e.job, !.score = e.score]
  <2>2. d.pc = "claim_get"
    BY <1>0 DEF CallRecord
  <2>a. UNCHANGED <<desc, partitions, claims, results, resolved, rest>>
    BY <1>1, Zenon DEF ClaimPop
  <2>3. KeepsHistory /\ OnlyTakesDown
    BY <2>a DEF KeepsHistory, OnlyTakesDown, rest
  <2>4. Go(t, d)
    BY <2>1
  <2> HIDE DEF d
  <2> QED BY <2>2, <2>3, <2>4, GoLeaves DEF WaitStages
<1>2. CASE ClaimEmpty(t)
  <2> DEFINE d == [call[t] EXCEPT !.pc = "claim_wait"]
  <2>1. d.pc = "claim_wait"
    BY <1>0 DEF CallRecord
  <2>2. Go(t, d)
    BY <1>2 DEF ClaimEmpty
  <2>3. KeepsHistory /\ OnlyTakesDown
    BY <1>2, QuietKeys DEF ClaimEmpty
  <2> HIDE DEF d
  <2> QED BY <2>1, <2>2, <2>3, GoLeaves DEF WaitStages
<1>3. CASE ClaimWake(t)
  <2> DEFINE d == [call[t] EXCEPT !.pc = "claim_pop", !.msg = None]
  <2>1. d.pc = "claim_pop"
    BY <1>0 DEF CallRecord
  <2>2. Go(t, d)
    BY <1>3 DEF ClaimWake
  <2>3. KeepsHistory /\ OnlyTakesDown
    BY <1>3, QuietKeys DEF ClaimWake
  <2> HIDE DEF d
  <2> QED BY <2>1, <2>2, <2>3, GoLeaves DEF WaitStages
<1>4. CASE ClaimGet(t)
  <2>1. KeepsHistory /\ OnlyTakesDown
    BY <1>4, QuietKeys DEF ClaimGet
  <2>2. CASE Return(t)
    BY <2>1, <2>2, ReturnLeaves
  <2>3. CASE ~Return(t)
    <3>0. PICK q \in {"claim_drop_get", "claim_hset"} :
             q = IF call[t].job \in overdue THEN "claim_drop_get" ELSE "claim_hset"
      OBVIOUS
    <3> DEFINE d == [call[t] EXCEPT !.pc = q]
    <3>1. d.pc = q
      BY <1>0 DEF CallRecord
    <3>2. Go(t, d)
      BY <1>4, <2>3, <3>0 DEF ClaimGet
    <3> HIDE DEF d
    <3> QED BY <2>1, <3>0, <3>1, <3>2, GoLeaves DEF WaitStages
  <2> QED BY <2>2, <2>3
<1>5. CASE ClaimHset(t)
  <2>1. KeepsHistory /\ OnlyTakesDown
    BY <1>5 DEF ClaimHset, KeepsHistory, OnlyTakesDown, rest
  <2> QED BY <1>5, <2>1, ReturnLeaves DEF ClaimHset
<1>6. CASE ClaimDropGet(t)
  <2>0. PICK b \in BOOLEAN : b = Has(desc, call[t].job)
    BY DEF Has
  <2> DEFINE d == [call[t] EXCEPT !.pc = "claim_drop_exec", !.flag = b]
  <2>1. d.pc = "claim_drop_exec"
    BY <1>0 DEF CallRecord
  <2>2. Go(t, d)
    BY <1>6, <2>0 DEF ClaimDropGet
  <2>3. KeepsHistory /\ OnlyTakesDown
    BY <1>6, QuietKeys DEF ClaimDropGet
  <2> HIDE DEF d
  <2> QED BY <2>1, <2>2, <2>3, GoLeaves DEF WaitStages
<1>7. CASE ClaimDropExec(t)
  <2> DEFINE d == [call[t] EXCEPT !.pc = "claim_pop", !.job = None, !.score = None, !.flag = FALSE]
  <2>1. d.pc = "claim_pop"
    BY <1>0 DEF CallRecord
  <2>2. Go(t, d)
    BY <1>7 DEF ClaimDropExec
  <2>3. KeepsHistory /\ OnlyTakesDown
    BY <1>7 DEF ClaimDropExec, CancelKeys, KeepsHistory, OnlyTakesDown, rest
  <2> HIDE DEF d
  <2> QED BY <2>1, <2>2, <2>3, GoLeaves DEF WaitStages
<1>8. CASE ClaimTimeout(t)
  <2>1. KeepsHistory /\ OnlyTakesDown
    BY <1>8, QuietKeys DEF ClaimTimeout
  <2> QED BY <1>8, <2>1, ReturnLeaves DEF ClaimTimeout
<1> QED BY <1>1, <1>2, <1>3, <1>4, <1>5, <1>6, <1>7, <1>8

(* The steps of cancel_job, reclaim_job, resolve_job and of                *)
(* process_orphaned_job_results that only read or delete.                  *)
LEMMA KeySteps ==
  ASSUME QueueInv, NEW t \in Calls,
         \/ CancelGet(t) \/ CancelExec(t) \/ ReclaimHget(t) \/ ReclaimHset(t)
         \/ ResolveHget(t) \/ ResolveGet(t) \/ ResolveHdel(t) \/ ResolveCleanup(t)
         \/ OrphanGet(t) \/ OrphanRead(t) \/ OrphanDelJob(t) \/ OrphanDelResult(t)
  PROVE  Leaves(t)
<1>0. call[t] \in CallRecord
  BY CallTypes
<1> DEFINE Calm == {"cancel_exec", "reclaim_hset", "resolve_get", "resolve_hdel",
                    "resolve_callback", "orphan_read", "orphan_callback", "orphan_del_result"}
<1>a. ASSUME NEW c, Go(t, c), c.pc \in Calm, KeepsHistory, OnlyTakesDown PROVE Leaves(t)
  BY <1>a, GoLeaves DEF WaitStages
<1> HIDE DEF Calm
<1>1. CASE CancelGet(t)
  <2>0. PICK p : p = DescribedPart(call[t].job)
    OBVIOUS
  <2> DEFINE d == [call[t] EXCEPT !.pc = "cancel_exec", !.part = p]
  <2>1. d.pc = "cancel_exec"
    BY <1>0 DEF CallRecord
  <2>2. Go(t, d)
    BY <1>1, <2>0 DEF CancelGet
  <2>3. KeepsHistory /\ OnlyTakesDown
    BY <1>1, QuietKeys DEF CancelGet
  <2> HIDE DEF d
  <2> QED BY <1>a, <2>1, <2>2, <2>3 DEF Calm
<1>2. CASE CancelExec(t)
  <2>1. KeepsHistory /\ OnlyTakesDown
    BY <1>2 DEF CancelExec, CancelKeys, KeepsHistory, OnlyTakesDown, rest
  <2> QED BY <1>2, <2>1, ReturnLeaves DEF CancelExec
<1>3. CASE ReclaimHget(t)
  <2>1. KeepsHistory /\ OnlyTakesDown
    BY <1>3, QuietKeys, Zenon DEF ReclaimHget
  <2>2. CASE Return(t)
    BY <2>1, <2>2, ReturnLeaves
  <2>3. CASE ~Return(t)
    <3>1. PICK c \in OwnClaims(t) :
             Go(t, [call[t] EXCEPT !.pc = "reclaim_hset", !.score = c.score, !.part = c.part])
      BY <1>3, <2>3, Zenon DEF ReclaimHget
    <3> DEFINE d == [call[t] EXCEPT !.pc = "reclaim_hset", !.score = c.score, !.part = c.part]
    <3>2. d.pc = "reclaim_hset"
      BY <1>0 DEF CallRecord
    <3>3. Go(t, d)
      BY <3>1
    <3> HIDE DEF d
    <3> QED BY <1>a, <2>1, <3>2, <3>3 DEF Calm
  <2> QED BY <2>2, <2>3
<1>4. CASE ReclaimHset(t)
  <2>1. KeepsHistory /\ OnlyTakesDown
    BY <1>4 DEF ReclaimHset, KeepsHistory, OnlyTakesDown, rest
  <2> QED BY <1>4, <2>1, ReturnLeaves DEF ReclaimHset
<1>5. CASE ResolveHget(t)
  <2>1. KeepsHistory /\ OnlyTakesDown
    BY <1>5, QuietKeys DEF ResolveHget
  <2> DEFINE d == [call[t] EXCEPT !.pc = "resolve_get"]
  <2>2. d.pc = "resolve_get"
    BY <1>0 DEF CallRecord
  <2>3. Return(t) \/ Go(t, d)
    BY <1>5, Zenon DEF ResolveHget
  <2> HIDE DEF d
  <2> QED BY <1>a, <2>1, <2>2, <2>3, ReturnLeaves DEF Calm
<1>6. CASE ResolveGet(t)
  <2>1. KeepsHistory /\ OnlyTakesDown
    BY <1>6, QuietKeys DEF ResolveGet
  <2> DEFINE d == [call[t] EXCEPT !.pc = "resolve_hdel"]
  <2>2. d.pc = "resolve_hdel"
    BY <1>0 DEF CallRecord
  <2>3. Return(t) \/ Go(t, d)
    BY <1>6, Zenon DEF ResolveGet
  <2> HIDE DEF d
  <2> QED BY <1>a, <2>1, <2>2, <2>3, ReturnLeaves DEF Calm
<1>7. CASE ResolveHdel(t)
  <2>1. KeepsHistory /\ OnlyTakesDown
    BY <1>7 DEF ResolveHdel, KeepsHistory, OnlyTakesDown, rest
  <2> DEFINE d == [call[t] EXCEPT !.pc = "resolve_callback"]
  <2>2. d.pc = "resolve_callback"
    BY <1>0 DEF CallRecord
  <2>3. Go(t, d)
    BY <1>7, Zenon DEF ResolveHdel
  <2> HIDE DEF d
  <2> QED BY <1>a, <2>1, <2>2, <2>3 DEF Calm
<1>8. CASE ResolveCleanup(t)
  <2>1. KeepsHistory /\ OnlyTakesDown
    BY <1>8 DEF ResolveCleanup, DeleteKeys, Without, KeepsHistory, OnlyTakesDown, rest
  <2> QED BY <1>8, <2>1, ReturnLeaves DEF ResolveCleanup
<1>9. CASE OrphanGet(t)
  <2>1. KeepsHistory /\ OnlyTakesDown
    <3>1. UNCHANGED store \/ DeleteKeys(call[t].job)
      BY <1>9, Zenon DEF OrphanGet
    <3>2. UNCHANGED rest
      BY <1>9, Zenon DEF OrphanGet
    <3> QED BY <3>1, <3>2 DEF DeleteKeys, Without, KeepsHistory, OnlyTakesDown, rest, store
  <2> DEFINE d == [call[t] EXCEPT !.pc = "orphan_read"]
  <2>2. d.pc = "orphan_read"
    BY <1>0 DEF CallRecord
  <2>3. Return(t) \/ Go(t, d)
    BY <1>9, Zenon DEF OrphanGet
  <2> HIDE DEF d
  <2> QED BY <1>a, <2>1, <2>2, <2>3, ReturnLeaves DEF Calm
<1>10. CASE OrphanRead(t)
  <2>1. KeepsHistory /\ OnlyTakesDown
    BY <1>10, QuietKeys, Zenon DEF OrphanRead
  <2>2. CASE Return(t)
    BY <2>1, <2>2, ReturnLeaves
  <2>3. CASE ~Return(t)
    <3>1. PICK r \in results :
             Go(t, [call[t] EXCEPT !.pc = "orphan_callback", !.status = r.status])
      BY <1>10, <2>3, Zenon DEF OrphanRead
    <3> DEFINE d == [call[t] EXCEPT !.pc = "orphan_callback", !.status = r.status]
    <3>2. d.pc = "orphan_callback"
      BY <1>0 DEF CallRecord
    <3>3. Go(t, d)
      BY <3>1
    <3> HIDE DEF d
    <3> QED BY <1>a, <2>1, <3>2, <3>3 DEF Calm
  <2> QED BY <2>2, <2>3
<1>11. CASE OrphanDelJob(t)
  <2>1. KeepsHistory /\ OnlyTakesDown
    BY <1>11 DEF OrphanDelJob, KeepsHistory, OnlyTakesDown, rest
  <2> DEFINE d == [call[t] EXCEPT !.pc = "orphan_del_result"]
  <2>2. d.pc = "orphan_del_result"
    BY <1>0 DEF CallRecord
  <2>3. Go(t, d)
    BY <1>11, Zenon DEF OrphanDelJob
  <2> HIDE DEF d
  <2> QED BY <1>a, <2>1, <2>2, <2>3 DEF Calm
<1>12. CASE OrphanDelResult(t)
  <2>1. KeepsHistory /\ OnlyTakesDown
    BY <1>12 DEF OrphanDelResult, Without, KeepsHistory, OnlyTakesDown, rest
  <2> QED BY <1>12, <2>1, ReturnLeaves DEF OrphanDelResult
<1> QED BY <1>1, <1>2, <1>3, <1>4, <1>5, <1>6, <1>7, <1>8, <1>9, <1>10, <1>11, <1>12

(* The ends of wait_for_job, and a call that is cut off. *)
LEMMA WaitEnds ==
  ASSUME QueueInv, NEW t \in Calls,
         WaitTimeout(t) \/ WaitReturn(t) \/ DeleteJobResult(t) \/ CallDies(t)
  PROVE  Leaves(t)
<1> DEFINE d == [Idle EXCEPT !.pc = "cancel_get", !.job = call[t].job]
<1>1. d.pc \notin WaitStages
  BY DEF Idle, WaitStages
<1>2. KeepsHistory /\ OnlyTakesDown
  <2>1. CASE WaitTimeout(t)
    BY <2>1, QuietKeys DEF WaitTimeout
  <2>2. CASE WaitReturn(t)
    BY <2>2, QuietKeys DEF WaitReturn
  <2>3. CASE DeleteJobResult(t)
    BY <2>3 DEF DeleteJobResult, DeleteKeys, Without, KeepsHistory, OnlyTakesDown, rest
  <2>4. CASE CallDies(t)
    BY <2>4 DEF CallDies, KeepsHistory, OnlyTakesDown, store
  <2> QED BY <2>1, <2>2, <2>3, <2>4
<1>3. Return(t) \/ Go(t, d)
  BY Zenon DEF WaitTimeout, WaitReturn, DeleteJobResult, CallDies
<1> HIDE DEF d
<1> QED BY <1>1, <1>2, <1>3, ReturnLeaves, GoLeaves

-----------------------------------------------------------------------------
(* What has to be shown of every step. *)
Faithful == (Board!BoardNext \/ UNCHANGED Board!boardVars) /\ NothingReceived'

LEMMA LeavesFaithful ==
  ASSUME BoardInv, NEW t \in Calls, Leaves(t)
  PROVE  Faithful
<1>1. Board!BoardNext
  BY LeavesIsLeave DEF BoardInv, Board!BoardNext
<1>2. NothingReceived'
  BY DEF BoardInv, NothingReceived, Leaves, Moves, Early, WaitStages
<1> QED BY <1>1, <1>2 DEF Faithful

LEMMA NoClientReceives ==
  ASSUME BoardInv, NoClient
  PROVE  NothingReceived'
BY DEF BoardInv, NothingReceived, NoClient, Early, ClaimStages

(* A step of wait_for_job that neither starts, ends nor answers it. *)
LEMMA StaysFaithful ==
  ASSUME BoardInv, NEW t \in Calls, NEW c, Go(t, c), UNCHANGED <<store, rest>>,
         Asked(c) = Asked(call[t]), Answered(c) = Answered(call[t]),
         c.pc \in Early => c.msg = None
  PROVE  Faithful
<1>1. Moves(t) /\ call'[t] = c
  BY GoMoves DEF BoardInv
<1>2. /\ [u \in Calls |-> Asked(call'[u])] = [u \in Calls |-> Asked(call[u])]
      /\ [u \in Calls |-> Answered(call'[u])] = [u \in Calls |-> Answered(call[u])]
  BY <1>1 DEF Moves
<1>3. UNCHANGED Board!boardVars
  BY <1>2 DEF Board!boardVars, store, rest
<1>4. NothingReceived'
  BY <1>1 DEF BoardInv, NothingReceived, Moves
<1> QED BY <1>3, <1>4 DEF Faithful

LEMMA WaitGoesOn ==
  ASSUME BoardInv, NEW t \in Calls,
         WaitStatus(t) \/ WaitGetResult(t) \/ WaitSubscribe(t) \/ WaitRecv(t)
  PROVE  Faithful
<1>0. call[t] \in CallRecord /\ (call[t].pc \in Early => call[t].msg = None)
  BY CallTypes DEF BoardInv, NothingReceived
<1> DEFINE Before == {"wait_get_result", "wait_subscribe", "wait_not_found"}
<1>a. ASSUME NEW c, Go(t, c), UNCHANGED <<store, rest>>, call[t].pc \in Early,
             c.pc \in Before, c.job = call[t].job, c.msg = call[t].msg
      PROVE  Faithful
  <2>1. Asked(c) = Asked(call[t]) /\ Answered(c) = Answered(call[t])
    BY <1>a DEF Asked, Answered, Subscribed, Early, WaitStages
  <2> QED BY <1>a, <1>0, <2>1, StaysFaithful
<1>1. CASE WaitStatus(t)
  <2>0. PICK b \in BOOLEAN, q \in Before :
           /\ b = ((Has(claims, call[t].job) \/ Has(desc, call[t].job)) /\ Has(results, call[t].job))
           /\ q = IF Has(results, call[t].job) THEN "wait_get_result"
                  ELSE IF Has(claims, call[t].job) \/ Has(desc, call[t].job)
                       THEN "wait_subscribe" ELSE "wait_not_found"
    BY DEF Has
  <2> DEFINE d == [call[t] EXCEPT !.flag = b, !.pc = q]
  <2>1. d.pc = q /\ d.job = call[t].job /\ d.msg = call[t].msg
    BY <1>0 DEF CallRecord
  <2>2. Go(t, d) /\ UNCHANGED <<store, rest>> /\ call[t].pc \in Early
    BY <1>1, <2>0 DEF WaitStatus, At, Early
  <2> HIDE DEF d
  <2> QED BY <1>a, <2>0, <2>1, <2>2
<1>2. CASE WaitGetResult(t)
  <2>0. PICK q \in Before :
           q = IF Has(results, call[t].job) \/ call[t].flag THEN "wait_subscribe" ELSE "wait_not_found"
    OBVIOUS
  <2> DEFINE d == [call[t] EXCEPT !.flag = FALSE, !.pc = q]
  <2>1. d.pc = q /\ d.job = call[t].job /\ d.msg = call[t].msg
    BY <1>0 DEF CallRecord
  <2>2. Go(t, d) /\ UNCHANGED <<store, rest>> /\ call[t].pc \in Early
    BY <1>2, <2>0 DEF WaitGetResult, At, Early
  <2> HIDE DEF d
  <2> QED BY <1>a, <2>0, <2>1, <2>2
<1>3. CASE WaitSubscribe(t)
  <2> DEFINE d == [call[t] EXCEPT !.pc = "wait_check"]
  <2>1. /\ d.pc = "wait_check" /\ d.job = call[t].job /\ d.msg = call[t].msg
    BY <1>0 DEF CallRecord
  <2>2. Go(t, d) /\ UNCHANGED <<store, rest>> /\ call[t].pc = "wait_subscribe"
    BY <1>3 DEF WaitSubscribe, At
  <2> HIDE DEF d
  <2>3. Asked(d) = Asked(call[t]) /\ Answered(d) = Answered(call[t])
    BY <1>0, <2>1, <2>2 DEF Asked, Answered, Subscribed, Early, WaitStages
  <2> QED BY <2>1, <2>2, <2>3, StaysFaithful DEF Early
<1>4. CASE WaitRecv(t)
  <2> DEFINE d == [call[t] EXCEPT !.pc = "waited", !.status = call[t].msg, !.msg = None]
  <2>1. /\ d.pc = "waited" /\ d.job = call[t].job /\ d.status = call[t].msg
    BY <1>0 DEF CallRecord
  <2>2. Go(t, d) /\ UNCHANGED <<store, rest>> /\ call[t].pc = "wait_recv"
    BY <1>4 DEF WaitRecv, At
  <2> HIDE DEF d
  <2>3. Asked(d) = Asked(call[t]) /\ Answered(d) = Answered(call[t])
    BY <2>1, <2>2 DEF Asked, Answered, Subscribed, WaitStages
  <2> QED BY <2>1, <2>2, <2>3, StaysFaithful DEF Early
<1> QED BY <1>1, <1>2, <1>3, <1>4

(* The reads of wait_for_job: what is found is on the board. *)
LEMMA WaitReadTells ==
  ASSUME BoardInv, NEW t \in Calls, NEW stage \in WaitStages,
         NEW rel \in SUBSET (results \cup resolved), NEW c, WaitRead(t, stage, rel, c)
  PROVE  Faithful \/ (Go(t, c) /\ UNCHANGED <<store, rest>>)
<1>0. call[t] \in CallRecord
  BY CallTypes DEF BoardInv
<1>1. UNCHANGED <<store, rest>> /\ call[t].pc = stage
  BY Zenon DEF WaitRead, At
<1>2. CASE Go(t, c)
  BY <1>1, <1>2
<1>3. CASE ~Go(t, c)
  <2>1. PICK r \in rel :
           /\ r.job = call[t].job
           /\ Go(t, [call[t] EXCEPT !.pc = "waited", !.status = r.status, !.msg = None])
    BY <1>3, Zenon DEF WaitRead
  <2> DEFINE d == [call[t] EXCEPT !.pc = "waited", !.status = r.status, !.msg = None]
  <2>2. d.pc = "waited" /\ d.job = call[t].job /\ d.status = r.status
    BY <1>0 DEF CallRecord
  <2>3. Go(t, d)
    BY <2>1
  <2> HIDE DEF d
  <2>4. Moves(t) /\ call'[t] = d
    BY <2>3, GoMoves DEF BoardInv
  <2>5. Asked(d) = call[t].job /\ Asked(call[t]) = call[t].job /\ Answered(d) = r.status
    BY <1>1, <2>2 DEF Asked, Answered, WaitStages
  <2>6. /\ [u \in Calls |-> Asked(call'[u])] = [u \in Calls |-> Asked(call[u])]
        /\ [u \in Calls |-> Answered(call'[u])]
              = [[u \in Calls |-> Answered(call[u])] EXCEPT ![t] = r.status]
    BY <2>4, <2>5 DEF Moves
  <2>7. r \in results \cup resolved /\ r.job = [u \in Calls |-> Asked(call[u])][t]
    BY <2>1, <2>5
  <2>8. Board!Tell(t)
    BY <1>1, <2>6, <2>7 DEF Board!Tell, store, rest
  <2>9. NothingReceived'
    BY <2>2, <2>4 DEF BoardInv, NothingReceived, Moves, Early
  <2> QED BY <2>8, <2>9 DEF Faithful, Board!BoardNext
<1> QED BY <1>2, <1>3

LEMMA WaitReadsFaithful ==
  ASSUME BoardInv, NEW t \in Calls, WaitNotFound(t) \/ WaitCheck(t) \/ WaitCheck2(t)
  PROVE  Faithful
<1>0. call[t] \in CallRecord
  BY CallTypes DEF BoardInv
<1>1. CASE WaitNotFound(t)
  <2>1. Faithful \/ (Go(t, Idle) /\ UNCHANGED <<store, rest>>)
    BY <1>1, WaitReadTells DEF WaitNotFound, WaitStages
  <2> QED BY <2>1, QuietKeys, ReturnLeaves, LeavesFaithful DEF Return, BoardInv
<1>2. CASE WaitCheck(t)
  <2> DEFINE d == [call[t] EXCEPT !.pc = "wait_check2"]
  <2>1. d.pc = "wait_check2" /\ d.job = call[t].job /\ d.msg = call[t].msg
    BY <1>0 DEF CallRecord
  <2>2. WaitRead(t, "wait_check", results, d)
    BY <1>2 DEF WaitCheck
  <2>3. call[t].pc = "wait_check"
    BY <2>2, Zenon DEF WaitRead, At
  <2> HIDE DEF d
  <2>4. Faithful \/ (Go(t, d) /\ UNCHANGED <<store, rest>>)
    BY <2>2, WaitReadTells DEF WaitStages
  <2>5. Asked(d) = Asked(call[t]) /\ Answered(d) = Answered(call[t])
    BY <2>1, <2>3 DEF Asked, Answered, Subscribed, WaitStages
  <2> QED BY <2>1, <2>4, <2>5, StaysFaithful DEF Early
<1>3. CASE WaitCheck2(t)
  <2> DEFINE d == [call[t] EXCEPT !.pc = "wait_recv"]
  <2>1. d.pc = "wait_recv" /\ d.job = call[t].job /\ d.msg = call[t].msg
    BY <1>0 DEF CallRecord
  <2>2. WaitRead(t, "wait_check2", resolved, d)
    BY <1>3 DEF WaitCheck2
  <2>3. call[t].pc = "wait_check2"
    BY <2>2, Zenon DEF WaitRead, At
  <2> HIDE DEF d
  <2>4. Faithful \/ (Go(t, d) /\ UNCHANGED <<store, rest>>)
    BY <2>2, WaitReadTells DEF WaitStages
  <2>5. Asked(d) = Asked(call[t]) /\ Answered(d) = Answered(call[t])
    BY <2>1, <2>3 DEF Asked, Answered, Subscribed, WaitStages
  <2> QED BY <2>1, <2>4, <2>5, StaysFaithful DEF Early
<1> QED BY <1>1, <1>2, <1>3

(* wait_for_job is called about a job that was enqueued. *)
LEMMA WaitForJobAsks ==
  ASSUME BoardInv, NEW t \in Calls, NEW j \in Jobs, WaitForJob(t, j)
  PROVE  Faithful
<1> DEFINE d == [Idle EXCEPT !.pc = "wait_status", !.job = j]
<1>1. d.pc = "wait_status" /\ d.job = j /\ d.msg = None
  BY DEF Idle
<1>2. /\ Go(t, d) /\ UNCHANGED <<store, rest>> /\ call[t].pc = "idle" /\ Has(home, j)
  BY DEF WaitForJob, Start, At
<1> HIDE DEF d
<1>3. Moves(t) /\ call'[t] = d
  BY <1>2, GoMoves DEF BoardInv
<1>4. /\ Asked(d) = j /\ Asked(call[t]) = None
      /\ Answered(d) = None /\ Answered(call[t]) = None
  BY <1>1, <1>2 DEF Asked, Answered, Subscribed, WaitStages
<1>5. /\ [u \in Calls |-> Asked(call'[u])] = [[u \in Calls |-> Asked(call[u])] EXCEPT ![t] = j]
      /\ [u \in Calls |-> Answered(call'[u])] = [u \in Calls |-> Answered(call[u])]
      /\ [u \in Calls |-> Asked(call[u])][t] = None
  <2>1. \A u \in Calls : Asked(call'[u]) = IF u = t THEN j ELSE Asked(call[u])
    BY <1>3, <1>4 DEF Moves
  <2>2. \A u \in Calls : Answered(call'[u]) = Answered(call[u])
    BY <1>3, <1>4 DEF Moves
  <2>3. [u \in Calls |-> Asked(call'[u])] = [[u \in Calls |-> Asked(call[u])] EXCEPT ![t] = j]
    BY <2>1
  <2>4. [u \in Calls |-> Answered(call'[u])] = [u \in Calls |-> Answered(call[u])]
    BY <2>2
  <2>5. [u \in Calls |-> Asked(call[u])][t] = None
    BY <1>4
  <2> QED BY <2>3, <2>4, <2>5
<1>6. j \in {e.job : e \in home}
  BY <1>2 DEF Has
<1>7. Board!Ask(t, j)
  BY <1>2, <1>5, <1>6 DEF Board!Ask, store, rest
<1>8. NothingReceived'
  BY <1>1, <1>3 DEF BoardInv, NothingReceived, Moves
<1> QED BY <1>7, <1>8 DEF Faithful, Board!BoardNext

(* The callback accepts a success, or nothing happens on the board. *)
LEMMA CallbacksAccept ==
  ASSUME BoardInv, NEW t \in Calls, ResolveCallback(t) \/ OrphanCallback(t)
  PROVE  Faithful
<1>0. /\ call[t] \in CallRecord
      /\ call[t].job \in Jobs /\ Has(home, call[t].job) /\ call[t].pc \notin WaitStages
  <2>1. call[t].pc \in {"resolve_callback", "orphan_callback"}
    BY Zenon DEF ResolveCallback, OrphanCallback, At
  <2>2. CallTyped(call[t]) /\ CallPlaced(call[t])
    BY DEF BoardInv, QueueInv, CallOK
  <2> QED BY <2>1, <2>2, QueueConstants DEF CallTyped, CallPlaced, WaitStages
<1>1. PICK c : Go(t, c) /\ c.pc \notin WaitStages
  <2>1. CASE ResolveCallback(t)
    <3>1. CASE \E processed \in BOOLEAN :
                  Go(t, [call[t] EXCEPT !.pc = "resolve_publish", !.flag = processed])
      <4>1. PICK b \in BOOLEAN : Go(t, [call[t] EXCEPT !.pc = "resolve_publish", !.flag = b])
        BY <3>1, Zenon
      <4> DEFINE d == [call[t] EXCEPT !.pc = "resolve_publish", !.flag = b]
      <4>2. d.pc = "resolve_publish"
        BY <1>0 DEF CallRecord
      <4>3. Go(t, d)
        BY <4>1
      <4> HIDE DEF d
      <4> QED BY <4>2, <4>3 DEF WaitStages
    <3>2. CASE ~(\E processed \in BOOLEAN :
                    Go(t, [call[t] EXCEPT !.pc = "resolve_publish", !.flag = processed]))
      <4> DEFINE d == [call[t] EXCEPT !.pc = "resolve_publish", !.flag = TRUE, !.status = "error"]
                 e == [call[t] EXCEPT !.pc = "resolve_publish"]
      <4>2. d.pc = "resolve_publish" /\ e.pc = "resolve_publish"
        BY <1>0 DEF CallRecord
      <4>3. Go(t, d) \/ Go(t, e)
        BY <2>1, <3>2, Zenon DEF ResolveCallback
      <4> HIDE DEF d, e
      <4> QED BY <4>2, <4>3 DEF WaitStages
    <3> QED BY <3>1, <3>2, Zenon
  <2>2. CASE OrphanCallback(t)
    <3> DEFINE d == [call[t] EXCEPT !.pc = "orphan_del_job"]
    <3>1. d.pc = "orphan_del_job"
      BY <1>0 DEF CallRecord
    <3>2. Go(t, d) \/ Go(t, Idle)
      BY <2>2, Zenon DEF OrphanCallback, Return
    <3> HIDE DEF d
    <3>3. Idle.pc = "idle"
      BY DEF Idle
    <3> QED BY <3>1, <3>2, <3>3 DEF WaitStages
  <2> QED BY <2>1, <2>2
<1>2. handled' = handled \/ handled' = Accepted(t)
  BY Zenon DEF ResolveCallback, OrphanCallback
<1>3. UNCHANGED <<store, home>>
  BY Zenon DEF ResolveCallback, OrphanCallback
<1>4. Moves(t) /\ call'[t] = c
  BY <1>1, GoMoves DEF BoardInv
<1>5. /\ [u \in Calls |-> Asked(call'[u])] = [u \in Calls |-> Asked(call[u])]
      /\ [u \in Calls |-> Answered(call'[u])] = [u \in Calls |-> Answered(call[u])]
  <2>1. Asked(c) = Asked(call[t]) /\ Answered(c) = Answered(call[t])
    BY <1>0, <1>1 DEF Asked, Answered, Subscribed, WaitStages
  <2> QED BY <1>4, <2>1 DEF Moves
<1>6. NothingReceived'
  BY <1>1, <1>4 DEF BoardInv, NothingReceived, Moves, Early, WaitStages
<1>7. CASE handled' = handled
  <2>1. UNCHANGED Board!boardVars
    BY <1>3, <1>5, <1>7 DEF Board!boardVars, store
  <2> QED BY <1>6, <2>1 DEF Faithful
<1>8. CASE handled' # handled
  <2>1. handled' = handled \cup {call[t].job}
    BY <1>2, <1>8 DEF Accepted
  <2>2. call[t].job \in {e.job : e \in home}
    BY <1>0 DEF Has
  <2>3. Board!Accept(call[t].job)
    BY <1>3, <1>5, <2>1, <2>2 DEF Board!Accept, store
  <2> QED BY <1>0, <1>6, <2>3 DEF Faithful, Board!BoardNext
<1> QED BY <1>7, <1>8

(* resolve_job posts the status, and the subscriptions receive it. *)
LEMMA PublishPosts ==
  ASSUME BoardInv, NEW t \in Calls, ResolvePublish(t)
  PROVE  Faithful
<1> DEFINE j == call[t].job
           s == call[t].status
           r == [job |-> j, status |-> s]
<1>0. /\ call[t] \in CallRecord /\ call[t].pc = "resolve_publish"
      /\ j \in Jobs /\ s \in Statuses /\ Has(home, j)
      /\ HasCallback /\ s = "success" => j \in handled
  <2>1. call[t].pc = "resolve_publish"
    BY DEF ResolvePublish, At
  <2>2. CallTyped(call[t]) /\ CallPlaced(call[t]) /\ CallAware(call[t])
    BY DEF BoardInv, QueueInv, CallOK
  <2> QED BY <2>1, <2>2, QueueConstants DEF CallTyped, CallPlaced, CallAware
<1>1. /\ results' \cup resolved' = {p \in results \cup resolved : p.job # j} \cup {r}
      /\ UNCHANGED <<home, handled>>
  BY DEF ResolvePublish, Without, rest
<1> HIDE DEF r
<1>2. call'[t].pc \notin WaitStages
  <2> DEFINE d == [call[t] EXCEPT !.pc = "resolve_cleanup"]
  <2>1. d.pc = "resolve_cleanup" /\ Idle.pc = "idle"
    BY <1>0 DEF CallRecord, Idle
  <2>2. call'[t] = d \/ call'[t] = Idle
    BY DEF ResolvePublish
  <2> HIDE DEF d
  <2> QED BY <2>1, <2>2 DEF WaitStages
<1>3. ASSUME NEW u \in Calls \ {t} PROVE call'[u] = Notified(call[u], j, s)
  BY <1>3 DEF ResolvePublish
<1> HIDE DEF j, s
<1>4. ASSUME NEW u \in Calls \ {t}
      PROVE  /\ Asked(call'[u]) = Asked(call[u])
             /\ Answered(call'[u]) # Answered(call[u])
                  => Asked(call[u]) = j /\ Answered(call[u]) = None /\ Answered(call'[u]) = s
             /\ call'[u].pc \in Early => call'[u] = call[u]
  <2>1. call[u] \in CallRecord
    BY CallTypes DEF BoardInv
  <2>2. CASE call'[u] = call[u]
    BY <2>2
  <2>3. CASE call'[u] # call[u]
    <3>1. /\ call[u].pc \in Subscribed /\ call[u].job = j /\ call[u].msg = None
          /\ call'[u] = [call[u] EXCEPT !.msg = s]
      BY <1>3, <2>3 DEF Notified, Subscribed
    <3>2. call'[u].pc = call[u].pc /\ call'[u].job = j /\ call'[u].msg = s
      BY <2>1, <3>1 DEF CallRecord
    <3> QED BY <3>1, <3>2 DEF Asked, Answered, Subscribed, WaitStages, Early
  <2> QED BY <2>2, <2>3
<1>5. /\ Asked(call'[t]) = None /\ Asked(call[t]) = None
      /\ Answered(call'[t]) = None /\ Answered(call[t]) = None
  BY <1>0, <1>2 DEF Asked, Answered, Subscribed, WaitStages
<1>6. ASSUME NEW u \in Calls PROVE Answered(call'[u]) \in Statuses \cup {None}
  <2>1. CASE u = t
    BY <1>5, <2>1
  <2>2. CASE u # t
    <3>1. Answered(call[u]) \in Statuses \cup {None}
      BY DEF BoardInv, QueueInv, CallOK, CallTyped, CallRecord, Answered, Subscribed, WaitStages
    <3> QED BY <1>0, <1>4, <2>2, <3>1
  <2> QED BY <2>1, <2>2
<1>7. [u \in Calls |-> Asked(call'[u])] = [u \in Calls |-> Asked(call[u])]
  BY <1>4, <1>5
<1>8. j \in {e.job : e \in home}
  BY <1>0 DEF Has
<1>9. Board!Post(j, s)
  <2>1. [u \in Calls |-> Answered(call'[u])] \in [Calls -> Statuses \cup {None}]
    BY <1>6
  <2>2. ASSUME NEW u \in Calls,
               [v \in Calls |-> Answered(call'[v])][u] # [v \in Calls |-> Answered(call[v])][u]
        PROVE  /\ [v \in Calls |-> Asked(call[v])][u] = j
               /\ [v \in Calls |-> Answered(call[v])][u] = None
               /\ [v \in Calls |-> Answered(call'[v])][u] = s
    BY <1>4, <1>5, <2>2
  <2> QED BY <1>0, <1>1, <1>7, <1>8, <2>1, <2>2 DEF Board!Post, r
<1>10. NothingReceived'
  BY <1>2, <1>4 DEF BoardInv, NothingReceived, Early, WaitStages
<1> QED BY <1>0, <1>9, <1>10 DEF Faithful, Board!BoardNext

-----------------------------------------------------------------------------
LEMMA WokenIsNoClient ==
  ASSUME BoardInv, NEW p, call' = [u \in Calls |-> Woken(call[u], p)]
  PROVE  NoClient
<1> SUFFICES ASSUME NEW u \in Calls
             PROVE  call'[u] = call[u] \/ (call[u].pc \in ClaimStages /\ call'[u].pc = call[u].pc)
  BY DEF NoClient
<1>1. call[u] \in CallRecord /\ call'[u] = Woken(call[u], p)
  BY CallTypes DEF BoardInv
<1>2. [call[u] EXCEPT !.msg = "wake"].pc = call[u].pc
  BY <1>1 DEF CallRecord
<1> QED BY <1>1, <1>2 DEF Woken

(* enqueue_job_in wakes workers, and no client sees it. *)
LEMMA EnqueueFaithful ==
  ASSUME BoardInv, NEW j \in Jobs, NEW n \in PartitionNames \cup {None}, NEW s \in Scores,
         EnqueueJob(j, n, s)
  PROVE  Faithful
<1> DEFINE e == [job |-> j, part |-> Normalize(n), score |-> s]
<1>1. NoClient
  BY WokenIsNoClient DEF EnqueueJob
<1>2. ~Has(home, j) /\ home' = home \cup {e} /\ e.job = j
  BY DEF EnqueueJob
<1> HIDE DEF e
<1>3. {f.job : f \in home'} = {f.job : f \in home} \cup {j} /\ j \notin {f.job : f \in home}
  BY <1>2 DEF Has
<1>4. UNCHANGED <<results, resolved, handled>>
  BY DEF EnqueueJob
<1>5. Board!Enqueue(j)
  BY <1>1, <1>3, <1>4, NoClientKeepsClients DEF BoardInv, Board!Enqueue
<1> QED BY <1>1, <1>5, NoClientReceives DEF Faithful, Board!BoardNext

(* The checkers and the passing of time. *)
LEMMA OthersFaithful ==
  ASSUME BoardInv, NoClient, KeepsHistory, OnlyTakesDown
  PROVE  Faithful
BY NoClientTakesDown, NoClientReceives DEF BoardInv, Faithful, Board!BoardNext

LEMMA CheckersFaithful ==
  ASSUME BoardInv, NEW k \in Checkers,
         CheckerScan(k) \/ CheckerFails(k) \/ \E j \in Jobs : CheckerReinsert(k, j)
  PROVE  Faithful
<1>1. CASE CheckerScan(k)
  BY <1>1, OthersFaithful DEF CheckerScan, NoClient, KeepsHistory, OnlyTakesDown, store
<1>2. CASE CheckerFails(k)
  <2>1. UNCHANGED <<store, call, home, handled>>
    BY <1>2, Zenon DEF CheckerFails
  <2> QED BY <2>1, OthersFaithful DEF NoClient, KeepsHistory, OnlyTakesDown, store
<1>3. CASE \E j \in Jobs : CheckerReinsert(k, j)
  <2>1. PICK e : Reinsert(e) /\ UNCHANGED <<home, handled>>
    BY <1>3, Zenon DEF CheckerReinsert
  <2>2. NoClient
    BY <2>1, WokenIsNoClient DEF Reinsert
  <2> QED BY <2>1, <2>2, OthersFaithful DEF Reinsert, KeepsHistory, OnlyTakesDown
<1> QED BY <1>1, <1>2, <1>3

LEMMA TimeFaithful ==
  ASSUME BoardInv,
         \/ \E c \in claims : ClaimExpires(c)
         \/ \E j \in Jobs : DeadlinePasses(j)
         \/ \E r \in resolved : ResolvedExpires(r)
  PROVE  Faithful
<1>1. CASE \E c \in claims : ClaimExpires(c)
  <2>1. UNCHANGED <<results, resolved, call, rest>>
    BY <1>1, Zenon DEF ClaimExpires
  <2> QED BY <2>1, OthersFaithful DEF NoClient, KeepsHistory, OnlyTakesDown, rest
<1>2. CASE \E j \in Jobs : DeadlinePasses(j)
  <2>1. UNCHANGED <<store, call, home, handled>>
    BY <1>2, Zenon DEF DeadlinePasses
  <2> QED BY <2>1, OthersFaithful DEF NoClient, KeepsHistory, OnlyTakesDown, store
<1>3. CASE \E r \in resolved : ResolvedExpires(r)
  <2>1. PICK r \in resolved : ResolvedExpires(r)
    BY <1>3
  <2> QED BY <2>1, OthersFaithful
          DEF ResolvedExpires, NoClient, KeepsHistory, OnlyTakesDown, rest
<1> QED BY <1>1, <1>2, <1>3

LEMMA CallsFaithful ==
  ASSUME BoardInv, NEW t \in Calls,
         CallStart(t) \/ CallStep(t) \/ CallTimeout(t) \/ CallDies(t)
  PROVE  Faithful
<1> USE DEF BoardInv
<1>1. CASE CallStart(t)
  BY <1>1, OtherStarts, LeavesFaithful, WaitForJobAsks
<1>2. CASE CallTimeout(t) \/ CallDies(t)
  BY <1>2, ClaimSteps, WaitEnds, LeavesFaithful DEF CallTimeout
<1>3. CASE CallStep(t)
  BY <1>3, ClaimSteps, KeySteps, WaitEnds, LeavesFaithful, WaitGoesOn, WaitReadsFaithful,
     CallbacksAccept, PublishPosts DEF CallStep
<1> QED BY <1>1, <1>2, <1>3

LEMMA StepsFaithful == BoardInv /\ [Next]_vars => Faithful
<1> SUFFICES ASSUME BoardInv, [Next]_vars PROVE Faithful
  OBVIOUS
<1>1. CASE UNCHANGED vars
  <2>1. UNCHANGED Board!boardVars
    BY <1>1 DEF vars, Board!boardVars
  <2>2. NothingReceived'
    BY <1>1 DEF vars, BoardInv, NothingReceived
  <2> QED BY <2>1, <2>2 DEF Faithful
<1>2. CASE Next
  BY <1>2, EnqueueFaithful, CallsFaithful, CheckersFaithful, TimeFaithful DEF Next
<1> QED BY <1>1, <1>2

(* The job queue in Valkey implements the board for any number of jobs,    *)
(* workers, calls, checkers and partitions: whatever the calls of          *)
(* enqueue_job_in, claim_job_in, reclaim_job, resolve_job, cancel_job,     *)
(* process_orphaned_job_results and the reclaim checkers interleave,       *)
(* wait_for_job only tells a status that resolve_job posted for its job,   *)
(* and a success only once the callback accepted it.                       *)
THEOREM QueueImplementsBoard == Spec => ImplementsBoard
<1>1. Init => Board!BoardInit /\ NothingReceived
  <2> SUFFICES ASSUME Init PROVE Board!BoardInit /\ NothingReceived
    OBVIOUS
  <2>1. \A t \in Calls : call[t] = Idle
    BY DEF Init
  <2>2. Asked(Idle) = None /\ Answered(Idle) = None /\ Idle.pc = "idle"
    BY DEF Asked, Answered, Subscribed, Idle, WaitStages
  <2>3. /\ [t \in Calls |-> Asked(call[t])] = [t \in Calls |-> None]
        /\ [t \in Calls |-> Answered(call[t])] = [t \in Calls |-> None]
    BY <2>1, <2>2
  <2>4. NothingReceived
    BY <2>1, <2>2 DEF NothingReceived, Early
  <2> QED BY <2>3, <2>4 DEF Board!BoardInit, Init
<1>2. BoardInv /\ [Next]_vars => [Board!BoardNext]_(Board!boardVars) /\ NothingReceived'
  BY StepsFaithful DEF Faithful
<1> QED BY <1>1, <1>2, InvAlways, PTL DEF Spec, BoardInv, ImplementsBoard, Board!BoardSpec

-----------------------------------------------------------------------------
(* The time a claim takes: ClaimWait, with a clock of its own              *)

CONSTANT ClaimLimit
VARIABLES now, remaining, since, got

Wait == INSTANCE ClaimWait

(* claim_job_in: whatever the timeout, no call outlasts it: subtracting    *)
(* the time since the start of the call at every message never moves the   *)
(* end of the current timer past the end of the first one.                 *)
THEOREM ClaimWithinTimeout ==
  ASSUME ClaimLimit \in Nat
  PROVE  Wait!WaitSpec => []Wait!WithinTimeout
<1>1. Wait!WaitInit => Wait!TimerDue
  BY DEF Wait!WaitInit, Wait!TimerDue, Wait!WaitTypeOK
<1>2. Wait!TimerDue /\ [Wait!WaitNext]_(Wait!waitVars) => Wait!TimerDue'
  <2> SUFFICES ASSUME Wait!TimerDue, [Wait!WaitNext]_(Wait!waitVars) PROVE Wait!TimerDue'
    OBVIOUS
  <2> USE DEF Wait!TimerDue, Wait!WaitTypeOK
  <2>1. CASE Wait!Tick
    BY <2>1 DEF Wait!Tick
  <2>2. CASE Wait!RecvTimeout
    BY <2>2 DEF Wait!RecvTimeout
  <2>3. CASE Wait!Message
    BY <2>3 DEF Wait!Message
  <2>4. CASE UNCHANGED Wait!waitVars
    BY <2>4 DEF Wait!waitVars
  <2> QED
    BY <2>1, <2>2, <2>3, <2>4 DEF Wait!WaitNext
<1>3. Wait!TimerDue => Wait!WithinTimeout
  BY DEF Wait!TimerDue, Wait!WaitTypeOK, Wait!WithinTimeout
<1> QED
  BY <1>1, <1>2, <1>3, PTL DEF Wait!WaitSpec
=============================================================================
