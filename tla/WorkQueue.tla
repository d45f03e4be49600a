------------------------------ MODULE WorkQueue ------------------------------
(***************************************************************************)
(* The job queue of crate wq (wq/src/lib.rs): what it keeps in Valkey and  *)
(* what each of its operations does to it.                                 *)
(*                                                                         *)
(* Every call of an operation is a sequence of round trips to Valkey, and  *)
(* other calls, in the same lobby process or in another one, run between   *)
(* two round trips.  One round trip, a command or a pipeline, is one       *)
(* action.  The pipelines are no transactions (no MULTI/EXEC): the         *)
(* assumption is that Valkey works off the commands of one in a row, as it *)
(* does with what it has read from a client, and that no connection breaks *)
(* in the middle of one.  What a call has read and still needs is kept in  *)
(* call[t], where t is one of the call slots in Calls.                     *)
(*                                                                         *)
(* The keys of the queue are relations:                                    *)
(*    desc       wq:{name}:queue:{job}      the job's description          *)
(*    pending    wq:{name}:queue and wq:{name}:partition:{p}:queue         *)
(*    partitions wq:{name}:partitions                                      *)
(*    claims     wq:{name}:claims                                          *)
(*    results    wq:{name}:results:{job}                                   *)
(*    resolved   wq:{name}:resolved:{job}   expires by itself              *)
(* The counters under wq:{name}:stats are written and never read by the    *)
(* queue's operations, and are left out.                                   *)
(***************************************************************************)
EXTENDS Integers

CONSTANTS
    Jobs,            \* job IDs
    Workers,         \* worker IDs
    Calls,           \* slots for calls in progress
    Checkers,        \* the reclaim checkers, one per lobby process
    PartitionNames,  \* the valid names a caller may give a partition
    DefaultName,     \* with_default_partition, or None
    Scores,          \* priorities as sorted set scores: lower goes first
    HasCallback,     \* whether the queue was built with_callback
    Ops,             \* the operations that are called
    Reported,        \* the statuses workers report
    None             \* absent

ASSUME QueueConstants ==
    /\ Scores \subseteq Int
    /\ HasCallback \in BOOLEAN
    /\ Reported \subseteq {"success", "failure", "error"}
    /\ None \notin Jobs /\ None \notin Workers /\ None \notin Scores
    /\ None \notin PartitionNames
    /\ None \notin {"success", "failure", "error", "wake"}

VARIABLES
    desc, pending, partitions, claims, results, resolved,
    overdue,   \* the jobs whose deadline has passed
    call,      \* the calls in progress
    snap,      \* snap[k]: the expired claims checker k has still to reinsert
    home,      \* history: what each job was enqueued as
    handled,   \* history: the jobs whose success the callback accepted
    dropped    \* history: the jobs whose call was cut off while holding them

vars == <<desc, pending, partitions, claims, results, resolved, overdue,
          call, snap, home, handled, dropped>>

store == <<desc, pending, partitions, claims, results, resolved>>
rest  == <<overdue, snap, home, handled, dropped>>

Statuses == {"success", "failure", "error"}

Parts == (PartitionNames \ {DefaultName}) \cup {None}

(* The form in which a partition's name is stored: None for the default. *)
Normalize(name) == IF name = DefaultName THEN None ELSE name

Entry == [job : Jobs, part : Parts, score : Scores]

Claim == [job : Jobs, worker : Workers, score : Scores, part : Parts,
          stale : BOOLEAN]

JobResult == [job : Jobs, status : Statuses]

ClaimStages == {"claim_pop", "claim_wait", "claim_get", "claim_drop_get",
                "claim_drop_exec", "claim_hset"}
WaitStages  == {"wait_status", "wait_get_result", "wait_not_found",
                "wait_subscribe", "wait_check", "wait_check2", "wait_recv",
                "waited"}
Stages == {"idle"} \cup ClaimStages \cup WaitStages
          \cup {"reclaim_hget", "reclaim_hset", "cancel_get", "cancel_exec",
                "resolve_hget", "resolve_get", "resolve_hdel",
                "resolve_callback", "resolve_publish", "resolve_cleanup",
                "orphan_get", "orphan_read", "orphan_callback",
                "orphan_del_job", "orphan_del_result"}

(* The stages in which a job that nobody can find in Valkey is in the      *)
(* hands of a call.                                                        *)
HoldingStages == {"claim_get", "claim_drop_get", "claim_drop_exec",
                  "claim_hset", "resolve_callback", "resolve_publish"}

CallRecord == [pc : Stages, worker : Workers \cup {None},
               job : Jobs \cup {None}, part : Parts,
               score : Scores \cup {None}, status : Statuses \cup {None},
               flag : BOOLEAN, msg : Statuses \cup {None, "wake"}]

Idle == [pc |-> "idle", worker |-> None, job |-> None, part |-> None,
         score |-> None, status |-> None, flag |-> FALSE, msg |-> None]

TypeOK ==
    /\ desc \subseteq [job : Jobs, part : Parts]
    /\ pending \subseteq Entry
    /\ partitions \subseteq Parts \ {None}
    /\ claims \subseteq Claim
    /\ results \subseteq JobResult
    /\ resolved \subseteq JobResult
    /\ overdue \subseteq Jobs
    /\ call \in [Calls -> CallRecord]
    /\ snap \in [Checkers -> SUBSET Entry]
    /\ home \subseteq Entry
    /\ handled \subseteq Jobs
    /\ dropped \subseteq Jobs

Init ==
    /\ desc = {} /\ pending = {} /\ partitions = {} /\ claims = {}
    /\ results = {} /\ resolved = {} /\ overdue = {}
    /\ call = [t \in Calls |-> Idle]
    /\ snap = [k \in Checkers |-> {}]
    /\ home = {} /\ handled = {} /\ dropped = {}

-----------------------------------------------------------------------------
(* Valkey commands on the relations above. *)

Has(rel, j) == \E e \in rel : e.job = j
Without(rel, j) == {e \in rel : e.job # j}

ZAdd(e)  == {f \in pending : f.job # e.job \/ f.part # e.part} \cup {e}
ZRem(p, j) == {f \in pending : f.job # j \/ f.part # p}

(* Publishing on a partition's channel wakes every claim_job_in call that  *)
(* subscribed to it; publishing on a job's result channel gives the status *)
(* to every wait_for_job call that subscribed to it and got none yet.      *)
Woken(c, p) ==
    IF c.pc \in ClaimStages /\ c.part = p THEN [c EXCEPT !.msg = "wake"] ELSE c

Notified(c, j, s) ==
    IF c.pc \in {"wait_check", "wait_check2", "wait_recv"}
       /\ c.job = j /\ c.msg = None
    THEN [c EXCEPT !.msg = s] ELSE c

(* Call slot t goes on with record c, or returns to its caller. *)
Go(t, c)  == call' = [call EXCEPT ![t] = c]
Return(t) == Go(t, Idle)
At(t, stage) == call[t].pc = stage
Start(t, op, c) == At(t, "idle") /\ op \in Ops /\ Go(t, c)

-----------------------------------------------------------------------------
(* enqueue_job_in: one pipeline. *)
EnqueueJob(j, name, s) ==
    LET p == Normalize(name) IN
    /\ ~Has(home, j)
    /\ desc' = desc \cup {[job |-> j, part |-> p]}
    /\ partitions' = partitions \cup ({p} \ {None})
    /\ pending' = ZAdd([job |-> j, part |-> p, score |-> s])
    /\ call' = [t \in Calls |-> Woken(call[t], p)]
    /\ home' = home \cup {[job |-> j, part |-> p, score |-> s]}
    /\ UNCHANGED <<claims, results, resolved, overdue, snap, handled, dropped>>

-----------------------------------------------------------------------------
(* claim_job_in: subscribe, then ZPOPMIN until there is something or the   *)
(* time is over, GET the description, HSET the claim.  The confirmation of *)
(* the subscription is itself a message on the channel.                    *)
ClaimJob(t, w, name) ==
    /\ Start(t, "claim", [Idle EXCEPT !.pc = "claim_pop", !.worker = w,
                                      !.part = Normalize(name),
                                      !.msg = "wake"])
    /\ UNCHANGED <<store, rest>>

ClaimPop(t) ==
    /\ At(t, "claim_pop")
    /\ \E e \in pending :
          /\ e.part = call[t].part
          /\ \A f \in pending : f.part = e.part => e.score <= f.score
          /\ pending' = pending \ {e}
          /\ Go(t, [call[t] EXCEPT !.pc = "claim_get", !.job = e.job,
                                   !.score = e.score])
    /\ UNCHANGED <<desc, partitions, claims, results, resolved, rest>>

ClaimEmpty(t) ==
    /\ At(t, "claim_pop")
    /\ \A e \in pending : e.part # call[t].part
    /\ Go(t, [call[t] EXCEPT !.pc = "claim_wait"])
    /\ UNCHANGED <<store, rest>>

ClaimWake(t) ==
    /\ At(t, "claim_wait")
    /\ call[t].msg = "wake"
    /\ Go(t, [call[t] EXCEPT !.pc = "claim_pop", !.msg = None])
    /\ UNCHANGED <<store, rest>>

(* Mutated form of ClaimTimeout: a timeout only makes it look again. *)
ClaimTimeoutRetries(t) ==
    /\ At(t, "claim_wait")
    /\ Go(t, [call[t] EXCEPT !.pc = "claim_pop"])
    /\ UNCHANGED <<store, rest>>

ClaimTimeout(t) ==
    /\ At(t, "claim_wait")
    /\ Return(t)
    /\ UNCHANGED <<store, rest>>

(* A popped job without a description is an error, and one past its        *)
(* deadline is cancelled before the next one is popped.                    *)
ClaimGet(t) ==
    /\ At(t, "claim_get")
    /\ \/ ~Has(desc, call[t].job) /\ Return(t)
       \/ /\ Has(desc, call[t].job)
          /\ Go(t, [call[t] EXCEPT !.pc = IF call[t].job \in overdue
                                          THEN "claim_drop_get"
                                          ELSE "claim_hset"])
    /\ UNCHANGED <<store, rest>>

(* Mutated form of ClaimHset: Claim::new without in_partition. *)
ClaimHsetNoPartition(t) ==
    /\ At(t, "claim_hset")
    /\ claims' = Without(claims, call[t].job)
                 \cup {[job |-> call[t].job, worker |-> call[t].worker,
                        score |-> call[t].score, part |-> None, stale |-> FALSE]}
    /\ Return(t)
    /\ UNCHANGED <<desc, pending, partitions, results, resolved, rest>>

ClaimHset(t) ==
    /\ At(t, "claim_hset")
    /\ claims' = Without(claims, call[t].job)
                 \cup {[job |-> call[t].job, worker |-> call[t].worker,
                        score |-> call[t].score, part |-> call[t].part,
                        stale |-> FALSE]}
    /\ Return(t)
    /\ UNCHANGED <<desc, pending, partitions, results, resolved, rest>>

-----------------------------------------------------------------------------
(* cancel_job: GET the description for the partition, then one pipeline.   *)
(* The claim of an overdue job runs the same two steps and goes on.        *)
CancelJob(t, j) ==
    /\ Has(home, j)
    /\ Start(t, "cancel", [Idle EXCEPT !.pc = "cancel_get", !.job = j])
    /\ UNCHANGED <<store, rest>>

DescribedPart(j) ==
    IF \E d \in desc : d.job = j
    THEN (CHOOSE d \in desc : d.job = j).part ELSE None

CancelGet(t) ==
    /\ At(t, "cancel_get")
    /\ Go(t, [call[t] EXCEPT !.pc = "cancel_exec",
                             !.part = DescribedPart(call[t].job)])
    /\ UNCHANGED <<store, rest>>

CancelKeys(p, j) ==
    /\ pending' = ZRem(p, j)
    /\ desc' = Without(desc, j)
    /\ claims' = Without(claims, j)
    /\ UNCHANGED <<partitions, results, resolved>>

CancelExec(t) ==
    /\ At(t, "cancel_exec")
    /\ CancelKeys(call[t].part, call[t].job)
    /\ Return(t)
    /\ UNCHANGED rest

(* The partition read here can only be the one the job was popped from, or *)
(* None when somebody else just cancelled it: flag says which.             *)
ClaimDropGet(t) ==
    /\ At(t, "claim_drop_get")
    /\ Go(t, [call[t] EXCEPT !.pc = "claim_drop_exec",
                             !.flag = Has(desc, call[t].job)])
    /\ UNCHANGED <<store, rest>>

ClaimDropExec(t) ==
    /\ At(t, "claim_drop_exec")
    /\ CancelKeys(IF call[t].flag THEN call[t].part ELSE None, call[t].job)
    /\ Go(t, [call[t] EXCEPT !.pc = "claim_pop", !.job = None, !.score = None,
                             !.flag = FALSE])
    /\ UNCHANGED rest

-----------------------------------------------------------------------------
(* reclaim_job: HGET the claim, check its owner, HSET it with a new time. *)
ReclaimJob(t, w, j) ==
    /\ Has(home, j)
    /\ Start(t, "reclaim", [Idle EXCEPT !.pc = "reclaim_hget", !.worker = w,
                                        !.job = j])
    /\ UNCHANGED <<store, rest>>

OwnClaims(t) ==
    {c \in claims : c.job = call[t].job /\ c.worker = call[t].worker}

ReclaimHget(t) ==
    /\ At(t, "reclaim_hget")
    /\ \/ OwnClaims(t) = {} /\ Return(t)
       \/ \E c \in OwnClaims(t) :
             Go(t, [call[t] EXCEPT !.pc = "reclaim_hset", !.score = c.score,
                                   !.part = c.part])
    /\ UNCHANGED <<store, rest>>

ReclaimHset(t) ==
    /\ At(t, "reclaim_hset")
    /\ claims' = Without(claims, call[t].job)
                 \cup {[job |-> call[t].job, worker |-> call[t].worker,
                        score |-> call[t].score, part |-> call[t].part,
                        stale |-> FALSE]}
    /\ Return(t)
    /\ UNCHANGED <<desc, pending, partitions, results, resolved, rest>>

-----------------------------------------------------------------------------
(* resolve_job: HGET and check the claim, GET the description, HDEL the    *)
(* claim, run the callback, publish the result, clean up if processed.     *)

ResolveJob(t, w, j, s) ==
    /\ Has(home, j)
    /\ Start(t, "resolve", [Idle EXCEPT !.pc = "resolve_hget", !.worker = w,
                                        !.job = j, !.status = s])
    /\ UNCHANGED <<store, rest>>

ResolveHget(t) ==
    /\ At(t, "resolve_hget")
    /\ \/ OwnClaims(t) = {} /\ Return(t)
       \/ /\ OwnClaims(t) # {}
          /\ Go(t, [call[t] EXCEPT !.pc = "resolve_get"])
    /\ UNCHANGED <<store, rest>>

ResolveGet(t) ==
    /\ At(t, "resolve_get")
    /\ \/ ~Has(desc, call[t].job) /\ Return(t)
       \/ /\ Has(desc, call[t].job)
          /\ Go(t, [call[t] EXCEPT !.pc = "resolve_hdel"])
    /\ UNCHANGED <<store, rest>>

ResolveHdel(t) ==
    /\ At(t, "resolve_hdel")
    /\ claims' = Without(claims, call[t].job)
    /\ Go(t, [call[t] EXCEPT !.pc = "resolve_callback"])
    /\ UNCHANGED <<desc, pending, partitions, results, resolved, rest>>

Accepted(t) ==
    IF call[t].status = "success" THEN handled \cup {call[t].job} ELSE handled

(* The callback accepts the result and says whether it is done with it     *)
(* (flag), or fails: then the job is reported as an internal error.        *)
ResolveCallback(t) ==
    /\ At(t, "resolve_callback")
    /\ \/ /\ ~HasCallback
          /\ Go(t, [call[t] EXCEPT !.pc = "resolve_publish"])
          /\ UNCHANGED handled
       \/ /\ HasCallback
          /\ \E processed \in BOOLEAN :
                Go(t, [call[t] EXCEPT !.pc = "resolve_publish",
                                      !.flag = processed])
          /\ handled' = Accepted(t)
       \/ /\ HasCallback
          /\ Go(t, [call[t] EXCEPT !.pc = "resolve_publish", !.flag = TRUE,
                                   !.status = "error"])
          /\ UNCHANGED handled
    /\ UNCHANGED <<store, overdue, snap, home, dropped>>

(* Mutated form of ResolvePublish: the status is published and not stored. *)
ResolvePublishUnstored(t) ==
    LET r == [job |-> call[t].job, status |-> call[t].status] IN
    /\ At(t, "resolve_publish")
    /\ call' = [u \in Calls |->
                  IF u # t THEN Notified(call[u], r.job, r.status)
                  ELSE IF call[t].flag
                       THEN [call[t] EXCEPT !.pc = "resolve_cleanup"]
                       ELSE Idle]
    /\ UNCHANGED <<store, rest>>

ResolvePublish(t) ==
    LET r == [job |-> call[t].job, status |-> call[t].status] IN
    /\ At(t, "resolve_publish")
    /\ results' = Without(results, r.job) \cup {r}
    /\ resolved' = Without(resolved, r.job) \cup {r}
    /\ call' = [u \in Calls |->
                  IF u # t THEN Notified(call[u], r.job, r.status)
                  ELSE IF call[t].flag
                       THEN [call[t] EXCEPT !.pc = "resolve_cleanup"]
                       ELSE Idle]
    /\ UNCHANGED <<desc, pending, partitions, claims, rest>>

(* Also delete_job_result: the description and the result in one pipeline. *)
DeleteKeys(j) ==
    /\ desc' = Without(desc, j)
    /\ results' = Without(results, j)
    /\ UNCHANGED <<pending, partitions, claims, resolved>>

ResolveCleanup(t) ==
    /\ At(t, "resolve_cleanup")
    /\ DeleteKeys(call[t].job)
    /\ Return(t)
    /\ UNCHANGED rest

-----------------------------------------------------------------------------
(* wait_for_job: look at the job, subscribe, look again twice, wait. *)
WaitForJob(t, j) ==
    /\ Has(home, j)
    /\ Start(t, "wait", [Idle EXCEPT !.pc = "wait_status", !.job = j])
    /\ UNCHANGED <<store, rest>>

(* get_job_status: one pipeline of EXISTS, then GET the result if there    *)
(* was one.  flag: the job was claimed or had a description.               *)
WaitStatus(t) ==
    LET j == call[t].job
        live == Has(claims, j) \/ Has(desc, j) IN
    /\ At(t, "wait_status")
    /\ Go(t, [call[t] EXCEPT !.flag = live /\ Has(results, j),
                             !.pc = IF Has(results, j) THEN "wait_get_result"
                                    ELSE IF live THEN "wait_subscribe"
                                    ELSE "wait_not_found"])
    /\ UNCHANGED <<store, rest>>

WaitGetResult(t) ==
    /\ At(t, "wait_get_result")
    /\ Go(t, [call[t] EXCEPT !.flag = FALSE,
                             !.pc = IF Has(results, call[t].job) \/ call[t].flag
                                    THEN "wait_subscribe"
                                    ELSE "wait_not_found"])
    /\ UNCHANGED <<store, rest>>

WaitSubscribe(t) ==
    /\ At(t, "wait_subscribe")
    /\ Go(t, [call[t] EXCEPT !.pc = "wait_check"])
    /\ UNCHANGED <<store, rest>>

(* Read rel, results or resolved, at a stage: the status that is there is  *)
(* the answer, and otherwise the call goes on with record c.               *)
WaitRead(t, stage, rel, c) ==
    /\ At(t, stage)
    /\ \/ \E r \in rel :
             /\ r.job = call[t].job
             /\ Go(t, [call[t] EXCEPT !.pc = "waited", !.status = r.status,
                                      !.msg = None])
       \/ ~Has(rel, call[t].job) /\ Go(t, c)
    /\ UNCHANGED <<store, rest>>

(* Mutated form of WaitCheck2: resolved is not read again. *)
WaitCheck2Skipped(t) ==
    /\ At(t, "wait_check2")
    /\ Go(t, [call[t] EXCEPT !.pc = "wait_recv"])
    /\ UNCHANGED <<store, rest>>

WaitNotFound(t) == WaitRead(t, "wait_not_found", resolved, Idle)
WaitCheck(t) == WaitRead(t, "wait_check", results,
                         [call[t] EXCEPT !.pc = "wait_check2"])
WaitCheck2(t) == WaitRead(t, "wait_check2", resolved,
                          [call[t] EXCEPT !.pc = "wait_recv"])

WaitRecv(t) ==
    /\ At(t, "wait_recv")
    /\ call[t].msg # None
    /\ Go(t, [call[t] EXCEPT !.pc = "waited", !.status = call[t].msg,
                             !.msg = None])
    /\ UNCHANGED <<store, rest>>

WaitTimeout(t) ==
    /\ At(t, "wait_recv")
    /\ \/ Return(t)
       \/ Go(t, [Idle EXCEPT !.pc = "cancel_get", !.job = call[t].job])
    /\ UNCHANGED <<store, rest>>

(* What a caller that was told a status does next: nothing, delete the     *)
(* result, or cancel the job if it was an internal error.                  *)
WaitReturn(t) ==
    /\ At(t, "waited")
    /\ \/ Return(t)
       \/ /\ call[t].status = "error"
          /\ Go(t, [Idle EXCEPT !.pc = "cancel_get", !.job = call[t].job])
    /\ UNCHANGED <<store, rest>>

DeleteJobResult(t) ==
    /\ At(t, "waited")
    /\ call[t].status # "error"
    /\ DeleteKeys(call[t].job)
    /\ Return(t)
    /\ UNCHANGED rest

-----------------------------------------------------------------------------
(* process_orphaned_job_results, for one of the results KEYS returned. *)
OrphanedResult(t, j) ==
    /\ Has(results, j)
    /\ Start(t, "orphan", [Idle EXCEPT !.pc = "orphan_get", !.job = j])
    /\ UNCHANGED <<store, rest>>

OrphanGet(t) ==
    /\ At(t, "orphan_get")
    /\ \/ /\ HasCallback /\ Has(desc, call[t].job)
          /\ Go(t, [call[t] EXCEPT !.pc = "orphan_read"])
          /\ UNCHANGED store
       \/ /\ ~HasCallback \/ ~Has(desc, call[t].job)
          /\ DeleteKeys(call[t].job)
          /\ Return(t)
    /\ UNCHANGED rest

OrphanRead(t) ==
    /\ At(t, "orphan_read")
    /\ \/ ~Has(results, call[t].job) /\ Return(t)
       \/ \E r \in results :
             /\ r.job = call[t].job
             /\ Go(t, [call[t] EXCEPT !.pc = "orphan_callback",
                                      !.status = r.status])
    /\ UNCHANGED <<store, rest>>

OrphanCallback(t) ==
    /\ At(t, "orphan_callback")
    /\ \/ /\ \E processed \in BOOLEAN :
                Go(t, IF processed
                      THEN [call[t] EXCEPT !.pc = "orphan_del_job"] ELSE Idle)
          /\ handled' = Accepted(t)
       \/ Return(t) /\ UNCHANGED handled
    /\ UNCHANGED <<store, overdue, snap, home, dropped>>

(* Mutated form of OrphanDelJob: the result is deleted before the job. *)
OrphanDelResultFirst(t) ==
    /\ At(t, "orphan_del_job")
    /\ results' = Without(results, call[t].job)
    /\ Go(t, [call[t] EXCEPT !.pc = "orphan_del_result"])
    /\ UNCHANGED <<desc, pending, partitions, claims, resolved, rest>>

OrphanDelJob(t) ==
    /\ At(t, "orphan_del_job")
    /\ desc' = Without(desc, call[t].job)
    /\ Go(t, [call[t] EXCEPT !.pc = "orphan_del_result"])
    /\ UNCHANGED <<pending, partitions, claims, results, resolved, rest>>

OrphanDelResult(t) ==
    /\ At(t, "orphan_del_result")
    /\ results' = Without(results, call[t].job)
    /\ Return(t)
    /\ UNCHANGED <<desc, pending, partitions, claims, resolved, rest>>

-----------------------------------------------------------------------------
(* reclaim_checker_inner: HGETALL, then one pipeline per expired claim. *)
CheckerScan(k) ==
    LET expired == {c \in claims : c.stale} IN
    /\ snap[k] = {}
    /\ expired # {}
    /\ snap' = [snap EXCEPT ![k] =
                  {[job |-> c.job, part |-> c.part, score |-> c.score]
                     : c \in expired}]
    /\ UNCHANGED <<store, overdue, call, home, handled, dropped>>

(* Mutated form of Reinsert: only the key job_claim_key, that nobody sets,  *)
(* is deleted.                                                             *)
ReinsertKeepsClaim(e) ==
    /\ pending' = ZAdd(e)
    /\ call' = [t \in Calls |-> Woken(call[t], e.part)]
    /\ UNCHANGED <<claims, desc, partitions, results, resolved>>

Reinsert(e) ==
    /\ pending' = ZAdd(e)
    /\ claims' = Without(claims, e.job)
    /\ call' = [t \in Calls |-> Woken(call[t], e.part)]
    /\ UNCHANGED <<desc, partitions, results, resolved>>

CheckerReinsert(k, j) ==
    \E e \in snap[k] :
       /\ e.job = j
       /\ Reinsert(e)
       /\ snap' = [snap EXCEPT ![k] = @ \ {e}]
       /\ UNCHANGED <<overdue, home, handled, dropped>>

-----------------------------------------------------------------------------
(* Time, and calls that are cut off: their process dies, or their          *)
(* connection to Valkey fails.                                             *)
ClaimExpires(c) ==
    /\ ~c.stale
    /\ claims' = (claims \ {c}) \cup {[c EXCEPT !.stale = TRUE]}
    /\ UNCHANGED <<desc, pending, partitions, results, resolved, call, rest>>

DeadlinePasses(j) ==
    /\ Has(desc, j) /\ j \notin overdue
    /\ overdue' = overdue \cup {j}
    /\ UNCHANGED <<store, call, snap, home, handled, dropped>>

ResolvedExpires(r) ==
    /\ resolved' = resolved \ {r}
    /\ UNCHANGED <<desc, pending, partitions, claims, results, call, rest>>

CallDies(t) ==
    /\ "die" \in Ops
    /\ ~At(t, "idle")
    /\ dropped' = IF call[t].pc \in HoldingStages
                  THEN dropped \cup {call[t].job} ELSE dropped
    /\ Return(t)
    /\ UNCHANGED <<store, overdue, snap, home, handled>>

(* A pipeline of the checker fails: it logs that and goes on to the next   *)
(* expired claim.  When its process dies all that are left fail.           *)
CheckerFails(k) ==
    /\ "die" \in Ops
    /\ \E e \in snap[k] : snap' = [snap EXCEPT ![k] = @ \ {e}]
    /\ UNCHANGED <<store, overdue, call, home, handled, dropped>>

-----------------------------------------------------------------------------
(* A call's next round trip. *)
CallStep(t) ==
    \/ ClaimPop(t) \/ ClaimEmpty(t) \/ ClaimWake(t) \/ ClaimGet(t)
    \/ ClaimHset(t) \/ ClaimDropGet(t) \/ ClaimDropExec(t)
    \/ CancelGet(t) \/ CancelExec(t)
    \/ ReclaimHget(t) \/ ReclaimHset(t)
    \/ ResolveHget(t) \/ ResolveGet(t) \/ ResolveHdel(t)
    \/ ResolveCallback(t) \/ ResolvePublish(t) \/ ResolveCleanup(t)
    \/ WaitStatus(t) \/ WaitGetResult(t) \/ WaitNotFound(t)
    \/ WaitSubscribe(t) \/ WaitCheck(t) \/ WaitCheck2(t) \/ WaitRecv(t)
    \/ WaitReturn(t) \/ DeleteJobResult(t)
    \/ OrphanGet(t) \/ OrphanRead(t) \/ OrphanCallback(t) \/ OrphanDelJob(t)
    \/ OrphanDelResult(t)

CallTimeout(t) == ClaimTimeout(t) \/ WaitTimeout(t)

CallStart(t) ==
    \/ \E w \in Workers, n \in PartitionNames \cup {None} : ClaimJob(t, w, n)
    \/ \E j \in Jobs :
          \/ CancelJob(t, j) \/ WaitForJob(t, j) \/ OrphanedResult(t, j)
          \/ \E w \in Workers :
                \/ ReclaimJob(t, w, j)
                \/ \E s \in Reported : ResolveJob(t, w, j, s)

Next ==
    \/ \E j \in Jobs, n \in PartitionNames \cup {None}, s \in Scores :
          EnqueueJob(j, n, s)
    \/ \E t \in Calls :
          CallStart(t) \/ CallStep(t) \/ CallTimeout(t) \/ CallDies(t)
    \/ \E k \in Checkers :
          CheckerScan(k) \/ CheckerFails(k)
          \/ \E j \in Jobs : CheckerReinsert(k, j)
    \/ \E c \in claims : ClaimExpires(c)
    \/ \E j \in Jobs : DeadlinePasses(j)
    \/ \E r \in resolved : ResolvedExpires(r)

Spec == Init /\ [][Next]_vars

-----------------------------------------------------------------------------
(* Fairness: a lobby process that stays up lets every call go on to its    *)
(* next round trip, its timers fire, and its checker wakes up every        *)
(* reclaim_timeout / 2.  A timer can lose the race against a message any   *)
(* number of times, and a checker can be restarted any number of times     *)
(* between listing and reinserting, but neither forever.                   *)
FairSpec ==
    /\ Spec
    /\ \A t \in Calls : WF_vars(CallStep(t)) /\ SF_vars(CallTimeout(t))
    /\ \A k \in Checkers :
          /\ WF_vars(CheckerScan(k))
          /\ \A j \in Jobs : SF_vars(CheckerReinsert(k, j))

-----------------------------------------------------------------------------
(* The place of a job in the queue: its partition and its priority. *)
Place(x) == [job |-> x.job, part |-> x.part, score |-> x.score]

PlacedStages == {"claim_get", "claim_drop_get", "claim_drop_exec",
                 "claim_hset", "reclaim_hset"}

(* A job is only ever waiting, claimed, or about to be, in the partition   *)
(* and with the priority it was enqueued with, through every expiry of its *)
(* claim: "the lobby only hands a worker the jobs of that base" (README).  *)
(* get_stats finds it there: the partition is in wq:{name}:partitions.     *)
JobKeepsItsPlace ==
    /\ pending \subseteq home
    /\ \A e \in home : e.part \in partitions \cup {None}
    /\ \A c \in claims : Place(c) \in home
    /\ \A k \in Checkers : snap[k] \subseteq home
    /\ \A t \in Calls : call[t].pc \in PlacedStages => Place(call[t]) \in home

Held(j) == \E t \in Calls : call[t].job = j /\ call[t].pc \in HoldingStages

(* As long as its description is there, a job is waiting, claimed, has a   *)
(* result, or is in the hands of a call in progress.  The only jobs lost   *)
(* are those whose call was cut off between ZPOPMIN and the HSET of the    *)
(* claim, or between the HDEL of the claim and the SET of the result.      *)
NoJobLost ==
    \A d \in desc : \/ Has(pending, d.job) \/ Has(claims, d.job)
                    \/ Has(results, d.job) \/ Held(d.job)
                    \/ d.job \in dropped

(* No claim_job_in call sleeps on its channel while a job waits in its     *)
(* partition: it subscribed before it looked, and every ZADD is published. *)
NoSleepingWorker ==
    \A t \in Calls : At(t, "claim_wait") /\ call[t].msg = None
        => \A e \in pending : e.part # call[t].part

(* No wait_for_job call sleeps on its channel while there is a result, or  *)
(* the status of a result already cleaned up, that it could read.          *)
NoSleepingWaiter ==
    \A t \in Calls : At(t, "wait_recv") /\ call[t].msg = None
        => ~Has(results, call[t].job) /\ ~Has(resolved, call[t].job)

(* No wake-up is lost: neither a worker in claim_job_in nor a caller of     *)
(* wait_for_job sleeps beside what it waits for, whatever is added,         *)
(* reinserted, resolved or cleaned up between its look and its wait.        *)
NobodySleeps == NoSleepingWorker /\ NoSleepingWaiter

(* Nobody can be told of a success before the callback has accepted it:    *)
(* "The queue callback stored them before the job got reported as          *)
(* resolved" (lobby/src/views/options_gen.rs).                             *)
SuccessIsHandled ==
    HasCallback =>
       /\ \A r \in results \cup resolved : r.status = "success" => r.job \in handled
       /\ \A t \in Calls : \/ call[t].msg = "success"
                           \/ At(t, "waited") /\ call[t].status = "success"
                           => call[t].job \in handled

(* A worker that stops refreshing its claim does not keep the job: the     *)
(* claim is refreshed again or goes away.                                  *)
StaleClaimGoes ==
    \A j \in Jobs : (\E c \in claims : c.job = j /\ c.stale)
                    ~> ~(\E c \in claims : c.job = j /\ c.stale)

(* Every call of every operation returns. *)
CallsReturn == \A t \in Calls : ~At(t, "idle") ~> At(t, "idle")

-----------------------------------------------------------------------------
(* The queue in Valkey implements a JobBoard: the board is the results and *)
(* the statuses that outlive them, and an answer is what a wait_for_job    *)
(* call has read, or what its subscription received and it will read.      *)

Subscribed == {"wait_check", "wait_check2", "wait_recv"}

Asked(c) == IF c.pc \in WaitStages THEN c.job ELSE None

Answered(c) ==
    IF c.pc = "waited" THEN c.status
    ELSE IF c.pc \in Subscribed THEN c.msg ELSE None

Board == INSTANCE JobBoard WITH
            Clients <- Calls,
            HasOwner <- HasCallback,
            enqueued <- {e.job : e \in home},
            accepted <- handled,
            board <- results \cup resolved,
            asked <- [t \in Calls |-> Asked(call[t])],
            answer <- [t \in Calls |-> Answered(call[t])]

(* What wait_for_job tells its callers is what a JobBoard would: whatever  *)
(* calls on the job race, expire and are cut off, a status is only told    *)
(* after resolve_job posted it for that job, a success only after the      *)
(* callback accepted it, and neither the subscription nor the two reads    *)
(* around it make one up.                                                  *)
ImplementsBoard == Board!BoardSpec
=============================================================================
