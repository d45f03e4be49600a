----------------------------- MODULE WorkerLoop -----------------------------
(* The loop of a worker (ap-worker/wq.py): claim a job, run it in a process  *)
(* of its own, reclaim it while it runs, and tell the queue what came of it. *)
(* Requests and their answers may be lost, claims may run out, jobs may be   *)
(* cancelled, workers may be restarted, and a process may die without a word.*)
(* The queue is seen as its routes answer.                                   *)
EXTENDS Naturals

CONSTANTS Jobs, Workers,
          Misplaced,                                 \* jobs for another base than the workers'
          MaxLosses, MaxSlow, MaxCrashes, MaxDeaths, \* bounds on what goes wrong
          None

VARIABLES
  place,   \* where the queue has a job: pending, claimed, resolved or cancelled
  holder,  \* the worker of its claim
  outcome, \* what the queue was told of it
  worker,  \* where each worker is in its loop
  losses, slow, crashes, deaths

vars == <<place, holder, outcome, worker, losses, slow, crashes, deaths>>

Attempts == 3  \* of _resolve_internal_error

Unemployed == [at |-> "claim", job |-> None, proc |-> "none", cancelled |-> FALSE, tries |-> 0]

Init ==
  /\ place = [j \in Jobs |-> "pending"]
  /\ holder = [j \in Jobs |-> None]
  /\ outcome = [j \in Jobs |-> None]
  /\ worker = [w \in Workers |-> Unemployed]
  /\ losses = 0 /\ slow = 0 /\ crashes = 0 /\ deaths = 0

Lost == losses < MaxLosses /\ losses' = losses + 1
Holds(w, j) == place[j] = "claimed" /\ holder[j] = w
Handles(w, j) == worker[w].at # "claim" /\ worker[w].job = j

-----------------------------------------------------------------------------

\* The base is checked first; then the process and the reclaim loop start.
CheckBase(j) == IF j \in Misplaced THEN [Unemployed EXCEPT !.at = "report", !.job = j]
                ELSE [Unemployed EXCEPT !.at = "wait", !.job = j, !.proc = "runs"]

\* A job is claimed, and the worker may not hear of it.
ClaimJob(w) ==
  /\ worker[w].at = "claim"
  /\ \E j \in Jobs :
       /\ place[j] = "pending"
       /\ place' = [place EXCEPT ![j] = "claimed"]
       /\ holder' = [holder EXCEPT ![j] = w]
       /\ \/ worker' = [worker EXCEPT ![w] = CheckBase(j)] /\ UNCHANGED losses
          \/ Lost /\ UNCHANGED worker
  /\ UNCHANGED <<outcome, slow, crashes, deaths>>

\* There is no job, and the worker asks again.
ClaimNone(w) ==
  /\ worker[w].at = "claim"
  /\ \A j \in Jobs : place[j] # "pending"
  /\ UNCHANGED vars

\* Every seven seconds the claim is refreshed: a refusal or no answer is taken for a cancelled
\* job.
Reclaim(w) ==
  /\ worker[w].at = "wait" /\ ~worker[w].cancelled
  /\ \/ Holds(w, worker[w].job) /\ UNCHANGED <<worker, losses>>
     \/ /\ IF Holds(w, worker[w].job) THEN Lost ELSE UNCHANGED losses
        /\ worker' = [worker EXCEPT ![w].cancelled = TRUE]
  /\ UNCHANGED <<place, holder, outcome, slow, crashes, deaths>>

\* The process writes its result to the pipe.
JobProcess(w) ==
  /\ worker[w].proc = "runs"
  /\ worker' = [worker EXCEPT ![w].proc = "sent"]
  /\ UNCHANGED <<place, holder, outcome, losses, slow, crashes, deaths>>

\* It dies before: the worker keeps an end of the pipe and sees nothing.
JobProcessDies(w) ==
  /\ worker[w].proc = "runs" /\ deaths < MaxDeaths
  /\ worker' = [worker EXCEPT ![w].proc = "silent"]
  /\ deaths' = deaths + 1
  /\ UNCHANGED <<place, holder, outcome, losses, slow, crashes>>

(* Mistake: the wait looks for a cancelled job only when there is data.      *)
HandleJobOnData(w) ==
  /\ worker[w].at = "wait" /\ worker[w].proc = "sent"
  /\ \/ worker[w].cancelled /\ worker' = [worker EXCEPT ![w] = Unemployed]
     \/ ~worker[w].cancelled /\ worker' = [worker EXCEPT ![w].at = "resolve"]
  /\ UNCHANGED <<place, holder, outcome, losses, slow, crashes, deaths>>

\* The wait ends: a cancelled job's process is terminated, whatever it sent.
HandleJob(w) ==
  /\ worker[w].at = "wait"
  /\ \/ worker[w].cancelled /\ worker' = [worker EXCEPT ![w] = Unemployed]
     \/ /\ ~worker[w].cancelled /\ worker[w].proc = "sent"
        /\ worker' = [worker EXCEPT ![w].at = "resolve"]
  /\ UNCHANGED <<place, holder, outcome, losses, slow, crashes, deaths>>

-----------------------------------------------------------------------------

\* The queue takes the answer of the worker that holds the claim, and of nobody else.
Takes(w, j) == Holds(w, j)

ResolveJob(j, o) ==
  /\ place' = [place EXCEPT ![j] = "resolved"]
  /\ holder' = [holder EXCEPT ![j] = None]
  /\ outcome' = [outcome EXCEPT ![j] = o]

\* The job is gone (410): any other refusal, for a job that another worker holds, falls back.
Resolve(w) ==
  LET j == worker[w].job
      Then(x) == worker' = [worker EXCEPT ![w] = x]
      fallback == [worker[w] EXCEPT !.at = "fallback"]
  IN /\ worker[w].at = "resolve"
     /\ \/ Takes(w, j) /\ ResolveJob(j, "result") /\ Then(Unemployed) /\ UNCHANGED losses
        \/ Takes(w, j) /\ ResolveJob(j, "result") /\ Lost /\ Then(fallback)
        \/ /\ ~Takes(w, j) /\ Then(IF place[j] = "claimed" THEN fallback ELSE Unemployed)
           /\ UNCHANGED <<place, holder, outcome, losses>>
        \/ Lost /\ Then(fallback) /\ UNCHANGED <<place, holder, outcome>>
     /\ UNCHANGED <<slow, crashes, deaths>>

\* InternalError, up to three times: a refusal counts as a failed attempt.
ResolveInternalError(w) ==
  LET j == worker[w].job
      Again == worker' = [worker EXCEPT ![w] =
                 IF @.tries + 1 < Attempts THEN [@ EXCEPT !.tries = @ + 1] ELSE Unemployed]
  IN /\ worker[w].at = "fallback"
     /\ \/ /\ Takes(w, j) /\ ResolveJob(j, "InternalError") /\ UNCHANGED losses
           /\ worker' = [worker EXCEPT ![w] = Unemployed]
        \/ Takes(w, j) /\ ResolveJob(j, "InternalError") /\ Lost /\ Again
        \/ ~Takes(w, j) /\ Again /\ UNCHANGED <<place, holder, outcome, losses>>
        \/ Lost /\ Again /\ UNCHANGED <<place, holder, outcome>>
     /\ UNCHANGED <<slow, crashes, deaths>>

\* A job for another base is answered once, with InternalError and no result.
Report(w) ==
  LET j == worker[w].job IN
  /\ worker[w].at = "report"
  /\ \/ Takes(w, j) /\ ResolveJob(j, "InternalError") /\ (UNCHANGED losses \/ Lost)
     \/ ~Takes(w, j) /\ UNCHANGED <<place, holder, outcome, losses>>
     \/ Lost /\ UNCHANGED <<place, holder, outcome>>
  /\ worker' = [worker EXCEPT ![w] = Unemployed]
  /\ UNCHANGED <<slow, crashes, deaths>>

\* The worker is restarted: its process ends with it and its claim stays.
Crash(w) ==
  /\ crashes < MaxCrashes /\ worker[w].at # "claim"
  /\ worker' = [worker EXCEPT ![w] = Unemployed]
  /\ crashes' = crashes + 1
  /\ UNCHANGED <<place, holder, outcome, losses, slow, deaths>>

-----------------------------------------------------------------------------
\* Somebody who waited for the job cancels it.
CancelJob(j) ==
  /\ place[j] \in {"pending", "claimed"}
  /\ place' = [place EXCEPT ![j] = "cancelled"]
  /\ holder' = [holder EXCEPT ![j] = None]
  /\ UNCHANGED <<outcome, worker, losses, slow, crashes, deaths>>

BackInQueue(j) ==
  /\ place[j] = "claimed"
  /\ place' = [place EXCEPT ![j] = "pending"]
  /\ holder' = [holder EXCEPT ![j] = None]

\* A claim that nobody refreshes runs out.
ClaimExpires(j) ==
  /\ BackInQueue(j)
  /\ ~Handles(holder[j], j)
  /\ UNCHANGED <<outcome, worker, losses, slow, crashes, deaths>>

\* So does that of a worker that is late.
WorkerLate(j) ==
  /\ BackInQueue(j)
  /\ Handles(holder[j], j) /\ slow < MaxSlow
  /\ slow' = slow + 1
  /\ UNCHANGED <<outcome, worker, losses, crashes, deaths>>

WorkerStep(w) == ClaimJob(w) \/ ClaimNone(w) \/ Reclaim(w) \/ HandleJob(w) \/ Resolve(w)
                 \/ ResolveInternalError(w) \/ Report(w)

Next ==
  \/ \E w \in Workers : WorkerStep(w) \/ JobProcess(w) \/ JobProcessDies(w) \/ Crash(w)
  \/ \E j \in Jobs : CancelJob(j) \/ ClaimExpires(j) \/ WorkerLate(j)

\* Workers go on, processes end, and the checker of the lobby finds the claims nobody refreshes.
Fairness ==
  /\ \A w \in Workers : WF_vars(WorkerStep(w)) /\ WF_vars(JobProcess(w))
  /\ \A j \in Jobs : WF_vars(ClaimExpires(j))

Spec == Init /\ [][Next]_vars /\ Fairness

-----------------------------------------------------------------------------
\* A worker that waits for a process that died
Stuck(w) == worker[w].at = "wait" /\ worker[w].proc = "silent"

(* Every job is answered or cancelled in the end, unless the process of the  *)
(* worker that holds it died without a word, or that of every worker did: no *)
(* answer, no claim and no request that is lost leaves a job behind.         *)
EveryJobAnswered ==
  \A j \in Jobs :
    (place[j] \in {"pending", "claimed"}) ~>
      \/ place[j] \in {"resolved", "cancelled"}
      \/ \E w \in Workers : Stuck(w) /\ Holds(w, j)
      \/ \A w \in Workers : Stuck(w)

(* A worker that no longer holds the job it waits for is free again in the   *)
(* end, whether its process still runs or died without a word.               *)
FreedWhenLost ==
  \A w \in Workers :
    (worker[w].at = "wait" /\ ~Holds(w, worker[w].job)) ~> (worker[w].at = "claim")

(* What the queue was told of a job stays: the InternalError that a worker   *)
(* falls back to, when it missed the answer to its result, changes nothing.  *)
AnswerStands == [][\A j \in Jobs : outcome[j] # None => outcome'[j] = outcome[j]]_vars
=============================================================================
