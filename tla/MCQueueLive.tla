----------------------------- MODULE MCQueueLive -----------------------------
(* What must happen in the end on both sides of the queue: in the lobby that *)
(* keeps it (WorkQueue) and in the workers that serve it (WorkerLoop, which  *)
(* has the queue as its routes answer). A behaviour follows one of them.     *)
EXTENDS MCWorkQueue

CONSTANTS LoopJobs, LoopWorkers, Misplaced, MaxLosses, MaxSlow, MaxCrashes, MaxDeaths

VARIABLES side, place, holder, outcome, worker, losses, slow, crashes, deaths

L == INSTANCE WorkerLoop WITH Jobs <- LoopJobs, Workers <- LoopWorkers

loopVars == <<place, holder, outcome, worker, losses, slow, crashes, deaths>>

LiveInit == side \in {"lobby", "worker"} /\ Init /\ L!Init

LiveNext ==
    /\ UNCHANGED side
    /\ \/ side = "lobby" /\ Next /\ UNCHANGED loopVars
       \/ side = "worker" /\ L!Next /\ UNCHANGED vars

(* The fairness of WorkQueue and of WorkerLoop, each on its side. *)
LobbyFairness ==
    /\ \A t \in Calls : /\ WF_vars(side = "lobby" /\ CallStep(t))
                        /\ SF_vars(side = "lobby" /\ CallTimeout(t))
    /\ \A k \in Checkers :
          /\ WF_vars(side = "lobby" /\ CheckerScan(k))
          /\ \A j \in Jobs : SF_vars(side = "lobby" /\ CheckerReinsert(k, j))

WorkerFairness ==
    /\ \A w \in LoopWorkers : /\ WF_loopVars(side = "worker" /\ L!WorkerStep(w))
                              /\ WF_loopVars(side = "worker" /\ L!JobProcess(w))
    /\ \A j \in LoopJobs : WF_loopVars(side = "worker" /\ L!ClaimExpires(j))

LiveSpec ==
    LiveInit /\ [][LiveNext]_<<side, vars, loopVars>> /\ LobbyFairness /\ WorkerFairness

-----------------------------------------------------------------------------
\* LobbyQueue.run and _handle_job: whatever requests, answers, claims, processes and workers are
\* lost, every job a worker could get is answered in the end, and a worker whose job was taken
\* from it is free again. What the queue was told of a job stays, also when a worker that missed
\* the answer to its result falls back to InternalError.
WorkersServe ==
    /\ side = "worker" => L!EveryJobAnswered /\ L!FreedWhenLost
    /\ L!AnswerStands
=============================================================================
