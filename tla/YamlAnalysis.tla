---------------------------- MODULE YamlAnalysis ----------------------------
(* The analysis of YAMLs in the review tool (community-ap-tools/jobs.rs):  *)
(* a poller per process queues a job for every YAML without a result,      *)
(* requests force another analysis, and a key with a time to live keeps a  *)
(* YAML from being queued twice. The queue is seen from outside: its jobs  *)
(* wait, run and are resolved, and one that is popped after its deadline   *)
(* is cancelled without an answer.                                         *)
EXTENDS Integers, FiniteSets

CONSTANTS Yamls,      \* YAMLs of rooms that are in a team
          Pollers,    \* processes that poll for the rooms' Archipelago version
          TTL,        \* INFLIGHT_TTL_SECS
          Deadline,   \* of a job, shorter than TTL
          MaxJobs, MaxFails, MaxForced, \* bounds
          None

VARIABLES
  row,     \* yaml_analysis_status: the job whose result a YAML has
  key,     \* how long the in-flight key of a YAML still lives, 0 for no key
  job,     \* the jobs of the queue: their YAML, age and whether they run
  poll,    \* where each poller is: the rows it read, the one at hand
  force,   \* where the forced request is
  fails,   \* failures so far
  forced,  \* forced requests so far
  freed    \* (history) how often the key of a YAML was given up although its job may run

vars == <<row, key, job, poll, force, fails, forced, freed>>

Ids == 1..MaxJobs
Resting == [at |-> "rest", todo |-> {}, y |-> None]
NoRequest == [at |-> "none", y |-> None]

Locked(y) == key[y] > 0
Free == {i \in Ids : job[i] = None}
Failing == fails < MaxFails /\ fails' = fails + 1

Init ==
  /\ row = [y \in Yamls |-> None]
  /\ key = [y \in Yamls |-> 0]
  /\ job = [i \in Ids |-> None]
  /\ poll = [p \in Pollers |-> Resting]
  /\ force = NoRequest
  /\ fails = 0 /\ forced = 0
  /\ freed = [y \in Yamls |-> 0]

(* Mistake: the time to live is the deadline of the job.                   *)
AcquireShort(y) == key' = [key EXCEPT ![y] = Deadline]

(* Mistake: the key has no time to live.                                   *)
AcquireForever(y) == key' = [key EXCEPT ![y] = TTL + 1]

\* The rows of analyses: a result takes the place of an older one, a reset deletes it.
DbSetYamlAnalysisStatus(y, i) == row' = [row EXCEPT ![y] = i]
DbResetYamlAnalysisStatus(y) == row' = [row EXCEPT ![y] = None]
DbUnanalyzed == {y \in Yamls : row[y] = None}

\* SET key 1 NX EX: whoever finds no key has it until the time to live is over.
Acquire(y) == key' = [key EXCEPT ![y] = TTL]

ReleaseInflightKey(y) == key' = [key EXCEPT ![y] = 0]

\* The key goes although a job that it was taken for may run.
GiveUpKey(y) ==
  /\ ReleaseInflightKey(y)
  /\ freed' = [freed EXCEPT ![y] = IF Locked(y) THEN @ + 1 ELSE @]

Enqueue(y) == \E i \in Free : job' = [job EXCEPT ![i] = [y |-> y, age |-> 0, running |-> FALSE]]

\* enqueue_job_in. When the row's apworlds cannot be read, or the queue fails, the key is released,
\* unless that fails too (or the process dies): an error of it is not looked at. The reply of the
\* queue may be lost when it has the job.
EnqueueJobIn(y) ==
  \/ Enqueue(y) /\ UNCHANGED <<key, fails, freed>>
  \/ Failing /\ ReleaseInflightKey(y) /\ UNCHANGED <<job, freed>>
  \/ Failing /\ UNCHANGED <<key, job, freed>>
  \/ Failing /\ Enqueue(y) /\ GiveUpKey(y)

-----------------------------------------------------------------------------
\* Every five minutes: the YAMLs that have no row
GetUnanalyzedYamls(p) ==
  /\ poll[p] = Resting
  /\ DbUnanalyzed # {}
  /\ poll' = [poll EXCEPT ![p] = [at |-> "next", todo |-> DbUnanalyzed, y |-> None]]
  /\ UNCHANGED <<row, key, job, force, fails, forced, freed>>

\* The next row: skip it if its key is there, or else take the key. On an error it is skipped, and
\* has the key when only the reply was lost.
TakeKey(p) ==
  /\ poll[p].at = "next"
  /\ \E y \in poll[p].todo :
       LET rest == poll[p].todo \ {y}
           skip == poll' = [poll EXCEPT ![p] = IF rest = {} THEN Resting ELSE [@ EXCEPT !.todo = rest]]
       IN \/ Locked(y) /\ skip /\ UNCHANGED <<key, fails>>
          \/ Failing /\ skip /\ UNCHANGED key
          \/ Failing /\ skip /\ ~Locked(y) /\ Acquire(y)
          \/ /\ ~Locked(y) /\ Acquire(y)
             /\ poll' = [poll EXCEPT ![p] = [at |-> "submit", todo |-> rest, y |-> y]]
             /\ UNCHANGED fails
  /\ UNCHANGED <<row, job, force, forced, freed>>

Submit(p) ==
  /\ poll[p].at = "submit"
  /\ EnqueueJobIn(poll[p].y)
  /\ poll' = [poll EXCEPT ![p] = IF @.todo = {} THEN Resting
                                 ELSE [@ EXCEPT !.at = "next", !.y = None]]
  /\ UNCHANGED <<row, force, forced>>

-----------------------------------------------------------------------------
\* A reviewer asks for another analysis: the row goes first.
PriorityQueueYaml ==
  /\ force = NoRequest /\ forced < MaxForced
  /\ \E y \in Yamls :
       /\ DbResetYamlAnalysisStatus(y)
       /\ force' = [at |-> "release", y |-> y]
  /\ forced' = forced + 1
  /\ UNCHANGED <<key, job, poll, fails, freed>>

\* Then the key, if Valkey answers: an error is only logged.
ForceRelease ==
  /\ force.at = "release"
  /\ \/ GiveUpKey(force.y) /\ UNCHANGED fails
     \/ Failing /\ UNCHANGED <<key, freed>>
  /\ force' = [force EXCEPT !.at = "acquire"]
  /\ UNCHANGED <<row, job, poll, forced>>

\* Then the key again: somebody else may have it by now. An error ends the request, before or after
\* it has the key.
ForceAcquire ==
  /\ force.at = "acquire"
  /\ \/ Locked(force.y) /\ force' = NoRequest /\ UNCHANGED <<key, fails>>
     \/ ~Locked(force.y) /\ Acquire(force.y) /\ force' = [force EXCEPT !.at = "submit"]
                         /\ UNCHANGED fails
     \/ Failing /\ force' = NoRequest /\ UNCHANGED key
     \/ Failing /\ force' = NoRequest /\ ~Locked(force.y) /\ Acquire(force.y)
  /\ UNCHANGED <<row, job, poll, forced, freed>>

ForceSubmit ==
  /\ force.at = "submit"
  /\ EnqueueJobIn(force.y)
  /\ force' = NoRequest
  /\ UNCHANGED <<row, poll, forced>>

-----------------------------------------------------------------------------
\* Whether a worker that pops the job gets it
Claimable(i) == job[i] # None /\ ~job[i].running /\ job[i].age <= Deadline

\* A worker gets the job.
Claim(i) ==
  /\ Claimable(i)
  /\ job' = [job EXCEPT ![i].running = TRUE]
  /\ UNCHANGED <<row, key, poll, force, fails, forced, freed>>

\* It is popped after its deadline and cancelled: nobody hears of it.
Expire(i) ==
  /\ job[i] # None /\ ~job[i].running /\ ~Claimable(i)
  /\ job' = [job EXCEPT ![i] = None]
  /\ UNCHANGED <<row, key, poll, force, fails, forced, freed>>

\* The callback stores a success, a failure and an internal error alike.
SetYamlAnalysisStatus(i) ==
  /\ job[i] # None /\ job[i].running
  /\ DbSetYamlAnalysisStatus(job[i].y, i)
  /\ job' = [job EXCEPT ![i] = None]
  /\ UNCHANGED <<key, poll, force, fails, forced, freed>>

\* No connection, or a success that cannot be stored: the key is released for another try.
CallbackFails(i) ==
  /\ job[i] # None /\ job[i].running /\ Failing
  /\ ReleaseInflightKey(job[i].y)
  /\ job' = [job EXCEPT ![i] = None]
  /\ UNCHANGED <<row, poll, force, forced, freed>>

\* A failure that cannot be stored, or a success without a result: the key stays.
CallbackDrops(i) ==
  /\ job[i] # None /\ job[i].running /\ Failing
  /\ job' = [job EXCEPT ![i] = None]
  /\ UNCHANGED <<row, key, poll, force, forced, freed>>

\* A worker is lost: its job is queued again.
ReclaimJob(i) ==
  /\ job[i] # None /\ job[i].running /\ Failing
  /\ job' = [job EXCEPT ![i].running = FALSE]
  /\ UNCHANGED <<row, key, poll, force, forced, freed>>

\* What is left of a key's time to live (a key without one has more than TTL)
Older(k) == IF k \in 1..TTL THEN k - 1 ELSE k

\* Half an hour passes: never between the two commands that take a key and queue the job, and
\* past the deadline of a job that waits only as often as something may fail. An analysis that
\* runs ends before the key: INFLIGHT_TTL_SECS is "safely longer than max analysis time".
Tick ==
  /\ IF \E i \in Ids : Claimable(i) /\ job[i].age = Deadline THEN Failing ELSE UNCHANGED fails
  /\ \A p \in Pollers : poll[p].at # "submit"
  /\ force.at # "submit"
  /\ ~\E i \in Ids : job[i] # None /\ job[i].running /\ job[i].age + 1 = TTL
  /\ key' = [y \in Yamls |-> Older(key[y])]
  /\ job' = [i \in Ids |-> IF job[i] = None THEN None
                          ELSE [job[i] EXCEPT !.age = IF @ < TTL THEN @ + 1 ELSE @]]
  /\ UNCHANGED <<row, poll, force, forced, freed>>

JobStep(i) == Claim(i) \/ Expire(i) \/ SetYamlAnalysisStatus(i)
PollStep(p) == GetUnanalyzedYamls(p) \/ TakeKey(p) \/ Submit(p)
ForceStep == ForceRelease \/ ForceAcquire \/ ForceSubmit

Next ==
  \/ \E p \in Pollers : PollStep(p)
  \/ PriorityQueueYaml \/ ForceStep
  \/ \E i \in Ids : JobStep(i) \/ CallbackFails(i) \/ CallbackDrops(i) \/ ReclaimJob(i)
  \/ Tick

\* The pollers' timer, the request, the workers and the clock go on.
Fairness ==
  /\ \A p \in Pollers : WF_vars(PollStep(p))
  /\ \A i \in Ids : WF_vars(JobStep(i))
  /\ WF_vars(ForceStep) /\ WF_vars(Tick)

Spec == Init /\ [][Next]_vars /\ Fairness

-----------------------------------------------------------------------------
\* A job that runs, or that a worker could get
Live(i) == job[i] # None /\ (job[i].running \/ Claimable(i))

(* A YAML has at most one job that runs or may run, and one more for each  *)
(* time its key was given up while a job may run: by a request that forces *)
(* another analysis, or by a submission whose reply was lost. However the  *)
(* processes that poll interleave and whatever else fails, no other job is *)
(* queued: the key outlives the deadline of the job it was taken for, and  *)
(* who releases the key of another has no job of its own any more.         *)
OneJobAtATime ==
  \A y \in Yamls : Cardinality({i \in Ids : Live(i) /\ job[i].y = y}) <= 1 + freed[y]

(* Every YAML is analysed in the end, whatever was lost on the way: no key *)
(* blocks a YAML without a job for ever, and no job keeps failing for ever.*)
AnalysedInTheEnd == \A y \in Yamls : (row[y] = None) ~> (row[y] # None)
=============================================================================
