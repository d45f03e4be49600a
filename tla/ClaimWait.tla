------------------------------ MODULE ClaimWait ------------------------------
(***************************************************************************)
(* How long claim_job_in (wq/src/lib.rs) keeps looking for a job: its loop *)
(* of ZPOPMIN and tokio::time::timeout(remaining_time, rx.recv()).  Every  *)
(* message on the partition's channel, the confirmation of the             *)
(* subscription being the first, shortens remaining_time by the time since *)
(* the START of the call.  Time is counted in ticks since then; a look at  *)
(* the queue takes no time.  wait_for_job has the same loop.               *)
(***************************************************************************)
EXTENDS Integers

CONSTANT ClaimLimit    \* with_claim_timeout, 30 s by default

VARIABLES
    now,         \* Instant::now() - start
    remaining,   \* remaining_time
    since,       \* when the current rx.recv() began
    got          \* "waiting", or what the call returned: "job" or "none"

waitVars == <<now, remaining, since, got>>

WaitTypeOK ==
    /\ now \in Nat /\ remaining \in Nat /\ since \in Nat
    /\ got \in {"waiting", "job", "none"}

WaitInit == now = 0 /\ remaining = ClaimLimit /\ since = 0 /\ got = "waiting"

(* Time passes until the timer of the current recv is due. *)
Tick ==
    /\ got = "waiting" /\ now < since + remaining
    /\ now' = now + 1
    /\ UNCHANGED <<remaining, since, got>>

(* The timer of the current recv fires. *)
RecvTimeout ==
    /\ got = "waiting" /\ now = since + remaining
    /\ got' = "none"
    /\ UNCHANGED <<now, remaining, since>>

(* A message arrives: checked_sub, then another look at the queue, where   *)
(* there is a job or somebody else already took it.                        *)
Message ==
    /\ got = "waiting"
    /\ \/ /\ now > remaining
          /\ got' = "none"
          /\ UNCHANGED <<remaining, since>>
       \/ /\ now <= remaining
          /\ remaining' = remaining - now
          /\ \/ got' = "job" /\ UNCHANGED since
             \/ got' = "waiting" /\ since' = now
    /\ UNCHANGED now

WaitNext == Tick \/ RecvTimeout \/ Message

WaitSpec == WaitInit /\ [][WaitNext]_waitVars

-----------------------------------------------------------------------------
(* However often it is woken for nothing, a call of claim_job_in keeps its *)
(* worker no longer than claim_timeout: a timer never ends after it.       *)
WithinTimeout == now <= ClaimLimit

(* The timer of the current recv is due by the end of claim_timeout, and   *)
(* not in the past.                                                        *)
TimerDue ==
    /\ WaitTypeOK
    /\ since <= now /\ now <= ClaimLimit
    /\ got = "waiting" => now <= since + remaining
    /\ since + remaining <= ClaimLimit
=============================================================================
