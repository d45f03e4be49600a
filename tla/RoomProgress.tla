----------------------------- MODULE RoomProgress -----------------------------
(***************************************************************************)
(* apx: the locations checked in a hosted room (api.go).  Every 30 seconds *)
(* a poller fetches them from the Archipelago server, and so does the      *)
(* killer of idle rooms before it kills; what changed makes the cached     *)
(* answers about spheres dirty and counts as activity.  Requests answer    *)
(* from the cache, fill it, and note who is through with sphere 1.         *)
(*                                                                         *)
(* Each store has a lock of its own, so a refresh is four steps (fetch,    *)
(* compare, note the activity, set) and a request three (look, read, put), *)
(* and they interleave.  A slot's answer is the set of checked locations   *)
(* it was made from.  Locations are only ever added on the server.         *)
(***************************************************************************)
EXTENDS Integers, FiniteSets

CONSTANTS
  Slots,      \* slots of the room
  Locations,  \* locations of a slot
  SphereOne,  \* those of them in the first sphere
  Requests,   \* requests about spheres that run at the same time
  Timeout,    \* the killer's timeout
  MaxTime,    \* bound: the clock
  MaxFails,   \* bound: fetches that fail
  None

VARIABLES
  server,     \* the locations checked on the Archipelago server
  checked,    \* CheckedLocations: what apx knows of them
  cache,      \* slotSphereCache.data, None where there is nothing
  dirty,      \* slotSphereCache.dirty
  complete,   \* completeSphere1Slots
  activity,   \* lastActivity
  now,        \* the clock
  refresh,    \* the poller's and the killer's refresh
  request,    \* the requests about a slot's spheres
  killed,     \* what the killer went by, once it removed the room
  progress,   \* history: when the server last got a location
  overlap,    \* history: slots with a request that overlapped a refresh
  fails       \* bound: fetches that failed

vars == <<server, checked, cache, dirty, complete, activity, now, refresh, request, killed,
          progress, overlap, fails>>

Progress == [Slots -> SUBSET Locations]
Refreshers == {"poller", "killer"}
Refresh == [pc : {"idle", "fetch", "compare", "activity", "set", "decide"},
            new : Progress, changed : BOOLEAN, deadline : Int, upTo : Int, ok : BOOLEAN]
Resting == [pc |-> "idle", new |-> [s \in Slots |-> {}], changed |-> FALSE,
            deadline |-> 0, upTo |-> 0, ok |-> TRUE]
Request == [pc : {"idle", "read", "put"}, slot : Slots \cup {None}, read : SUBSET Locations]
NoRequest == [pc |-> "idle", slot |-> None, read |-> {}]

Init ==
  /\ server = [s \in Slots |-> {}]
  /\ checked = [s \in Slots |-> {}]
  /\ cache = [s \in Slots |-> None]
  /\ dirty = [s \in Slots |-> FALSE]
  /\ complete = {}
  /\ activity = 0 /\ now = 0 /\ progress = 0 /\ fails = 0
  /\ refresh = [p \in Refreshers |-> Resting]
  /\ request = [q \in Requests |-> NoRequest]
  /\ killed = None
  /\ overlap = {}

-----------------------------------------------------------------------------
(* The clock and the server                                                *)

Tick ==
  /\ now < MaxTime
  /\ now' = now + 1
  /\ UNCHANGED <<server, checked, cache, dirty, complete, activity, refresh, request, killed,
                 progress, overlap, fails>>

Check(s, l) ==
  /\ l \notin server[s]
  /\ server' = [server EXCEPT ![s] = @ \cup {l}]
  /\ progress' = now
  /\ UNCHANGED <<checked, cache, dirty, complete, activity, now, refresh, request, killed,
                 overlap, fails>>

-----------------------------------------------------------------------------
(* refreshCheckedLocations                                                 *)

Goto(p, pc) == [refresh EXCEPT ![p].pc = pc]

(* Requests under way when something of a refresh is visible.              *)
Overlapping == {request[q].slot : q \in {x \in Requests : request[x].pc # "idle"}}

(* The poller's timer has run out; its context ends with the room.         *)
Poll ==
  /\ refresh["poller"].pc = "idle" /\ killed = None
  /\ refresh' = Goto("poller", "fetch")
  /\ UNCHANGED <<server, checked, cache, dirty, complete, activity, now, request, killed,
                 progress, overlap, fails>>

(* Mistake: the poller's loop ends with its first refresh.                 *)
AfterRefreshOnce(p) == "decide"

AfterRefresh(p) == IF p = "killer" THEN "decide" ELSE "idle"

Fetch(p) ==
  /\ refresh[p].pc = "fetch"
  /\ refresh' = [refresh EXCEPT ![p].pc = "compare", ![p].new = server, ![p].ok = TRUE,
                                ![p].upTo = progress]
  /\ UNCHANGED <<server, checked, cache, dirty, complete, activity, now, request, killed,
                 progress, overlap, fails>>

FetchFails(p) ==
  /\ refresh[p].pc = "fetch" /\ fails < MaxFails
  /\ fails' = fails + 1
  /\ refresh' = [refresh EXCEPT ![p].pc = AfterRefresh(p), ![p].ok = FALSE]
  /\ UNCHANGED <<server, checked, cache, dirty, complete, activity, now, request, killed,
                 progress, overlap>>

(* A slot has changed if the number of its locations has.                  *)
Changed(new) == {s \in Slots : Cardinality(checked[s]) # Cardinality(new[s])}

Compare(p) ==
  LET changed == Changed(refresh[p].new)
  IN  /\ refresh[p].pc = "compare"
      /\ dirty' = [s \in Slots |-> dirty[s] \/ s \in changed]
      /\ refresh' = [refresh EXCEPT ![p].pc = "activity", ![p].changed = changed # {}]
      /\ overlap' = overlap \cup Overlapping
      /\ UNCHANGED <<server, checked, cache, complete, activity, now, request, killed,
                     progress, fails>>

(* Mistake: what the killer itself finds does not count.                   *)
NoteActivityOfPoller(p) ==
  /\ refresh[p].pc = "activity"
  /\ activity' = IF refresh[p].changed /\ p = "poller" THEN now ELSE activity
  /\ refresh' = Goto(p, "set")
  /\ UNCHANGED <<server, checked, cache, dirty, complete, now, request, killed, progress,
                 overlap, fails>>

NoteActivity(p) ==
  /\ refresh[p].pc = "activity"
  /\ activity' = IF refresh[p].changed THEN now ELSE activity
  /\ refresh' = Goto(p, "set")
  /\ UNCHANGED <<server, checked, cache, dirty, complete, now, request, killed, progress,
                 overlap, fails>>

SetChecked(p) ==
  /\ refresh[p].pc = "set"
  /\ checked' = refresh[p].new
  /\ refresh' = [refresh EXCEPT ![p].pc = AfterRefresh(p), ![p].new = Resting.new,
                                ![p].changed = FALSE]
  /\ overlap' = overlap \cup Overlapping
  /\ UNCHANGED <<server, cache, dirty, complete, activity, now, request, killed, progress, fails>>

-----------------------------------------------------------------------------
(* startRoomKiller                                                         *)

KillerLooks ==
  /\ refresh["killer"].pc = "idle" /\ killed = None
  /\ activity < now - Timeout
  /\ refresh' = [refresh EXCEPT !["killer"].pc = "fetch", !["killer"].deadline = now - Timeout]
  /\ UNCHANGED <<server, checked, cache, dirty, complete, activity, now, request, killed,
                 progress, overlap, fails>>

KillerDecides ==
  LET k == refresh["killer"]
  IN  /\ k.pc = "decide"
      /\ refresh' = [refresh EXCEPT !["killer"] = Resting]
      /\ killed' = IF activity < k.deadline /\ killed = None
                   THEN [ok |-> k.ok, upTo |-> k.upTo, deadline |-> k.deadline]
                   ELSE killed
      /\ UNCHANGED <<server, checked, cache, dirty, complete, activity, now, request, progress,
                     overlap, fails>>

-----------------------------------------------------------------------------
(* handleSpheresForSlot, and handleAllSpheres for each slot in turn        *)

(* A hit is answered at once and changes nothing.                          *)
Hit(s) == ~dirty[s] /\ cache[s] # None

Ask(q, s) ==
  /\ request[q].pc = "idle" /\ ~Hit(s)
  /\ request' = [request EXCEPT ![q] = [pc |-> "read", slot |-> s, read |-> {}]]
  /\ overlap' = IF \E p \in Refreshers : refresh[p].pc \in {"activity", "set"}
                THEN overlap \cup {s} ELSE overlap
  /\ UNCHANGED <<server, checked, cache, dirty, complete, activity, now, refresh, killed,
                 progress, fails>>

ReadChecked(q) ==
  /\ request[q].pc = "read"
  /\ request' = [request EXCEPT ![q].pc = "put", ![q].read = checked[request[q].slot]]
  /\ UNCHANGED <<server, checked, cache, dirty, complete, activity, now, refresh, killed,
                 progress, overlap, fails>>

Put(q) ==
  LET s == request[q].slot
  IN  /\ request[q].pc = "put"
      /\ cache' = [cache EXCEPT ![s] = request[q].read]
      /\ dirty' = [dirty EXCEPT ![s] = FALSE]
      /\ request' = [request EXCEPT ![q] = NoRequest]
      /\ UNCHANGED <<server, checked, complete, activity, now, refresh, killed, progress,
                     overlap, fails>>

-----------------------------------------------------------------------------
(* handleIncompleteSphere1                                                 *)

IsSphere1Incomplete(locs) == \E l \in SphereOne : l \notin locs

(* A slot that was complete once is not looked at again.                   *)
Incomplete ==
  /\ complete' = complete \cup {s \in Slots : ~IsSphere1Incomplete(checked[s])}
  /\ UNCHANGED <<server, checked, cache, dirty, activity, now, refresh, request, killed,
                 progress, overlap, fails>>

-----------------------------------------------------------------------------
RefreshStep(p) ==
  Fetch(p) \/ FetchFails(p) \/ Compare(p) \/ NoteActivity(p) \/ SetChecked(p)

Next ==
  \/ Tick
  \/ \E s \in Slots, l \in Locations : Check(s, l)
  \/ Poll \/ KillerLooks \/ KillerDecides
  \/ \E p \in Refreshers : RefreshStep(p)
  \/ \E q \in Requests : (\E s \in Slots : Ask(q, s)) \/ ReadChecked(q) \/ Put(q)
  \/ Incomplete

(* Goroutines are scheduled: the poller's timer fires, and a refresh that  *)
(* has begun goes on.  A fetch fails finitely often.                       *)
Fairness ==
  /\ WF_vars(Poll)
  /\ \A p \in Refreshers : WF_vars(RefreshStep(p))
  /\ WF_vars(KillerDecides)

Spec == Init /\ [][Next]_vars /\ Fairness

-----------------------------------------------------------------------------
TypeOK ==
  /\ server \in Progress /\ checked \in Progress
  /\ cache \in [Slots -> (SUBSET Locations) \cup {None}]
  /\ dirty \in [Slots -> BOOLEAN]
  /\ complete \subseteq Slots /\ overlap \subseteq Slots
  /\ {activity, now, progress, fails} \subseteq Int
  /\ refresh \in [Refreshers -> Refresh]
  /\ request \in [Requests -> Request]

Quiet == \A p \in Refreshers : refresh[p].pc \in {"idle", "fetch", "compare", "decide"}

(* "Invalidate cache for any slot whose checked locations changed"         *)
(* (api.go:1664): between refreshes an answer in the cache that is not     *)
(* dirty is made from the locations apx knows, if no request about the     *)
(* slot has overlapped a refresh.                                          *)
CacheIsFresh ==
  Quiet => \A s \in Slots \ overlap : Hit(s) => cache[s] = checked[s]

(* completeSphere1Slots: who is noted as through with sphere 1 is so on    *)
(* the server, although two refreshes that overlap may set back what apx   *)
(* knows, and stays so.                                                    *)
CompleteIsComplete == \A s \in complete : SphereOne \subseteq server[s]

(* startRoomKiller: "do a check just incase a check came in the last       *)
(* period between checks" (api.go:1862).  A room is killed only if no      *)
(* location was checked since the deadline, up to the fetch the killer     *)
(* made, unless that fetch failed.                                         *)
KilledWasIdle == killed # None => (~killed.ok \/ killed.upTo < killed.deadline)

(* refreshCheckedLocations, the poller and the killer: a cached answer     *)
(* about spheres is up to date between refreshes, who is noted as through  *)
(* with sphere 1 is, and a room is killed only if nothing was checked in   *)
(* it since the deadline.                                                  *)
ProgressIsTrue == TypeOK /\ CacheIsFresh /\ CompleteIsComplete /\ KilledWasIdle

(* The poller: what apx knows catches up with the server, once the server  *)
(* stops changing, unless the room is killed.                              *)
CatchesUp == <>[](killed # None \/ checked = server)
=============================================================================
