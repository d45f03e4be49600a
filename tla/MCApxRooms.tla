------------------------------ MODULE MCApxRooms ------------------------------
(* Small instances of apx's hosted rooms and of what runs inside them: the *)
(* rooms themselves, the checked locations of a room, its bounces, and the  *)
(* data packages of its rooms. They share no state but a clock: a behaviour *)
(* follows one of them.                                                     *)
EXTENDS ApxRooms, TLC

CONSTANTS a, b, c

VARIABLE part

\* Clients a and b play slot 1, client c slot 2.
ThreeClients == {a, b, c}
TwoSlots == a :> 1 @@ b :> 1 @@ c :> 2
TwoGames == a :> "g" @@ b :> "h" @@ c :> "g"
SomeTags == a :> {"DeathLink"} @@ b :> {} @@ c :> {"DeathLink"}
TwoMessages == {[tags |-> {"DeathLink"}, games |-> {}, slots |-> {}],
                [tags |-> {}, games |-> {"g"}, slots |-> {1}]}

\* Games that share a checksum, and a game with another one in another room
SharedChecksums ==
  "r1" :> ("a" :> "x" @@ "b" :> "x" @@ "c" :> "y") @@
  "r2" :> ("a" :> "x" @@ "b" :> "z" @@ "c" :> "y") @@
  "r3" :> ("a" :> "z" @@ "b" :> "x" @@ "c" :> "y")
RoomInfos == "r1" :> {"a", "b"} @@ "r2" :> {"a", "b", "c"} @@ "r3" :> {"a", "c"}

progressVars == <<server, checked, cache, dirty, complete, activity, refresh, request, killed,
                  progress, overlap, fails>>
bounceVars == <<isolated, excluded, certain, last, counts, task, accepts, sent, edits>>
packageVars == <<byGameKey, byChecksum, room>>

ApxInit ==
  /\ part \in {"rooms", "progress", "bounces", "packages"}
  /\ Init /\ (part # "rooms" => made.taken = {})
  /\ P!Init /\ B!Init /\ D!Init

runtimeVars == <<now, progressVars, bounceVars, packageVars>>
ApxNext ==
  /\ UNCHANGED part
  /\ \/ part = "rooms" /\ Next /\ UNCHANGED runtimeVars
     \/ part = "progress" /\ P!Next /\ UNCHANGED <<vars, bounceVars, packageVars>>
     \/ part = "bounces" /\ B!Next /\ UNCHANGED <<vars, progressVars, packageVars>>
     \/ part = "packages" /\ D!Next /\ UNCHANGED <<vars, now, progressVars, bounceVars>>

progressRun == <<now, progressVars>>

\* Goroutines are scheduled: the poller's timer fires, and a refresh that has begun goes on.
Fairness ==
  /\ WF_progressRun(part = "progress" /\ P!Poll)
  /\ \A p \in P!Refreshers : WF_progressRun(part = "progress" /\ P!RefreshStep(p))
  /\ WF_progressRun(part = "progress" /\ P!KillerDecides)

ApxSpec == ApxInit /\ [][ApxNext]_<<part, vars, runtimeVars>> /\ Fairness

-----------------------------------------------------------------------------
\* The poller: what apx knows of the checked locations catches up with the server, once the server
\* stops changing, unless the room is killed.
CatchesUp == part = "progress" => P!CatchesUp
=============================================================================
