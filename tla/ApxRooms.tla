------------------------------- MODULE ApxRooms -------------------------------
(***************************************************************************)
(* The hosted rooms of apx (HostedRooms) with what runs inside them: the   *)
(* poller, the killer and the requests about spheres of one room, the      *)
(* bounces of its clients, and the data packages its rooms share.  These   *)
(* touch none of each other's state; they are put together here to state   *)
(* what apx promises of them.                                              *)
(***************************************************************************)
EXTENDS HostedRooms, Sequences

CONSTANTS
  Locations, SphereOne, Timeout, MaxTime, MaxFails,
  Askers,       \* requests about spheres that run at the same time
  Clients, SlotOf, GameOf, TagsOf, Messages, Throttle, MaxSent, MaxEdits,
  BounceTime,   \* bound: the clock of the bounces
  Servers,      \* rooms with data packages
  Games, Checksum, Info, Optimized, MaxRequest

VARIABLES
  now,
  server, checked, cache, dirty, complete, activity, refresh, request, killed, progress,
  overlap, fails,
  isolated, excluded, certain, last, counts, task, accepts, sent, edits,
  byGameKey, byChecksum, room

P == INSTANCE RoomProgress WITH Requests <- Askers
B == INSTANCE Bounces WITH MaxTime <- BounceTime
D == INSTANCE DataPackages WITH Rooms <- Servers

-----------------------------------------------------------------------------
\* refreshCheckedLocations, the poller and the killer: a cached answer about spheres is up to date
\* between refreshes, who is noted as through with sphere 1 is, and a room is killed only if
\* nothing was checked in it since the deadline.
ProgressIsTrue == P!ProgressIsTrue

\* handleBounce, handleDeathLink and CanSendDeathlink: a bounce reaches nobody that limits or
\* exclusions keep from it, and everybody else that it names, whatever rules change on its way;
\* death links that pass are apart, whoever sends them at the same time.
BouncesAsRuled == B!DeliveredAsRuled /\ B!DeathsApart

\* GlobalDataPackageCache: references to packages are counted exactly while rooms come and go, and
\* a client is answered with the games it asks for.
PackagesServed == D!PackagesServed
=============================================================================
