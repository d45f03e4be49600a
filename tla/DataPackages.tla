----------------------------- MODULE DataPackages -----------------------------
(***************************************************************************)
(* apx: the data packages of the rooms (datapackage.go).  Rooms share      *)
(* packages through a global cache: a wrapper per checksum and game, which *)
(* counts the rooms that hold it, and under it the package of a checksum,  *)
(* which counts its wrappers.  A room fetches its packages before clients  *)
(* can reach it and gives them back when it is removed; the steps of       *)
(* several rooms interleave, each under the cache's lock.  A request is    *)
(* answered from a ready response where there is one.                      *)
(***************************************************************************)
EXTENDS Naturals, Sequences, FiniteSets

CONSTANTS
  Rooms,
  Games,
  Checksum,    \* Checksum[r][g]: the checksum room r's server reports for game g
  Info,        \* Info[r]: the games in the RoomInfo of room r
  Optimized,   \* rooms with fullGameResponseOptimization
  MaxRequest   \* bound: games named in a request

Checksums == {Checksum[r][g] : r \in Rooms, g \in Games}
Keys == Checksums \X Games

VARIABLES
  byGameKey,   \* refCount of the wrapper of a checksum and game, 0 if there is none
  byChecksum,  \* refCount of the package of a checksum, 0 if there is none
  room         \* [pc, todo, packages]: where a room is, and the games its store holds

vars == <<byGameKey, byChecksum, room>>

Absent == [pc |-> "absent", todo |-> {}, packages |-> {}]

Init ==
  /\ byGameKey = [k \in Keys |-> 0]
  /\ byChecksum = [x \in Checksums |-> 0]
  /\ room = [r \in Rooms |-> Absent]

(* prefetchDataPackages: the server need not answer with all the games.    *)
Prefetch(r) ==
  /\ room[r].pc = "absent"
  /\ \E answer \in SUBSET Info[r] :
       room' = [room EXCEPT ![r] = [Absent EXCEPT !.pc = "adding", !.todo = answer]]
  /\ UNCHANGED <<byGameKey, byChecksum>>

(* Mistake: a package that is in the cache is not counted once more for a  *)
(* new wrapper.                                                            *)
GetOrAddUncounted(x, g) ==
  /\ byGameKey' = [byGameKey EXCEPT ![<<x, g>>] = @ + 1]
  /\ byChecksum' = [byChecksum EXCEPT ![x] = IF @ = 0 THEN 1 ELSE @]

(* GetOrAdd: a wrapper that is there is counted; a new one counts as a     *)
(* reference to its package.                                               *)
GetOrAdd(x, g) ==
  /\ byGameKey' = [byGameKey EXCEPT ![<<x, g>>] = @ + 1]
  /\ byChecksum' = [byChecksum EXCEPT ![x] = IF byGameKey[<<x, g>>] > 0 THEN @ ELSE @ + 1]

(* AddDataPackage, attachWrapper                                           *)
AddDataPackage(r, g) ==
  /\ room[r].pc = "adding" /\ g \in room[r].todo
  /\ GetOrAdd(Checksum[r][g], g)
  /\ room' = [room EXCEPT ![r].todo = @ \ {g}, ![r].packages = @ \cup {g}]

Ready(r) ==
  /\ room[r].pc = "adding" /\ room[r].todo = {}
  /\ room' = [room EXCEPT ![r].pc = "ready"]
  /\ UNCHANGED <<byGameKey, byChecksum>>

(* Release, for all the room's keys under one lock: a wrapper nobody holds *)
(* goes, and with the last wrapper the package.                            *)
Release(r) ==
  LET keys == {<<Checksum[r][g], g>> : g \in room[r].packages}
      gone == {k \in keys : byGameKey[k] <= 1}
  IN  /\ room[r].pc = "ready"
      /\ byGameKey' = [k \in Keys |-> IF k \in keys THEN byGameKey[k] - 1 ELSE byGameKey[k]]
      /\ byChecksum' = [x \in Checksums |->
                          byChecksum[x] - Cardinality({k \in gone : k[1] = x})]
      /\ room' = [room EXCEPT ![r] = Absent]

Next == \E r \in Rooms : Prefetch(r) \/ (\E g \in Games : AddDataPackage(r, g)) \/ Ready(r) \/ Release(r)

Spec == Init /\ [][Next]_vars

-----------------------------------------------------------------------------
(* handleGetDataPackage, sendDataPackages: the games of an answer          *)

NamesOf(request) == {request[i] : i \in DOMAIN request}

(* Nothing named is everything asked; names the room does not have are     *)
(* left out, repeated ones are not.                                        *)
Wanted(r, request) ==
  IF request = << >> THEN [n |-> Cardinality(Info[r]), names |-> Info[r]]
  ELSE [n |-> Cardinality({i \in DOMAIN request : request[i] \in Info[r]}),
        names |-> NamesOf(request) \cap Info[r]]

(* One game: its ready response.  As many as the room has packages: the    *)
(* ready response for all of them, if the room is large.  Otherwise one is *)
(* built.  A game without a package is an error ("error" in the answer).   *)
SendDataPackages(r, request) ==
  LET w == Wanted(r, request)
      held == room[r].packages
  IN  IF w.n # 1 /\ r \in Optimized /\ w.n = Cardinality(held) THEN held
      ELSE IF w.names \subseteq held THEN w.names
      ELSE {"error"}

GameLists == UNION {[1 .. n -> Games] : n \in 0 .. MaxRequest}

-----------------------------------------------------------------------------
\* The rooms that hold the wrapper of a checksum and game, and the wrappers of a checksum
Holders(k) == {r \in Rooms : k[2] \in room[r].packages /\ Checksum[r][k[2]] = k[1]}
Wrappers(x) == {k \in Keys : k[1] = x /\ byGameKey[k] > 0}

(* GlobalDataPackageCache: a wrapper counts the rooms that hold its game,  *)
(* a package its wrappers, and what no room holds is gone from the cache,  *)
(* however rooms start and stop at the same time.                          *)
CountsAreExact ==
  /\ \A k \in Keys : byGameKey[k] = Cardinality(Holders(k))
  /\ \A x \in Checksums : byChecksum[x] = Cardinality(Wrappers(x))

(* sendDataPackages: a client is answered with every game of the room it   *)
(* asked for, if the server sent its package, also when it names a game    *)
(* twice or one the room does not have, and with more than that only in a  *)
(* large room.                                                             *)
AnswersWhatIsAsked ==
  \A r \in Rooms : room[r].pc = "ready" => \A request \in GameLists :
    LET w == Wanted(r, request).names
        answer == SendDataPackages(r, request)
    IN  w \subseteq room[r].packages =>
          /\ w \subseteq answer /\ answer \subseteq Info[r]
          /\ r \notin Optimized => answer = w

(* GlobalDataPackageCache: references to packages are counted exactly      *)
(* while rooms come and go, and a client is answered with the games it     *)
(* asks for.                                                               *)
PackagesServed == CountsAreExact /\ AnswersWhatIsAsked
=============================================================================
