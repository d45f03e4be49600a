----------------------------- MODULE Dashboard -----------------------------
(* The dashboard of a hosted room in community-ap-tools: what it shows of  *)
(* the room is cached twice (ApRoomCache, TrackerInfoCache), moderators    *)
(* change the room at apx and at the lobby through it, every change drops  *)
(* the cached answer, and a change of passwords makes apx load them again. *)
(* The cache's lock is held while an answer is put together.               *)
EXTENDS Integers, FiniteSets

CONSTANTS Readers, Writers,  \* requests that show and requests that change
          Owners, Passwords, \* of the one YAML that is watched
          TTL,               \* of both caches, in ticks of the clock
          MaxChanges, MaxErrors, None

VARIABLES
  apx,      \* the switches that are on for the slot at apx
  lobby,    \* the slot's owner and password at the lobby
  store,    \* the slot's password at apx
  apRoom,   \* ApRoomCache: the age of what it has of the AP tracker
  cache,    \* TrackerInfoCache: its age and the answer it holds
  lock,     \* who has the cache's lock
  reader, writer, \* the requests
  answer,   \* the last answer that was given out, if no change has begun since
  overlap,  \* history: the passwords at apx may be of an overlapping load, or not loaded since a change
  changes, errors

vars == <<apx, lobby, store, apRoom, cache, lock, reader, writer, answer, overlap, changes, errors>>

Switches == {"tag_excluded", "slot_excluded", "full_feed"}
Idle == [at |-> "idle"]
Quiet == \A w \in Writers : writer[w] = Idle
Failing == errors < MaxErrors /\ errors' = errors + 1

Init ==
  /\ apx = {} /\ store \in Passwords
  /\ lobby \in [owner : Owners, password : {store}]
  /\ apRoom = None /\ cache = None /\ lock = None
  /\ reader = [r \in Readers |-> Idle]
  /\ writer = [w \in Writers |-> Idle]
  /\ answer = None /\ overlap = FALSE
  /\ changes = 0 /\ errors = 0

Show(r, s) == reader' = [reader EXCEPT ![r] = s]
Go(w, s) == writer' = [writer EXCEPT ![w] = s]

-----------------------------------------------------------------------------

\* The guard ApRoom: the cached tracker while it is fresh, else another one
FromRequestApRoom ==
  IF apRoom # None /\ apRoom < TTL THEN apRoom' = apRoom ELSE apRoom' = 0

\* A moderator looks at the tracker: the guards get the AP tracker and the lobby's room.
\* `clean' remembers whether nothing has been changing since.
GetTrackerInfo(r) ==
  /\ reader[r] = Idle
  /\ FromRequestApRoom
  /\ Show(r, [at |-> "lock", info |-> apRoom', owner |-> lobby.owner, clean |-> Quiet])
  /\ UNCHANGED <<apx, lobby, store, cache, lock, writer, answer, overlap, changes, errors>>

\* With the lock: the cached answer while it is fresh
Cached(r) ==
  /\ reader[r].at = "lock" /\ lock = None
  /\ cache # None /\ cache.age < TTL
  /\ answer' = [said |-> cache.said, clean |-> reader[r].clean]
  /\ Show(r, Idle)
  /\ UNCHANGED <<apx, lobby, store, apRoom, cache, lock, writer, overlap, changes, errors>>

\* Otherwise the lock is kept over the requests to apx, unless the tracker and the lobby differ in
\* the number of slots: an error.
Miss(r) ==
  /\ reader[r].at = "lock" /\ lock = None
  /\ ~(cache # None /\ cache.age < TTL)
  /\ \/ lock' = r /\ Show(r, [reader[r] EXCEPT !.at = "fetch"])
     \/ Show(r, Idle) /\ UNCHANGED lock
  /\ UNCHANGED <<apx, lobby, store, apRoom, cache, writer, answer, overlap, changes, errors>>

\* fetch_room_state: if apx does not answer, a room in which nothing is switched on
FetchRoomState(r) ==
  /\ reader[r].at = "fetch"
  /\ \/ Show(r, [at |-> "merge", clean |-> reader[r].clean,
                 said |-> [on |-> apx, owner |-> reader[r].owner, info |-> reader[r].info, sure |-> TRUE]])
        /\ UNCHANGED errors
     \/ Show(r, [at |-> "merge", clean |-> reader[r].clean,
                 said |-> [on |-> {}, owner |-> reader[r].owner, info |-> reader[r].info, sure |-> FALSE]])
        /\ Failing
  /\ UNCHANGED <<apx, lobby, store, apRoom, cache, lock, writer, answer, overlap, changes>>

\* The answer is cached and given out.
MergeSlots(r) ==
  /\ reader[r].at = "merge"
  /\ cache' = [age |-> 0, said |-> reader[r].said]
  /\ answer' = [said |-> reader[r].said, clean |-> reader[r].clean]
  /\ lock' = None
  /\ Show(r, Idle)
  /\ UNCHANGED <<apx, lobby, store, apRoom, writer, overlap, changes, errors>>

-----------------------------------------------------------------------------
\* What the proxied requests ask of apx
ProxyAddExclusion(on) == on \cup {"tag_excluded"}
ProxyRemoveExclusion(on) == on \ {"tag_excluded"}
ProxyAddSlotExclusion(on) == on \cup {"slot_excluded"}
ProxyRemoveSlotExclusion(on) == on \ {"slot_excluded"}
AddFullFeed(on) == on \cup {"full_feed"}
RemoveFullFeed(on) == on \ {"full_feed"}

\* A moderator begins to change something: answers under way are not clean any more.
Begin(w) ==
  /\ writer[w] = Idle /\ changes < MaxChanges
  /\ changes' = changes + 1
  /\ reader' = [r \in Readers |-> IF reader[r] = Idle THEN Idle ELSE [reader[r] EXCEPT !.clean = FALSE]]
  /\ answer' = None

\* A request that is proxied to apx: sent, and to drop the cached answer afterwards
ProxyToApx(w) ==
  /\ Begin(w)
  /\ apx' \in {ProxyAddExclusion(apx), ProxyRemoveExclusion(apx), ProxyAddSlotExclusion(apx),
               ProxyRemoveSlotExclusion(apx), AddFullFeed(apx), RemoveFullFeed(apx)}
  /\ Go(w, [at |-> "drop"])
  /\ UNCHANGED <<lobby, store, apRoom, cache, lock, overlap, errors>>

\* The answer of apx is lost: the request errors, and nothing is dropped.
AnswerLost(w) ==
  /\ writer[w].at = "drop" /\ Failing
  /\ Go(w, Idle)
  /\ cache' = IF cache = None THEN None ELSE [cache EXCEPT !.said.sure = FALSE]
  /\ reader' = [r \in Readers |-> IF reader[r].at # "merge" THEN reader[r]
                                  ELSE [reader[r] EXCEPT !.said.sure = FALSE]]
  /\ UNCHANGED <<apx, lobby, store, apRoom, lock, answer, overlap, changes>>

\* Whether a load other than w's is between its two steps
Loading(w) == \E v \in Writers \ {w} : writer[v].at = "load"

\* What the lobby makes of a request: set_password takes any password, or none; gen_all_passwords
\* gives one to those who have none, one YAML after the other: when it fails on the way (LobbyAnswerLost), some have theirs.
LobbySetPassword(p) == lobby' = [lobby EXCEPT !.password = p]
LobbyGenAllPasswords == \E p \in Passwords : lobby' = [lobby EXCEPT !.password = IF @ = None THEN p ELSE @]
LobbyUpdateOwner(o) == \E p \in Passwords \cup {None} : lobby' = [owner |-> o, password |-> p]

\* Requests that change the lobby: passwords, or an owner and the password, which is none if it is
\* not given
SetPassword(w) ==
  /\ Begin(w)
  /\ \E p \in Passwords \cup {None} : LobbySetPassword(p)
  /\ Go(w, [at |-> "notify"])
  /\ UNCHANGED <<apx, store, apRoom, cache, lock, overlap, errors>>

GenAllPasswords(w) ==
  /\ Begin(w)
  /\ LobbyGenAllPasswords
  /\ Go(w, [at |-> "notify"])
  /\ UNCHANGED <<apx, store, apRoom, cache, lock, overlap, errors>>

ChangeYamlOwner(w) ==
  /\ Begin(w)
  /\ \E o \in Owners : LobbyUpdateOwner(o)
  /\ Go(w, [at |-> "notify"])
  /\ UNCHANGED <<apx, store, apRoom, cache, lock, overlap, errors>>

\* The lobby's answer is lost, or it is an error after the YAML was written: the request errors, apx is
\* not told and nothing is dropped.
LobbyAnswerLost(w) ==
  /\ writer[w].at = "notify" /\ Failing
  /\ Go(w, Idle)
  /\ overlap' = TRUE
  /\ UNCHANGED <<apx, lobby, store, apRoom, cache, lock, reader, answer, changes>>

\* notify_proxy_password_refresh: apx asks the lobby for the passwords
NotifyProxyPasswordRefresh(w) ==
  /\ writer[w].at = "notify"
  /\ Go(w, [at |-> "load", password |-> lobby.password])
  /\ overlap' = Loading(w)
  /\ UNCHANGED <<apx, lobby, store, apRoom, cache, lock, reader, answer, changes, errors>>

\* apx cannot be told, or cannot ask the lobby: only logged
NotifyFails(w) ==
  /\ writer[w].at = "notify" /\ Failing
  /\ Go(w, [at |-> "drop"])
  /\ overlap' = TRUE
  /\ UNCHANGED <<apx, lobby, store, apRoom, cache, lock, reader, answer, changes>>

\* apx stores what it was told.
LoadPasswordsIntoStore(w) ==
  /\ writer[w].at = "load"
  /\ store' = writer[w].password
  /\ Go(w, [at |-> "drop"])
  /\ UNCHANGED <<apx, lobby, apRoom, cache, lock, reader, answer, overlap, changes, errors>>

(* Mistake: a change does not drop the cached answer.                      *)
DropNothing(w) ==
  /\ writer[w].at = "drop" /\ lock = None
  /\ Go(w, Idle)
  /\ UNCHANGED <<apx, lobby, store, apRoom, cache, lock, reader, answer, overlap, changes, errors>>

\* The cached answer is dropped under the lock, and the request is over.
Drop(w) ==
  /\ writer[w].at = "drop" /\ lock = None
  /\ cache' = None
  /\ Go(w, Idle)
  /\ UNCHANGED <<apx, lobby, store, apRoom, lock, reader, answer, overlap, changes, errors>>

\* Time passes between requests: they are short against the caches' time to live.
Older(n) == IF n < 2 * TTL THEN n + 1 ELSE n
Tick ==
  /\ \A r \in Readers : reader[r] = Idle
  /\ apRoom' = IF apRoom = None THEN None ELSE Older(apRoom)
  /\ cache' = IF cache = None THEN None
              ELSE [age |-> Older(cache.age), said |-> [cache.said EXCEPT !.info = Older(@)]]
  /\ answer' = None
  /\ UNCHANGED <<apx, lobby, store, lock, reader, writer, overlap, changes, errors>>

Next ==
  \/ \E r \in Readers : GetTrackerInfo(r) \/ Cached(r) \/ Miss(r) \/ FetchRoomState(r) \/ MergeSlots(r)
  \/ \E w \in Writers :
       \/ ProxyToApx(w) \/ AnswerLost(w) \/ SetPassword(w) \/ GenAllPasswords(w) \/ ChangeYamlOwner(w)
       \/ LobbyAnswerLost(w)
       \/ NotifyProxyPasswordRefresh(w) \/ NotifyFails(w) \/ LoadPasswordsIntoStore(w) \/ Drop(w)
  \/ Tick

Spec == Init /\ [][Next]_vars

-----------------------------------------------------------------------------
(* When nothing has been changing since a request for the tracker began,   *)
(* its answer shows the switches as they are at apx, out of the cache too, *)
(* unless apx did not answer: no answer of before a change outlives it.    *)
ShowsWhatIs ==
  (answer # None /\ answer.clean /\ Quiet /\ answer.said.sure) => answer.said.on = apx

(* What the tracker says of the game is younger than both caches' time to  *)
(* live together.                                                          *)
AnswersAreRecent == answer # None => answer.said.info < 2 * TTL

(* Once nobody is changing anything, apx has the lobby's password, unless  *)
(* its last load overlapped another one or failed, or a change since then  *)
(* ended before apx was told of it.                                        *)
PasswordsAgree == (Quiet /\ ~overlap) => store = lobby.password

(* The dashboard's caches: it shows the switches as they are, what it      *)
(* shows is recent, and apx and the lobby agree on passwords once nothing  *)
(* is under way.                                                           *)
DashboardIsTrue == ShowsWhatIs /\ AnswersAreRecent /\ PasswordsAgree
=============================================================================
