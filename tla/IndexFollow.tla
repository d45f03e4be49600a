----------------------------- MODULE IndexFollow -----------------------------
(***************************************************************************)
(* How the lobby processes stay on one commit of the apworld index         *)
(* (lobby/src/index_manager.rs).  Every process has its own checkout of    *)
(* the index repository and its own loaded index; the Valkey key           *)
(* `index:announced' holds the commit they should all have loaded.  A      *)
(* process that starts joins the others, a background task of each process *)
(* follows what is announced, and an administrator's refresh loads the     *)
(* newest commit in one process and announces it.                          *)
(*                                                                         *)
(* The message published with an announcement only makes the follower look *)
(* sooner than FOLLOW_INTERVAL; it carries nothing the follower uses.  A   *)
(* follower that may look at any time covers every delivery, delay and     *)
(* loss of it.                                                             *)
(***************************************************************************)
EXTENDS Naturals, FiniteSets

CONSTANTS
  Processes,      \* the lobby processes
  Commits,        \* the commits the index repository may ever have
  History,        \* History[c]: c and everything in its history
  FirstCommit,    \* what the branch is at in the beginning
  Refreshers,     \* the processes that serve GET /worlds/refresh
  Failures,       \* whether a load or an announcement may fail
  MaxRestarts,    \* bound: how many times a process stops and starts again
  MaxRefreshes,   \* bound: how many refreshes are asked for
  None            \* Rust's None

ASSUME HistoryAssumption ==
  /\ History \in [Commits -> SUBSET Commits]
  /\ \A c \in Commits : /\ c \in History[c]
                        /\ \A b \in History[c] : History[b] \subseteq History[c]
ASSUME IndexAssumption ==
  /\ FirstCommit \in Commits
  /\ None \notin Commits /\ None \notin Processes \X {"main", "refresh"}
  /\ Refreshers \subseteq Processes
  /\ Failures \in BOOLEAN
  /\ MaxRestarts \in Nat
  /\ MaxRefreshes \in Nat

VARIABLES
  head,       \* the branch of the index repository
  pushed,     \* every commit the branch was ever at or above
  have,       \* have[p]: the commits in the object store of p's checkout
  checkout,   \* checkout[p]: the commit p's working tree was last reset to
  loaded,     \* loaded[p]: the index in memory, and the commit it is said to be of
  seen,       \* seen[p]: seen_announcement
  announced,  \* the Valkey key ANNOUNCED_INDEX
  lock,       \* lock[p]: the task that holds load_lock
  joined,     \* the processes past join_other_processes
  task,       \* task[t]: where a task is, and its local variables
  restarts,
  refreshes

repository == <<head, pushed>>
indexVars == <<head, pushed, have, checkout, loaded, seen, announced, lock, joined,
               task, restarts, refreshes>>

\* A process runs two tasks that touch the index: `main' starts it and then is its
\* follower, `refresh' is a request for /worlds/refresh.
Tasks == Processes \X {"main", "refresh"}
Main(p) == <<p, "main">>

\* `want' is the commit asked for, `got' the one found, `index' the one whose index.toml
\* was read; `next' is where a load returns to.
Local == [pc : {"down", "idle", "load", "read", "download", "join", "followGet", "followed",
                "followSeen", "followCommit", "markSeen", "announce", "announceSeen", "announceSet"},
          want : Commits \cup {None}, got : Commits \cup {None},
          index : Commits \cup {None}, next : {"join", "followed", "announce"}]
Idle == [pc |-> "idle", want |-> None, got |-> None, index |-> None, next |-> "join"]
Down == [Idle EXCEPT !.pc = "down"]

-----------------------------------------------------------------------------
(* fetch_and_reset, is_ancestor                                            *)

\* What a fetch of the branch adds to the objects a checkout has
Fetched(p) == have[p] \cup History[head]

\* The commit the checkout is reset to: the wanted one if it is there, the head otherwise
Target(p, wanted) == IF wanted \in Fetched(p) THEN wanted ELSE head

\* Whether p's checkout shows `ancestor' strictly in the history of `commit'
IsAncestor(p, ancestor, commit) ==
  /\ {ancestor, commit} \subseteq have[p]
  /\ ancestor \in History[commit] \ {commit}

SetLocal(t, l) == task' = [task EXCEPT ![t] = l]
Goto(t, pc) == SetLocal(t, [task[t] EXCEPT !.pc = pc])
GoIdle(t) == SetLocal(t, Idle)

-----------------------------------------------------------------------------
(* IndexManager::load                                                      *)

\* load(want): everything after it is at `next'
StartLoad(t, want, next) ==
  SetLocal(t, [Idle EXCEPT !.pc = "load", !.want = want, !.next = next])

\* Mistake: no load_lock.
LoadFetchUnlocked(t) ==
  LET p == t[1] IN
  /\ task[t].pc = "load"
  /\ have' = [have EXCEPT ![p] = Fetched(p)]
  /\ checkout' = [checkout EXCEPT ![p] = Target(p, task[t].want)]
  /\ SetLocal(t, [task[t] EXCEPT !.pc = "read", !.got = Target(p, task[t].want)])
  /\ UNCHANGED <<repository, loaded, seen, announced, lock, joined, restarts, refreshes>>

\* Takes load_lock, fetches and resets the checkout.
LoadFetch(t) ==
  LET p == t[1] IN
  /\ task[t].pc = "load"
  /\ lock[p] = None
  /\ lock' = [lock EXCEPT ![p] = t]
  /\ have' = [have EXCEPT ![p] = Fetched(p)]
  /\ checkout' = [checkout EXCEPT ![p] = Target(p, task[t].want)]
  /\ SetLocal(t, [task[t] EXCEPT !.pc = "read", !.got = Target(p, task[t].want)])
  /\ UNCHANGED <<repository, loaded, seen, announced, joined, restarts, refreshes>>

\* IndexSet::new reads the working tree.
LoadRead(t) ==
  /\ task[t].pc = "read"
  /\ SetLocal(t, [task[t] EXCEPT !.pc = "download", !.index = checkout[t[1]]])
  /\ UNCHANGED <<repository, have, checkout, loaded, seen, announced, lock, joined,
                 restarts, refreshes>>

\* refresh_into is through: swaps the index in and gives the lock back.
LoadSwap(t) ==
  LET p == t[1] IN
  /\ task[t].pc = "download"
  /\ loaded' = [loaded EXCEPT ![p] = [commit |-> task[t].got, index |-> task[t].index]]
  /\ lock' = [lock EXCEPT ![p] = None]
  /\ Goto(t, task[t].next)
  /\ UNCHANGED <<repository, have, checkout, seen, announced, joined, restarts, refreshes>>

\* The index didn't parse or a download fails: load returns the error, and so does the
\* refresh or the look of the follower it was for.  (While the process starts, the error
\* ends it: see Stop.)
LoadFails(t) ==
  LET p == t[1] IN
  /\ Failures
  /\ task[t].pc = "download"
  /\ p \in joined
  /\ lock' = [lock EXCEPT ![p] = None]
  /\ GoIdle(t)
  /\ UNCHANGED <<repository, have, checkout, loaded, seen, announced, joined,
                 restarts, refreshes>>

-----------------------------------------------------------------------------
(* IndexManager::announce                                                  *)

AnnounceRead(t) ==
  /\ task[t].pc = "announce"
  /\ SetLocal(t, [task[t] EXCEPT !.pc = "announceSeen", !.got = loaded[t[1]].commit])
  /\ UNCHANGED <<repository, have, checkout, loaded, seen, announced, lock, joined,
                 restarts, refreshes>>

AnnounceSeen(t) ==
  /\ task[t].pc = "announceSeen"
  /\ seen' = [seen EXCEPT ![t[1]] = task[t].got]
  /\ Goto(t, "announceSet")
  /\ UNCHANGED <<repository, have, checkout, loaded, announced, lock, joined,
                 restarts, refreshes>>

\* SET and PUBLISH, the last thing a refresh, a look of the follower or a join does here
AnnounceSet(t) ==
  /\ task[t].pc = "announceSet"
  /\ announced' = task[t].got
  /\ joined' = joined \cup {t[1]}
  /\ GoIdle(t)
  /\ UNCHANGED <<repository, have, checkout, loaded, seen, lock, restarts, refreshes>>

\* Valkey can't be reached: the caller reports it.
AnnounceFails(t) ==
  /\ Failures
  /\ task[t].pc = "announceSet"
  /\ t[1] \in joined
  /\ GoIdle(t)
  /\ UNCHANGED <<repository, have, checkout, loaded, seen, announced, lock, joined,
                 restarts, refreshes>>

-----------------------------------------------------------------------------
(* IndexManager::follow_once, called by the follower and by a join         *)

FollowGet(t) ==
  /\ \/ task[t].pc = "followGet"
     \/ task[t].pc = "idle" /\ t = Main(t[1])
  /\ announced # None
  /\ SetLocal(t, [task[t] EXCEPT !.pc = "followSeen", !.want = announced])
  /\ UNCHANGED <<repository, have, checkout, loaded, seen, announced, lock, joined,
                 restarts, refreshes>>

FollowSeen(t) ==
  LET done == seen[t[1]] = task[t].want IN
  /\ task[t].pc = "followSeen"
  /\ IF done THEN GoIdle(t) ELSE Goto(t, "followCommit")
  /\ joined' = IF done THEN joined \cup {t[1]} ELSE joined
  /\ UNCHANGED <<repository, have, checkout, loaded, seen, announced, lock,
                 restarts, refreshes>>

\* Mistake: the announcement is marked as seen before it is loaded.
FollowCommitSeenFirst(t) ==
  /\ task[t].pc = "followCommit"
  /\ seen' = [seen EXCEPT ![t[1]] = task[t].want]
  /\ IF loaded[t[1]].commit = task[t].want
     THEN Goto(t, "markSeen")
     ELSE StartLoad(t, task[t].want, "followed")
  /\ UNCHANGED <<repository, have, checkout, loaded, announced, lock, joined,
                 restarts, refreshes>>

FollowCommit(t) ==
  /\ task[t].pc = "followCommit"
  /\ IF loaded[t[1]].commit = task[t].want
     THEN Goto(t, "markSeen")
     ELSE StartLoad(t, task[t].want, "followed")
  /\ UNCHANGED <<repository, have, checkout, loaded, seen, announced, lock, joined,
                 restarts, refreshes>>

\* Mistake: whatever was loaded is taken to be what was announced.
FollowedUnchecked(t) ==
  /\ task[t].pc = "followed"
  /\ Goto(t, "markSeen")
  /\ UNCHANGED <<repository, have, checkout, loaded, seen, announced, lock, joined,
                 restarts, refreshes>>

\* The load is done: is it what was announced?
Followed(t) ==
  /\ task[t].pc = "followed"
  /\ Goto(t, IF task[t].got = task[t].want THEN "markSeen" ELSE "announce")
  /\ UNCHANGED <<repository, have, checkout, loaded, seen, announced, lock, joined,
                 restarts, refreshes>>

MarkSeen(t) ==
  /\ task[t].pc = "markSeen"
  /\ seen' = [seen EXCEPT ![t[1]] = task[t].want]
  /\ joined' = joined \cup {t[1]}
  /\ GoIdle(t)
  /\ UNCHANGED <<repository, have, checkout, loaded, announced, lock, restarts, refreshes>>

-----------------------------------------------------------------------------
(* IndexManager::new, update and join_other_processes, in the order        *)
(* lobby/src/lib.rs calls them                                             *)

\* The process reads the branch's head.  With SKIP_APWORLDS_UPDATE it joins at once.
Start(p) ==
  LET t == Main(p) IN
  /\ task[t].pc = "down"
  /\ have' = [have EXCEPT ![p] = Fetched(p)]
  /\ checkout' = [checkout EXCEPT ![p] = head]
  /\ loaded' = [loaded EXCEPT ![p] = [commit |-> head, index |-> head]]
  /\ seen' = [seen EXCEPT ![p] = None]
  /\ \/ StartLoad(t, None, "join")
     \/ Goto(t, "join")
  /\ UNCHANGED <<repository, announced, lock, joined, restarts, refreshes>>

\* join_other_processes: no other task of the process runs yet
Join(p) ==
  LET t == Main(p)
      commit == loaded[p].commit
  IN
  /\ task[t].pc = "join"
  /\ \/ /\ announced = commit
        /\ seen' = [seen EXCEPT ![p] = announced]
        /\ joined' = joined \cup {p}
        /\ GoIdle(t)
     \/ /\ announced \notin {None, commit}
        /\ ~IsAncestor(p, announced, commit)
        /\ Goto(t, "followGet")
        /\ UNCHANGED <<seen, joined>>
     \/ /\ announced = None \/ IsAncestor(p, announced, commit)
        /\ Goto(t, "announce")
        /\ UNCHANGED <<seen, joined>>
  /\ UNCHANGED <<repository, have, checkout, loaded, announced, lock, restarts, refreshes>>

\* GET /worlds/refresh: update, then announce
Refresh(p) ==
  LET t == <<p, "refresh">> IN
  /\ p \in Refreshers \cap joined
  /\ task[t].pc = "idle"
  /\ refreshes < MaxRefreshes
  /\ refreshes' = refreshes + 1
  /\ StartLoad(t, None, "announce")
  /\ UNCHANGED <<repository, have, checkout, loaded, seen, announced, lock, joined, restarts>>

\* The process ends, wherever it is.  Only its checkout stays.
Stop(p) ==
  /\ task[Main(p)].pc # "down"
  /\ restarts < MaxRestarts
  /\ restarts' = restarts + 1
  /\ task' = [task EXCEPT ![Main(p)] = Down, ![<<p, "refresh">>] = Idle]
  /\ lock' = [lock EXCEPT ![p] = None]
  /\ joined' = joined \ {p}
  /\ UNCHANGED <<repository, have, checkout, loaded, seen, announced, refreshes>>

\* Somebody pushes to the index repository; a commit that isn't on top of the head is a
\* rewritten branch.
Push(c) ==
  /\ c \notin pushed
  /\ History[c] \ {c} \subseteq pushed
  /\ head' = c
  /\ pushed' = pushed \cup {c}
  /\ UNCHANGED <<have, checkout, loaded, seen, announced, lock, joined, task,
                 restarts, refreshes>>

-----------------------------------------------------------------------------
Init ==
  /\ head = FirstCommit
  /\ pushed = History[FirstCommit]
  /\ have = [p \in Processes |-> {}]
  /\ checkout = [p \in Processes |-> FirstCommit]
  /\ loaded = [p \in Processes |-> [commit |-> FirstCommit, index |-> FirstCommit]]
  /\ seen = [p \in Processes |-> None]
  /\ announced = None
  /\ lock = [p \in Processes |-> None]
  /\ joined = {}
  /\ task = [t \in Tasks |-> IF t = Main(t[1]) THEN Down ELSE Idle]
  /\ restarts = 0
  /\ refreshes = 0

\* What a task does on its own
TaskStep(t) ==
  \/ LoadFetch(t) \/ LoadRead(t) \/ LoadSwap(t)
  \/ AnnounceRead(t) \/ AnnounceSeen(t) \/ AnnounceSet(t)
  \/ FollowGet(t) \/ FollowSeen(t) \/ FollowCommit(t) \/ Followed(t) \/ MarkSeen(t)
  \/ t = Main(t[1]) /\ (Start(t[1]) \/ Join(t[1]))

Next ==
  \/ \E t \in Tasks : TaskStep(t) \/ LoadFails(t) \/ AnnounceFails(t)
  \/ \E p \in Processes : Refresh(p) \/ Stop(p)
  \/ \E c \in Commits : Push(c)

Spec == Init /\ [][Next]_indexVars

\* A process is started again, its tasks get to run, and a load or an announcement that
\* the follower tries again and again gets through in the end.
Fairness ==
  /\ \A t \in {Main(p) : p \in Processes} \cup (Refreshers \X {"refresh"}) :
        WF_indexVars(TaskStep(t))
  /\ \A p \in Processes :
        SF_indexVars(LoadSwap(Main(p))) /\ SF_indexVars(AnnounceSet(Main(p)))
FairSpec == Spec /\ Fairness

-----------------------------------------------------------------------------
\* The types of the variables.
TypeOK ==
  /\ head \in Commits /\ pushed \subseteq Commits
  /\ have \in [Processes -> SUBSET Commits]
  /\ checkout \in [Processes -> Commits]
  /\ loaded \in [Processes -> [commit : Commits, index : Commits]]
  /\ seen \in [Processes -> Commits \cup {None}]
  /\ announced \in Commits \cup {None}
  /\ lock \in [Processes -> Tasks \cup {None}]
  /\ joined \subseteq Processes
  /\ task \in [Tasks -> Local]
  /\ restarts \in 0..MaxRestarts /\ refreshes \in 0..MaxRefreshes

\* The index a process has in memory is the one of the commit it says it has: no load
\* reads the working tree of another one (load_lock, "they all work in the same checkout").
IndexIsOfItsCommit == \A p \in Processes : loaded[p].index = loaded[p].commit

\* A follower that stopped looking further is on the commit it last acted on, so a
\* process that has seen what is announced has it loaded, whatever the refreshes of other
\* processes announce meanwhile.  (In a process that serves a refresh itself, announce may
\* mark a commit as seen that its follower has just replaced.)
SeenIsLoaded ==
  \A p \in Processes \ Refreshers :
    task[Main(p)].pc = "idle" /\ seen[p] # None => loaded[p].commit = seen[p]

\* "A process that missed the message is that far behind at most": once the repository,
\* the restarts and the refreshes are over, every process that serves no refresh itself is
\* on the announced commit.
Converges ==
  <>[](\A p \in Processes \ Refreshers : p \in joined /\ loaded[p].commit = announced)

=============================================================================
