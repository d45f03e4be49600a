-------------------------- MODULE IndexFollowProofs --------------------------
(***************************************************************************)
(* What holds of IndexFollow for every set of processes, every repository  *)
(* and every number of restarts and refreshes.                             *)
(***************************************************************************)
EXTENDS IndexFollow, TLAPS

LEMMA InitTyped == Init => TypeOK
<1> SUFFICES ASSUME Init PROVE TypeOK
  OBVIOUS
<1>1. /\ head \in Commits /\ pushed \subseteq Commits
      /\ have \in [Processes -> SUBSET Commits]
      /\ checkout \in [Processes -> Commits]
      /\ loaded \in [Processes -> [commit : Commits, index : Commits]]
      /\ seen \in [Processes -> Commits \cup {None}]
      /\ announced \in Commits \cup {None}
      /\ joined \subseteq Processes
      /\ restarts \in 0..MaxRestarts /\ refreshes \in 0..MaxRefreshes
  BY IndexAssumption, HistoryAssumption DEF Init
<1>2. lock \in [Processes -> Tasks \cup {None}]
  BY DEF Init
<1>3. Idle \in Local /\ Down \in Local
  BY DEF Idle, Down, Local
<1>4. task \in [Tasks -> Local]
  BY <1>3 DEF Init
<1> QED BY <1>1, <1>2, <1>4 DEF TypeOK

\* Every task is of a process, as its main task or as its refresh.
LEMMA TaskForm ==
  ASSUME NEW t \in Tasks
  PROVE  /\ t[1] \in Processes /\ t[2] \in {"main", "refresh"}
         /\ t = <<t[1], t[2]>>
BY DEF Tasks

LEMMA TasksOf ==
  ASSUME NEW p \in Processes
  PROVE  /\ Main(p) \in Tasks /\ <<p, "refresh">> \in Tasks
         /\ Main(p) # <<p, "refresh">> /\ Main(p)[1] = p
BY DEF Tasks, Main

\* A local state stays one when its fields are assigned values of their types.
LEMMA LocalUpdate ==
  ASSUME NEW l \in Local, NEW c \in Commits \cup {None},
         NEW x \in {"down", "idle", "load", "read", "download", "join", "followGet",
                    "followed", "followSeen", "followCommit", "markSeen", "announce",
                    "announceSeen", "announceSet"}
  PROVE  /\ [l EXCEPT !.pc = x] \in Local
         /\ [l EXCEPT !.pc = x, !.want = c] \in Local
         /\ [l EXCEPT !.pc = x, !.got = c] \in Local
         /\ [l EXCEPT !.pc = x, !.index = c] \in Local
<1>1. [l EXCEPT !.pc = x] \in Local BY DEF Local
<1>2. [l EXCEPT !.pc = x, !.want = c] \in Local BY DEF Local
<1>3. [l EXCEPT !.pc = x, !.got = c] \in Local BY DEF Local
<1>4. [l EXCEPT !.pc = x, !.index = c] \in Local BY DEF Local
<1> QED BY <1>1, <1>2, <1>3, <1>4

LEMMA LocalStart ==
  ASSUME NEW c \in Commits \cup {None}, NEW n \in {"join", "followed", "announce"}
  PROVE  [Idle EXCEPT !.pc = "load", !.want = c, !.next = n] \in Local
BY DEF Local, Idle

LEMMA LocalConstants == Idle \in Local /\ Down \in Local
BY DEF Local, Idle, Down

-----------------------------------------------------------------------------
(* A load works in a checkout nobody else touches                          *)

\* Where a task is between taking load_lock and giving it back
LoadOK(t) ==
  /\ task[t].pc \in {"read", "download"} => lock[t[1]] = t
  /\ task[t].pc = "read" => task[t].got = checkout[t[1]]
  /\ task[t].pc = "download" => task[t].got \in Commits /\ task[t].index = task[t].got

\* A process that isn't running does nothing.
Quiet ==
  \A p \in Processes :
    task[Main(p)].pc = "down" => task[<<p, "refresh">>].pc = "idle" /\ p \notin joined

IndexInv ==
  /\ TypeOK
  /\ \A t \in Tasks : LoadOK(t)
  /\ IndexIsOfItsCommit
  /\ Quiet

LEMMA InitIndexInv == Init => IndexInv
<1> SUFFICES ASSUME Init PROVE IndexInv
  OBVIOUS
<1>1. TypeOK
  BY InitTyped
<1>2. Idle.pc = "idle" /\ Down.pc = "down"
  BY DEF Idle, Down
<1>3. \A t \in Tasks : task[t] \in {Idle, Down} /\ (t # Main(t[1]) => task[t] = Idle)
  BY DEF Init
<1>4. \A t \in Tasks : LoadOK(t)
  BY <1>2, <1>3 DEF LoadOK
<1>5. Quiet
  BY <1>2, <1>3, TasksOf DEF Quiet, Init, Main
<1>6. IndexIsOfItsCommit
  BY DEF Init, IndexIsOfItsCommit
<1> QED BY <1>1, <1>4, <1>5, <1>6 DEF IndexInv

\* A step that changes one task's local state, and nothing a load depends on.
LEMMA SetLocalStep ==
  ASSUME IndexInv, NEW t \in Tasks, NEW d \in Local, SetLocal(t, d),
         d.pc \notin {"read", "download", "down"},
         task[t].pc # "down",
         t[2] = "refresh" => (task[t].pc # "idle" \/ t[1] \in joined),
         UNCHANGED <<checkout, loaded>>,
         lock' = lock \/ (lock[t[1]] = t /\ lock' = [lock EXCEPT ![t[1]] = None]),
         joined' \subseteq joined \cup {t[1]}
  PROVE  /\ task' \in [Tasks -> Local]
         /\ lock' \in [Processes -> Tasks \cup {None}]
         /\ \A u \in Tasks : LoadOK(u)'
         /\ IndexIsOfItsCommit'
         /\ Quiet'
<1>1. /\ t[1] \in Processes /\ t[2] \in {"main", "refresh"} /\ t = <<t[1], t[2]>>
  BY TaskForm
<1>2. task' \in [Tasks -> Local] /\ task'[t] = d /\ \A u \in Tasks \ {t} : task'[u] = task[u]
  BY DEF SetLocal, IndexInv, TypeOK
<1>3. lock' \in [Processes -> Tasks \cup {None}]
  BY <1>1 DEF IndexInv, TypeOK
<1>4. ASSUME NEW u \in Tasks PROVE LoadOK(u)'
  <2>1. CASE u = t
    BY <1>2, <2>1 DEF LoadOK
  <2>2. CASE u # t
    <3>1. task'[u] = task[u] /\ LoadOK(u)
      BY <1>2, <2>2 DEF IndexInv
    <3>2. lock[u[1]] = u => lock'[u[1]] = u
      BY <1>1, <2>2, TaskForm DEF IndexInv, TypeOK
    <3> QED BY <3>1, <3>2 DEF LoadOK
  <2> QED BY <2>1, <2>2
<1>5. IndexIsOfItsCommit'
  BY DEF IndexInv, IndexIsOfItsCommit
<1>6. ASSUME NEW p \in Processes, task'[Main(p)].pc = "down"
      PROVE  task'[<<p, "refresh">>].pc = "idle" /\ p \notin joined'
  <2>1. Main(p) # t
    BY <1>2, <1>6
  <2>2. task[Main(p)].pc = "down" /\ task[<<p, "refresh">>].pc = "idle" /\ p \notin joined
    BY <1>2, <1>6, <2>1, TasksOf DEF IndexInv, Quiet
  <2>3. t # <<p, "refresh">>
    BY <2>2
  <2>4. t[1] # p
    BY <1>1, <2>1, <2>3 DEF Main
  <2> QED BY <1>2, <2>2, <2>3, <2>4, TasksOf
<1> QED BY <1>2, <1>3, <1>4, <1>5, <1>6 DEF Quiet

\* The actions of a task other than those of a load
LEMMA OtherStep ==
  ASSUME IndexInv, NEW t \in Tasks,
         \/ LoadFails(t) \/ AnnounceRead(t) \/ AnnounceSeen(t) \/ AnnounceSet(t)
         \/ AnnounceFails(t) \/ FollowGet(t) \/ FollowSeen(t) \/ FollowCommit(t)
         \/ Followed(t) \/ MarkSeen(t)
  PROVE  IndexInv'
<1>1. /\ t[1] \in Processes /\ task[t] \in Local /\ t[2] \in {"main", "refresh"}
      /\ t = <<t[1], t[2]>>
      /\ task[t].want \in Commits \cup {None} /\ task[t].got \in Commits \cup {None}
      /\ loaded[t[1]].commit \in Commits
      /\ announced \in Commits \cup {None}
  BY TaskForm DEF IndexInv, TypeOK, Local
<1>2. LoadOK(t)
  BY DEF IndexInv
<1>3. Idle \in Local /\ Idle.pc = "idle"
  BY LocalConstants DEF Idle
<1>4. CASE LoadFails(t)
  <2> DEFINE d == Idle
  <2>1. d \in Local /\ d.pc = "idle"
    BY <1>3
  <2>2. SetLocal(t, d)
    BY <1>4 DEF LoadFails, GoIdle
  <2>3. /\ task[t].pc # "down"
        /\ t[2] = "refresh" => (task[t].pc # "idle" \/ t[1] \in joined)
        /\ UNCHANGED <<checkout, loaded>>
        /\ lock' = lock \/ (lock[t[1]] = t /\ lock' = [lock EXCEPT ![t[1]] = None])
        /\ joined' \subseteq joined \cup {t[1]}
    BY <1>1, <1>2, <1>4 DEF LoadFails, LoadOK, Main
  <2>4. /\ head' \in Commits /\ pushed' \subseteq Commits
        /\ have' \in [Processes -> SUBSET Commits]
        /\ checkout' \in [Processes -> Commits]
        /\ loaded' \in [Processes -> [commit : Commits, index : Commits]]
        /\ seen' \in [Processes -> Commits \cup {None}]
        /\ announced' \in Commits \cup {None}
        /\ joined' \subseteq Processes
        /\ restarts' \in 0..MaxRestarts /\ refreshes' \in 0..MaxRefreshes
    BY <1>1, <1>4 DEF LoadFails, IndexInv, TypeOK, repository
  <2> HIDE DEF d
  <2> QED BY <2>1, <2>2, <2>3, <2>4, SetLocalStep DEF IndexInv, TypeOK
<1>5. CASE AnnounceRead(t)
  <2> DEFINE d == [task[t] EXCEPT !.pc = "announceSeen", !.got = loaded[t[1]].commit]
  <2>1. d \in Local /\ d.pc \in {"announceSeen", "announceSet", "followSeen", "idle",
                                  "followCommit", "markSeen", "announce"}
    <3>1. d \in Local
      BY <1>1, LocalUpdate
    <3>2. d.pc \in {"announceSeen", "announceSet", "followSeen"}
      BY <1>1 DEF Local
    <3> QED BY <3>1, <3>2
  <2>2. SetLocal(t, d)
    BY <1>5 DEF AnnounceRead
  <2>3. /\ task[t].pc # "down"
        /\ t[2] = "refresh" => (task[t].pc # "idle" \/ t[1] \in joined)
        /\ UNCHANGED <<checkout, loaded>>
        /\ lock' = lock \/ (lock[t[1]] = t /\ lock' = [lock EXCEPT ![t[1]] = None])
        /\ joined' \subseteq joined \cup {t[1]}
    BY <1>1, <1>2, <1>5 DEF AnnounceRead, LoadOK, Main
  <2>4. /\ head' \in Commits /\ pushed' \subseteq Commits
        /\ have' \in [Processes -> SUBSET Commits]
        /\ checkout' \in [Processes -> Commits]
        /\ loaded' \in [Processes -> [commit : Commits, index : Commits]]
        /\ seen' \in [Processes -> Commits \cup {None}]
        /\ announced' \in Commits \cup {None}
        /\ joined' \subseteq Processes
        /\ restarts' \in 0..MaxRestarts /\ refreshes' \in 0..MaxRefreshes
    BY <1>1, <1>5 DEF AnnounceRead, IndexInv, TypeOK, repository
  <2> HIDE DEF d
  <2> QED BY <2>1, <2>2, <2>3, <2>4, SetLocalStep DEF IndexInv, TypeOK
<1>6. CASE AnnounceSeen(t)
  <2> DEFINE d == [task[t] EXCEPT !.pc = "announceSet"]
  <2>1. d \in Local /\ d.pc \in {"announceSeen", "announceSet", "followSeen", "idle",
                                  "followCommit", "markSeen", "announce"}
    <3>1. d \in Local
      BY <1>1, LocalUpdate
    <3>2. d.pc \in {"announceSeen", "announceSet", "followSeen"}
      BY <1>1 DEF Local
    <3> QED BY <3>1, <3>2
  <2>2. SetLocal(t, d)
    BY <1>6 DEF AnnounceSeen, Goto
  <2>3. /\ task[t].pc # "down"
        /\ t[2] = "refresh" => (task[t].pc # "idle" \/ t[1] \in joined)
        /\ UNCHANGED <<checkout, loaded>>
        /\ lock' = lock \/ (lock[t[1]] = t /\ lock' = [lock EXCEPT ![t[1]] = None])
        /\ joined' \subseteq joined \cup {t[1]}
    BY <1>1, <1>2, <1>6 DEF AnnounceSeen, LoadOK, Main
  <2>4. /\ head' \in Commits /\ pushed' \subseteq Commits
        /\ have' \in [Processes -> SUBSET Commits]
        /\ checkout' \in [Processes -> Commits]
        /\ loaded' \in [Processes -> [commit : Commits, index : Commits]]
        /\ seen' \in [Processes -> Commits \cup {None}]
        /\ announced' \in Commits \cup {None}
        /\ joined' \subseteq Processes
        /\ restarts' \in 0..MaxRestarts /\ refreshes' \in 0..MaxRefreshes
    BY <1>1, <1>6 DEF AnnounceSeen, IndexInv, TypeOK, repository
  <2> HIDE DEF d
  <2> QED BY <2>1, <2>2, <2>3, <2>4, SetLocalStep DEF IndexInv, TypeOK
<1>7. CASE AnnounceSet(t)
  <2> DEFINE d == Idle
  <2>1. d \in Local /\ d.pc = "idle"
    BY <1>3
  <2>2. SetLocal(t, d)
    BY <1>7 DEF AnnounceSet, GoIdle
  <2>3. /\ task[t].pc # "down"
        /\ t[2] = "refresh" => (task[t].pc # "idle" \/ t[1] \in joined)
        /\ UNCHANGED <<checkout, loaded>>
        /\ lock' = lock \/ (lock[t[1]] = t /\ lock' = [lock EXCEPT ![t[1]] = None])
        /\ joined' \subseteq joined \cup {t[1]}
    BY <1>1, <1>2, <1>7 DEF AnnounceSet, LoadOK, Main
  <2>4. /\ head' \in Commits /\ pushed' \subseteq Commits
        /\ have' \in [Processes -> SUBSET Commits]
        /\ checkout' \in [Processes -> Commits]
        /\ loaded' \in [Processes -> [commit : Commits, index : Commits]]
        /\ seen' \in [Processes -> Commits \cup {None}]
        /\ announced' \in Commits \cup {None}
        /\ joined' \subseteq Processes
        /\ restarts' \in 0..MaxRestarts /\ refreshes' \in 0..MaxRefreshes
    BY <1>1, <1>7 DEF AnnounceSet, IndexInv, TypeOK, repository
  <2> HIDE DEF d
  <2> QED BY <2>1, <2>2, <2>3, <2>4, SetLocalStep DEF IndexInv, TypeOK
<1>8. CASE AnnounceFails(t)
  <2> DEFINE d == Idle
  <2>1. d \in Local /\ d.pc = "idle"
    BY <1>3
  <2>2. SetLocal(t, d)
    BY <1>8 DEF AnnounceFails, GoIdle
  <2>3. /\ task[t].pc # "down"
        /\ t[2] = "refresh" => (task[t].pc # "idle" \/ t[1] \in joined)
        /\ UNCHANGED <<checkout, loaded>>
        /\ lock' = lock \/ (lock[t[1]] = t /\ lock' = [lock EXCEPT ![t[1]] = None])
        /\ joined' \subseteq joined \cup {t[1]}
    BY <1>1, <1>2, <1>8 DEF AnnounceFails, LoadOK, Main
  <2>4. /\ head' \in Commits /\ pushed' \subseteq Commits
        /\ have' \in [Processes -> SUBSET Commits]
        /\ checkout' \in [Processes -> Commits]
        /\ loaded' \in [Processes -> [commit : Commits, index : Commits]]
        /\ seen' \in [Processes -> Commits \cup {None}]
        /\ announced' \in Commits \cup {None}
        /\ joined' \subseteq Processes
        /\ restarts' \in 0..MaxRestarts /\ refreshes' \in 0..MaxRefreshes
    BY <1>1, <1>8 DEF AnnounceFails, IndexInv, TypeOK, repository
  <2> HIDE DEF d
  <2> QED BY <2>1, <2>2, <2>3, <2>4, SetLocalStep DEF IndexInv, TypeOK
<1>9. CASE FollowGet(t)
  <2> DEFINE d == [task[t] EXCEPT !.pc = "followSeen", !.want = announced]
  <2>1. d \in Local /\ d.pc \in {"announceSeen", "announceSet", "followSeen", "idle",
                                  "followCommit", "markSeen", "announce"}
    <3>1. d \in Local
      BY <1>1, LocalUpdate
    <3>2. d.pc \in {"announceSeen", "announceSet", "followSeen"}
      BY <1>1 DEF Local
    <3> QED BY <3>1, <3>2
  <2>2. SetLocal(t, d)
    BY <1>9 DEF FollowGet
  <2>3. /\ task[t].pc # "down"
        /\ t[2] = "refresh" => (task[t].pc # "idle" \/ t[1] \in joined)
        /\ UNCHANGED <<checkout, loaded>>
        /\ lock' = lock \/ (lock[t[1]] = t /\ lock' = [lock EXCEPT ![t[1]] = None])
        /\ joined' \subseteq joined \cup {t[1]}
    BY <1>1, <1>2, <1>9 DEF FollowGet, LoadOK, Main
  <2>4. /\ head' \in Commits /\ pushed' \subseteq Commits
        /\ have' \in [Processes -> SUBSET Commits]
        /\ checkout' \in [Processes -> Commits]
        /\ loaded' \in [Processes -> [commit : Commits, index : Commits]]
        /\ seen' \in [Processes -> Commits \cup {None}]
        /\ announced' \in Commits \cup {None}
        /\ joined' \subseteq Processes
        /\ restarts' \in 0..MaxRestarts /\ refreshes' \in 0..MaxRefreshes
    BY <1>1, <1>9 DEF FollowGet, IndexInv, TypeOK, repository
  <2> HIDE DEF d
  <2> QED BY <2>1, <2>2, <2>3, <2>4, SetLocalStep DEF IndexInv, TypeOK
<1>10. CASE FollowSeen(t)
  <2> DEFINE e == [task[t] EXCEPT !.pc = "followCommit"]
             d == IF seen[t[1]] = task[t].want THEN Idle ELSE e
  <2>1. d \in Local /\ d.pc \in {"announceSeen", "announceSet", "followSeen", "idle",
                                  "followCommit", "markSeen", "announce"}
    <3>1. e \in Local
      BY <1>1, LocalUpdate
    <3>2. e.pc = "followCommit"
      BY <1>1 DEF Local
    <3> HIDE DEF e
    <3> QED BY <1>3, <3>1, <3>2
  <2>2. SetLocal(t, d)
    BY <1>10 DEF FollowSeen, GoIdle, Goto
  <2>3. /\ task[t].pc # "down"
        /\ t[2] = "refresh" => (task[t].pc # "idle" \/ t[1] \in joined)
        /\ UNCHANGED <<checkout, loaded>>
        /\ lock' = lock \/ (lock[t[1]] = t /\ lock' = [lock EXCEPT ![t[1]] = None])
        /\ joined' \subseteq joined \cup {t[1]}
    BY <1>1, <1>2, <1>10 DEF FollowSeen, LoadOK, Main
  <2>4. /\ head' \in Commits /\ pushed' \subseteq Commits
        /\ have' \in [Processes -> SUBSET Commits]
        /\ checkout' \in [Processes -> Commits]
        /\ loaded' \in [Processes -> [commit : Commits, index : Commits]]
        /\ seen' \in [Processes -> Commits \cup {None}]
        /\ announced' \in Commits \cup {None}
        /\ joined' \subseteq Processes
        /\ restarts' \in 0..MaxRestarts /\ refreshes' \in 0..MaxRefreshes
    BY <1>1, <1>10 DEF FollowSeen, IndexInv, TypeOK, repository
  <2> HIDE DEF d
  <2> QED BY <2>1, <2>2, <2>3, <2>4, SetLocalStep DEF IndexInv, TypeOK
<1>11. CASE FollowCommit(t)
  <2> DEFINE d == IF loaded[t[1]].commit = task[t].want
                THEN [task[t] EXCEPT !.pc = "markSeen"]
                ELSE [Idle EXCEPT !.pc = "load", !.want = task[t].want, !.next = "followed"]
  <2>1. d \in Local /\ d.pc \in {"markSeen", "load"}
    <3>1. [task[t] EXCEPT !.pc = "markSeen"] \in Local
      BY <1>1, LocalUpdate
    <3>2. [Idle EXCEPT !.pc = "load", !.want = task[t].want, !.next = "followed"] \in Local
      BY <1>1, LocalStart
    <3>3. /\ [task[t] EXCEPT !.pc = "markSeen"].pc = "markSeen"
          /\ [Idle EXCEPT !.pc = "load", !.want = task[t].want, !.next = "followed"].pc = "load"
      BY <1>1 DEF Local, Idle
    <3> QED BY <3>1, <3>2, <3>3
  <2>2. SetLocal(t, d)
    BY <1>11 DEF FollowCommit, Goto, StartLoad
  <2>3. /\ task[t].pc # "down"
        /\ t[2] = "refresh" => (task[t].pc # "idle" \/ t[1] \in joined)
        /\ UNCHANGED <<checkout, loaded>>
        /\ lock' = lock \/ (lock[t[1]] = t /\ lock' = [lock EXCEPT ![t[1]] = None])
        /\ joined' \subseteq joined \cup {t[1]}
    BY <1>1, <1>2, <1>11 DEF FollowCommit, LoadOK, Main
  <2>4. /\ head' \in Commits /\ pushed' \subseteq Commits
        /\ have' \in [Processes -> SUBSET Commits]
        /\ checkout' \in [Processes -> Commits]
        /\ loaded' \in [Processes -> [commit : Commits, index : Commits]]
        /\ seen' \in [Processes -> Commits \cup {None}]
        /\ announced' \in Commits \cup {None}
        /\ joined' \subseteq Processes
        /\ restarts' \in 0..MaxRestarts /\ refreshes' \in 0..MaxRefreshes
    BY <1>1, <1>11 DEF FollowCommit, IndexInv, TypeOK, repository
  <2> HIDE DEF d
  <2> QED BY <2>1, <2>2, <2>3, <2>4, SetLocalStep DEF IndexInv, TypeOK
<1>12. CASE Followed(t)
  <2> DEFINE x == IF task[t].got = task[t].want THEN "markSeen" ELSE "announce"
             d == [task[t] EXCEPT !.pc = x]
  <2> HIDE DEF x
  <2>1. d \in Local /\ d.pc \in {"announceSeen", "announceSet", "followSeen", "idle",
                                  "followCommit", "markSeen", "announce"}
    <3>1. x \in {"markSeen", "announce"}
      BY DEF x
    <3>2. d \in Local
      BY <1>1, <3>1, LocalUpdate
    <3>3. d.pc = x
      BY <1>1 DEF Local
    <3> HIDE DEF d
    <3> QED BY <3>1, <3>2, <3>3
  <2>2. SetLocal(t, d)
    BY <1>12 DEF Followed, Goto, x
  <2>3. /\ task[t].pc # "down"
        /\ t[2] = "refresh" => (task[t].pc # "idle" \/ t[1] \in joined)
        /\ UNCHANGED <<checkout, loaded>>
        /\ lock' = lock \/ (lock[t[1]] = t /\ lock' = [lock EXCEPT ![t[1]] = None])
        /\ joined' \subseteq joined \cup {t[1]}
    BY <1>1, <1>2, <1>12 DEF Followed, LoadOK, Main
  <2>4. /\ head' \in Commits /\ pushed' \subseteq Commits
        /\ have' \in [Processes -> SUBSET Commits]
        /\ checkout' \in [Processes -> Commits]
        /\ loaded' \in [Processes -> [commit : Commits, index : Commits]]
        /\ seen' \in [Processes -> Commits \cup {None}]
        /\ announced' \in Commits \cup {None}
        /\ joined' \subseteq Processes
        /\ restarts' \in 0..MaxRestarts /\ refreshes' \in 0..MaxRefreshes
    BY <1>1, <1>12 DEF Followed, IndexInv, TypeOK, repository
  <2> HIDE DEF d
  <2> QED BY <2>1, <2>2, <2>3, <2>4, SetLocalStep DEF IndexInv, TypeOK
<1>13. CASE MarkSeen(t)
  <2> DEFINE d == Idle
  <2>1. d \in Local /\ d.pc = "idle"
    BY <1>3
  <2>2. SetLocal(t, d)
    BY <1>13 DEF MarkSeen, GoIdle
  <2>3. /\ task[t].pc # "down"
        /\ t[2] = "refresh" => (task[t].pc # "idle" \/ t[1] \in joined)
        /\ UNCHANGED <<checkout, loaded>>
        /\ lock' = lock \/ (lock[t[1]] = t /\ lock' = [lock EXCEPT ![t[1]] = None])
        /\ joined' \subseteq joined \cup {t[1]}
    BY <1>1, <1>2, <1>13 DEF MarkSeen, LoadOK, Main
  <2>4. /\ head' \in Commits /\ pushed' \subseteq Commits
        /\ have' \in [Processes -> SUBSET Commits]
        /\ checkout' \in [Processes -> Commits]
        /\ loaded' \in [Processes -> [commit : Commits, index : Commits]]
        /\ seen' \in [Processes -> Commits \cup {None}]
        /\ announced' \in Commits \cup {None}
        /\ joined' \subseteq Processes
        /\ restarts' \in 0..MaxRestarts /\ refreshes' \in 0..MaxRefreshes
    BY <1>1, <1>13 DEF MarkSeen, IndexInv, TypeOK, repository
  <2> HIDE DEF d
  <2> QED BY <2>1, <2>2, <2>3, <2>4, SetLocalStep DEF IndexInv, TypeOK
<1> QED BY <1>4, <1>5, <1>6, <1>7, <1>8, <1>9, <1>10, <1>11, <1>12, <1>13

\* A load reads and swaps in what it reset the checkout to, since the lock keeps the other
\* tasks of the process out.
LEMMA LoadStep ==
  ASSUME IndexInv, NEW t \in Tasks, LoadFetch(t) \/ LoadRead(t) \/ LoadSwap(t)
  PROVE  IndexInv'
<1> DEFINE p == t[1]
<1>1. /\ p \in Processes /\ task[t] \in Local /\ LoadOK(t)
      /\ t[2] \in {"main", "refresh"} /\ t = <<p, t[2]>>
      /\ task[t].pc \in {"load", "read", "download"}
  BY TaskForm DEF IndexInv, TypeOK, LoadFetch, LoadRead, LoadSwap
<1> HIDE DEF p
<1>2. ASSUME NEW d \in Local, task' = [task EXCEPT ![t] = d], d.pc \notin {"down", "idle"},
             joined' = joined
      PROVE  task' \in [Tasks -> Local] /\ Quiet'
  <2>1. task' \in [Tasks -> Local] /\ task'[t] = d /\ \A u \in Tasks \ {t} : task'[u] = task[u]
    BY <1>2 DEF IndexInv, TypeOK
  <2>2. ASSUME NEW q \in Processes, task'[Main(q)].pc = "down"
        PROVE  task'[<<q, "refresh">>].pc = "idle" /\ q \notin joined'
    <3>1. Main(q) # t
      BY <1>2, <2>1, <2>2
    <3>2. task[Main(q)].pc = "down" /\ task[<<q, "refresh">>].pc = "idle" /\ q \notin joined
      BY <2>1, <2>2, <3>1, TasksOf DEF IndexInv, Quiet
    <3>3. t # <<q, "refresh">>
      BY <1>1, <3>2
    <3> QED BY <1>2, <2>1, <3>2, <3>3, TasksOf
  <2> QED BY <2>1, <2>2 DEF Quiet
<1>3. ASSUME NEW u \in Tasks, u[1] = p, lock[p] \in {t, None}, u # t
      PROVE  task[u].pc \notin {"read", "download"}
  BY <1>1, <1>3, IndexAssumption DEF IndexInv, LoadOK, Tasks
<1>4. CASE LoadFetch(t)
  <2> DEFINE c == Target(p, task[t].want)
             d == [task[t] EXCEPT !.pc = "read", !.got = c]
  <2>1. Fetched(p) \subseteq Commits /\ c \in Commits
    BY <1>1, HistoryAssumption DEF Fetched, Target, IndexInv, TypeOK
  <2> HIDE DEF c
  <2>2. d \in Local
    BY <1>1, <2>1, LocalUpdate
  <2>3. d.pc = "read" /\ d.got = c
    BY <1>1 DEF Local
  <2>4. /\ task' = [task EXCEPT ![t] = d]
        /\ lock[p] = None
        /\ lock' = [lock EXCEPT ![p] = t]
        /\ checkout' = [checkout EXCEPT ![p] = c]
        /\ have' = [have EXCEPT ![p] = Fetched(p)]
        /\ UNCHANGED <<head, pushed, loaded, seen, announced, joined, restarts, refreshes>>
    BY <1>4 DEF LoadFetch, SetLocal, repository, c, p
  <2> HIDE DEF d
  <2>5. task' \in [Tasks -> Local] /\ Quiet'
    BY <1>2, <2>2, <2>3, <2>4
  <2>6. TypeOK'
    BY <1>1, <2>1, <2>4, <2>5 DEF IndexInv, TypeOK
  <2>7. ASSUME NEW u \in Tasks PROVE LoadOK(u)'
    <3>1. CASE u = t
      BY <1>1, <2>3, <2>4, <3>1 DEF LoadOK, IndexInv, TypeOK, p
    <3>2. CASE u # t /\ u[1] = p
      <4>1. task'[u] = task[u] /\ task[u].pc \notin {"read", "download"}
        BY <1>3, <2>4, <3>2 DEF IndexInv, TypeOK
      <4> QED BY <4>1 DEF LoadOK
    <3>3. CASE u[1] # p
      <4>1. u # t /\ u[1] \in Processes
        BY <3>3, TaskForm DEF p
      <4>2. task'[u] = task[u] /\ lock'[u[1]] = lock[u[1]] /\ checkout'[u[1]] = checkout[u[1]]
        BY <2>4, <3>3, <4>1 DEF IndexInv, TypeOK
      <4> QED BY <4>2 DEF LoadOK, IndexInv
    <3> QED BY <3>1, <3>2, <3>3
  <2>8. IndexIsOfItsCommit'
    BY <2>4 DEF IndexInv, IndexIsOfItsCommit
  <2> QED BY <2>5, <2>6, <2>7, <2>8 DEF IndexInv
<1>5. CASE LoadRead(t)
  <2> DEFINE d == [task[t] EXCEPT !.pc = "download", !.index = checkout[p]]
  <2>1. checkout[p] \in Commits /\ task[t].got = checkout[p] /\ lock[p] = t
    BY <1>1, <1>5 DEF IndexInv, TypeOK, LoadOK, LoadRead, p
  <2>2. d \in Local
    BY <1>1, <2>1, LocalUpdate
  <2>3. d.pc = "download" /\ d.got = task[t].got /\ d.index = checkout[p]
    BY <1>1 DEF Local
  <2>4. /\ task' = [task EXCEPT ![t] = d]
        /\ UNCHANGED <<head, pushed, have, checkout, loaded, seen, announced, lock, joined,
                       restarts, refreshes>>
    BY <1>5 DEF LoadRead, SetLocal, repository, p
  <2> HIDE DEF d
  <2>5. task' \in [Tasks -> Local] /\ Quiet'
    BY <1>2, <2>2, <2>3, <2>4
  <2>6. TypeOK'
    BY <2>4, <2>5 DEF IndexInv, TypeOK
  <2>7. ASSUME NEW u \in Tasks PROVE LoadOK(u)'
    <3>1. CASE u = t
      <4>1. task'[u] = d /\ lock'[u[1]] = u
        BY <2>1, <2>4, <3>1 DEF IndexInv, TypeOK, p
      <4> QED BY <2>1, <2>3, <4>1 DEF LoadOK
    <3>2. CASE u # t
      BY <2>4, <3>2 DEF LoadOK, IndexInv, TypeOK
    <3> QED BY <3>1, <3>2
  <2>8. IndexIsOfItsCommit'
    BY <2>4 DEF IndexInv, IndexIsOfItsCommit
  <2> QED BY <2>5, <2>6, <2>7, <2>8 DEF IndexInv
<1>6. CASE LoadSwap(t)
  <2> DEFINE d == [task[t] EXCEPT !.pc = task[t].next]
             new == [commit |-> task[t].got, index |-> task[t].index]
  <2>1. /\ task[t].got \in Commits /\ task[t].index = task[t].got /\ lock[p] = t
        /\ task[t].next \in {"join", "followed", "announce"}
    BY <1>1, <1>6 DEF LoadOK, LoadSwap, Local, p
  <2>2. d \in Local
    BY <1>1, <2>1, LocalUpdate
  <2>3. d.pc \in {"join", "followed", "announce"}
    BY <1>1, <2>1 DEF Local
  <2>4. /\ task' = [task EXCEPT ![t] = d]
        /\ loaded' = [loaded EXCEPT ![p] = new]
        /\ lock' = [lock EXCEPT ![p] = None]
        /\ UNCHANGED <<head, pushed, have, checkout, seen, announced, joined, restarts, refreshes>>
    BY <1>6 DEF LoadSwap, Goto, SetLocal, repository, p
  <2>5. new \in [commit : Commits, index : Commits] /\ new.commit = new.index
    BY <2>1
  <2> HIDE DEF d, new
  <2>6. task' \in [Tasks -> Local] /\ Quiet'
    BY <1>2, <2>2, <2>3, <2>4
  <2>7. TypeOK'
    BY <1>1, <2>4, <2>5, <2>6 DEF IndexInv, TypeOK
  <2>8. ASSUME NEW u \in Tasks PROVE LoadOK(u)'
    <3>1. CASE u = t
      <4>1. task'[u] = d
        BY <2>4, <3>1 DEF IndexInv, TypeOK
      <4> QED BY <2>3, <4>1 DEF LoadOK
    <3>2. CASE u # t /\ u[1] = p
      <4>1. task'[u] = task[u] /\ task[u].pc \notin {"read", "download"}
        BY <1>3, <2>1, <2>4, <3>2 DEF IndexInv, TypeOK
      <4> QED BY <4>1 DEF LoadOK
    <3>3. CASE u[1] # p
      <4>1. u # t /\ u[1] \in Processes
        BY <3>3, TaskForm DEF p
      <4>2. task'[u] = task[u] /\ lock'[u[1]] = lock[u[1]] /\ checkout'[u[1]] = checkout[u[1]]
        BY <2>4, <3>3, <4>1 DEF IndexInv, TypeOK
      <4> QED BY <4>2 DEF LoadOK, IndexInv
    <3> QED BY <3>1, <3>2, <3>3
  <2>9. IndexIsOfItsCommit'
    BY <1>1, <2>4, <2>5 DEF IndexInv, TypeOK, IndexIsOfItsCommit
  <2> QED BY <2>6, <2>7, <2>8, <2>9 DEF IndexInv
<1> QED BY <1>4, <1>5, <1>6

\* Starting, joining, stopping, a refresh and a push
LEMMA ProcessStep ==
  ASSUME IndexInv, NEW p \in Processes, Start(p) \/ Join(p) \/ Refresh(p) \/ Stop(p)
  PROVE  IndexInv'
<1> DEFINE t == Main(p)
           r == <<p, "refresh">>
<1>1. /\ t \in Tasks /\ r \in Tasks /\ t # r /\ t[1] = p /\ r[1] = p
      /\ t[2] = "main" /\ r[2] = "refresh"
      /\ task[t] \in Local /\ task[r] \in Local
      /\ loaded[p].commit \in Commits
  BY TasksOf DEF IndexInv, TypeOK, Main
<1>2. \A u \in Tasks : u[1] = p => u \in {t, r}
  BY TaskForm DEF Main
<1>3. /\ Idle \in Local /\ Idle.pc = "idle"
      /\ Down \in Local /\ Down.pc = "down"
  BY LocalConstants DEF Idle, Down
<1> HIDE DEF t, r
<1>4. CASE Start(p)
  <2>1. /\ task[t].pc = "down" /\ task[r].pc = "idle" /\ p \notin joined
    BY <1>4 DEF Start, IndexInv, Quiet, t, r
  <2> DEFINE new == [commit |-> head, index |-> head]
  <2>2. PICK d \in Local : SetLocal(t, d) /\ d.pc \in {"load", "join"}
    <3>1. [Idle EXCEPT !.pc = "load", !.want = None, !.next = "join"] \in Local
      BY LocalStart
    <3>2. [Idle EXCEPT !.pc = "load", !.want = None, !.next = "join"].pc = "load"
      BY DEF Idle
    <3>3. [task[t] EXCEPT !.pc = "join"] \in Local
      BY <1>1, LocalUpdate
    <3>4. [task[t] EXCEPT !.pc = "join"].pc = "join"
      BY <1>1 DEF Local
    <3>5. StartLoad(t, None, "join") \/ Goto(t, "join")
      BY <1>4 DEF Start, t
    <3> QED BY <3>1, <3>2, <3>3, <3>4, <3>5 DEF StartLoad, Goto
  <2>3. /\ task' = [task EXCEPT ![t] = d]
        /\ have' = [have EXCEPT ![p] = Fetched(p)]
        /\ checkout' = [checkout EXCEPT ![p] = head]
        /\ loaded' = [loaded EXCEPT ![p] = new]
        /\ seen' = [seen EXCEPT ![p] = None]
        /\ UNCHANGED <<head, pushed, announced, lock, joined, restarts, refreshes>>
    BY <1>4, <2>2 DEF Start, SetLocal, repository, t
  <2>4. head \in Commits /\ Fetched(p) \subseteq Commits
    BY HistoryAssumption DEF IndexInv, TypeOK, Fetched
  <2>5. new \in [commit : Commits, index : Commits] /\ new.commit = new.index
    BY <2>4
  <2> HIDE DEF new
  <2>6. task' \in [Tasks -> Local] /\ task'[t] = d /\ \A u \in Tasks \ {t} : task'[u] = task[u]
    BY <1>1, <2>3 DEF IndexInv, TypeOK
  <2>7. TypeOK'
    BY <2>3, <2>4, <2>5, <2>6 DEF IndexInv, TypeOK
  <2>8. ASSUME NEW u \in Tasks PROVE LoadOK(u)'
    <3>1. CASE u = t
      BY <2>2, <2>6, <3>1 DEF LoadOK
    <3>2. CASE u = r
      BY <1>1, <2>1, <2>6, <3>2 DEF LoadOK
    <3>3. CASE u \notin {t, r}
      <4>1. u[1] # p /\ u[1] \in Processes /\ task'[u] = task[u]
        BY <1>2, <2>6, <3>3, TaskForm
      <4>2. lock'[u[1]] = lock[u[1]] /\ checkout'[u[1]] = checkout[u[1]]
        BY <2>3, <4>1 DEF IndexInv, TypeOK
      <4> QED BY <4>1, <4>2 DEF LoadOK, IndexInv
    <3> QED BY <3>1, <3>2, <3>3
  <2>9. IndexIsOfItsCommit'
    BY <2>3, <2>5 DEF IndexInv, TypeOK, IndexIsOfItsCommit
  <2>10. Quiet'
    <3> SUFFICES ASSUME NEW q \in Processes, task'[Main(q)].pc = "down"
                 PROVE  task'[<<q, "refresh">>].pc = "idle" /\ q \notin joined'
      BY DEF Quiet
    <3>1. Main(q) # t /\ <<q, "refresh">> # t
      BY <1>1, <2>2, <2>6
    <3> QED BY <2>3, <2>6, <3>1, TasksOf DEF IndexInv, Quiet
  <2> QED BY <2>7, <2>8, <2>9, <2>10 DEF IndexInv
<1>5. CASE Join(p)
  <2>1. task[t].pc = "join"
    BY <1>5 DEF Join, t
  <2>2. PICK d \in Local : SetLocal(t, d) /\ d.pc \in {"idle", "followGet", "announce"}
    <3>1. \A x \in {"followGet", "announce"} : [task[t] EXCEPT !.pc = x] \in Local
      BY <1>1, LocalUpdate
    <3>2. \A x \in {"followGet", "announce"} : [task[t] EXCEPT !.pc = x].pc = x
      BY <1>1 DEF Local
    <3>3. GoIdle(t) \/ Goto(t, "followGet") \/ Goto(t, "announce")
      BY <1>5 DEF Join, t
    <3> QED BY <1>3, <3>1, <3>2, <3>3 DEF GoIdle, Goto
  <2>3. /\ seen' \in [Processes -> Commits \cup {None}]
        /\ joined' \subseteq joined \cup {p}
        /\ UNCHANGED <<head, pushed, have, checkout, loaded, announced, lock, restarts, refreshes>>
    BY <1>5 DEF Join, IndexInv, TypeOK, repository
  <2>4. /\ task' \in [Tasks -> Local]
        /\ lock' \in [Processes -> Tasks \cup {None}]
        /\ \A u \in Tasks : LoadOK(u)'
        /\ IndexIsOfItsCommit'
        /\ Quiet'
    BY <1>1, <2>1, <2>2, <2>3, SetLocalStep
  <2>5. joined' \subseteq Processes
    BY <2>3 DEF IndexInv, TypeOK
  <2> QED BY <2>3, <2>4, <2>5 DEF IndexInv, TypeOK
<1>6. CASE Refresh(p)
  <2> DEFINE d == [Idle EXCEPT !.pc = "load", !.want = None, !.next = "announce"]
  <2>1. d \in Local
    BY LocalStart
  <2>2. d.pc = "load"
    BY DEF Idle
  <2>3. /\ p \in joined /\ task[r].pc = "idle" /\ SetLocal(r, d)
        /\ refreshes < MaxRefreshes /\ refreshes' = refreshes + 1
        /\ UNCHANGED <<head, pushed, have, checkout, loaded, seen, announced, lock, joined, restarts>>
    BY <1>6 DEF Refresh, StartLoad, repository, r
  <2> HIDE DEF d
  <2>4. /\ task' \in [Tasks -> Local]
        /\ lock' \in [Processes -> Tasks \cup {None}]
        /\ \A u \in Tasks : LoadOK(u)'
        /\ IndexIsOfItsCommit'
        /\ Quiet'
    BY <1>1, <2>1, <2>2, <2>3, SetLocalStep
  <2>5. refreshes' \in 0..MaxRefreshes
    BY <2>3, IndexAssumption DEF IndexInv, TypeOK
  <2> QED BY <2>3, <2>4, <2>5 DEF IndexInv, TypeOK
<1>7. CASE Stop(p)
  <2>1. /\ task' = [task EXCEPT ![t] = Down, ![r] = Idle]
        /\ lock' = [lock EXCEPT ![p] = None]
        /\ joined' = joined \ {p}
        /\ restarts < MaxRestarts /\ restarts' = restarts + 1
        /\ UNCHANGED <<head, pushed, have, checkout, loaded, seen, announced, refreshes>>
    BY <1>7 DEF Stop, repository, t, r
  <2>2. /\ task' \in [Tasks -> Local] /\ task'[t] = Down /\ task'[r] = Idle
        /\ \A u \in Tasks \ {t, r} : task'[u] = task[u]
    BY <1>1, <1>3, <2>1 DEF IndexInv, TypeOK
  <2>3. TypeOK'
    BY <2>1, <2>2, IndexAssumption DEF IndexInv, TypeOK
  <2>4. ASSUME NEW u \in Tasks PROVE LoadOK(u)'
    <3>1. CASE u \in {t, r}
      BY <1>3, <2>2, <3>1 DEF LoadOK
    <3>2. CASE u \notin {t, r}
      <4>1. u[1] # p /\ u[1] \in Processes /\ task'[u] = task[u]
        BY <1>2, <2>2, <3>2, TaskForm
      <4>2. lock'[u[1]] = lock[u[1]] /\ checkout'[u[1]] = checkout[u[1]]
        BY <2>1, <4>1 DEF IndexInv, TypeOK
      <4> QED BY <4>1, <4>2 DEF LoadOK, IndexInv
    <3> QED BY <3>1, <3>2
  <2>5. IndexIsOfItsCommit'
    BY <2>1 DEF IndexInv, IndexIsOfItsCommit
  <2>6. Quiet'
    <3> SUFFICES ASSUME NEW q \in Processes, task'[Main(q)].pc = "down"
                 PROVE  task'[<<q, "refresh">>].pc = "idle" /\ q \notin joined'
      BY DEF Quiet
    <3>1. CASE q = p
      BY <1>3, <2>1, <2>2, <3>1 DEF r
    <3>2. CASE q # p
      <4>1. Main(q) \notin {t, r} /\ <<q, "refresh">> \notin {t, r}
        BY <1>1, <3>2, TasksOf DEF Main, t, r
      <4> QED BY <2>1, <2>2, <4>1, TasksOf DEF IndexInv, Quiet
    <3> QED BY <3>1, <3>2
  <2> QED BY <2>3, <2>4, <2>5, <2>6 DEF IndexInv
<1> QED BY <1>4, <1>5, <1>6, <1>7

LEMMA PushStep ==
  ASSUME IndexInv, NEW c \in Commits, Push(c)
  PROVE  IndexInv'
<1>1. /\ head' \in Commits /\ pushed' \subseteq Commits
      /\ UNCHANGED <<have, checkout, loaded, seen, announced, lock, joined, task,
                     restarts, refreshes>>
  BY DEF Push, IndexInv, TypeOK
<1>2. TypeOK'
  BY <1>1 DEF IndexInv, TypeOK
<1> QED BY <1>1, <1>2 DEF IndexInv, LoadOK, IndexIsOfItsCommit, Quiet

LEMMA IndexInvStep == IndexInv /\ [Next]_indexVars => IndexInv'
<1> SUFFICES ASSUME IndexInv, [Next]_indexVars PROVE IndexInv'
  OBVIOUS
<1>1. ASSUME NEW t \in Tasks, TaskStep(t) \/ LoadFails(t) \/ AnnounceFails(t) PROVE IndexInv'
  <2>1. t[1] \in Processes
    BY TaskForm
  <2> QED BY <1>1, <2>1, LoadStep, OtherStep, ProcessStep DEF TaskStep
<1>2. ASSUME NEW p \in Processes, Refresh(p) \/ Stop(p) PROVE IndexInv'
  BY <1>2, ProcessStep
<1>3. ASSUME NEW c \in Commits, Push(c) PROVE IndexInv'
  BY <1>3, PushStep
<1>4. ASSUME UNCHANGED indexVars PROVE IndexInv'
  BY <1>4 DEF indexVars, IndexInv, TypeOK, LoadOK, IndexIsOfItsCommit, Quiet
<1> QED BY <1>1, <1>2, <1>3, <1>4 DEF Next

\* The types of the variables hold in every behaviour, whatever the processes do.
THEOREM IndexTypeCorrect == Spec => []TypeOK
<1>1. IndexInv => TypeOK
  BY DEF IndexInv
<1> QED BY InitIndexInv, IndexInvStep, <1>1, PTL DEF Spec

\* However many refreshes, looks of the follower and restarts overlap, the index a process
\* has in memory is that of the commit IndexManager::commit names (load_lock).
THEOREM LoadedIndexIsOfItsCommit == Spec => []IndexIsOfItsCommit
<1>1. IndexInv => IndexIsOfItsCommit
  BY DEF IndexInv
<1> QED BY InitIndexInv, IndexInvStep, <1>1, PTL DEF Spec

-----------------------------------------------------------------------------
(* In a process that serves no refresh, what was seen is what is loaded    *)

\* Where the main task of p is in following or announcing.  `settled' are the places where
\* nothing was swapped in since seen_announcement was written.
SeenOK(p) ==
  LET l == task[Main(p)]
      settled == {"idle", "followGet", "followSeen", "followCommit", "load", "read",
                  "download", "announceSet"}
  IN
  /\ l.pc \in settled /\ seen[p] # None => loaded[p].commit = seen[p]
  /\ l.pc = "join" => seen[p] = None
  /\ l.pc \in {"load", "read", "download"} /\ l.next = "join" => seen[p] = None
  /\ l.pc = "followed" => loaded[p].commit = l.got
  /\ l.pc = "markSeen" => loaded[p].commit = l.want
  /\ l.pc \in {"announceSeen", "announceSet"} => loaded[p].commit = l.got

\* The processes that only follow
Followers == Processes \ Refreshers

SeenInv ==
  /\ IndexInv
  /\ \A p \in Followers : task[<<p, "refresh">>] = Idle /\ SeenOK(p)

LEMMA InitSeenInv == Init => SeenInv
<1> SUFFICES ASSUME Init PROVE SeenInv
  OBVIOUS
<1>1. Down.pc = "down"
  BY DEF Idle, Down
<1>2. ASSUME NEW p \in Processes PROVE task[<<p, "refresh">>] = Idle /\ task[Main(p)] = Down
  BY TasksOf DEF Init, Main
<1> QED BY <1>1, <1>2, InitIndexInv DEF SeenInv, SeenOK, Followers

\* A step of one process leaves the others as they were.
LEMMA OthersSeen ==
  ASSUME SeenInv, NEW p \in Processes, NEW q \in Followers, q # p,
         \A u \in Tasks : u[1] # p => task'[u] = task[u],
         seen'[q] = seen[q], loaded'[q] = loaded[q]
  PROVE  task'[<<q, "refresh">>] = Idle /\ SeenOK(q)'
<1>1. task'[Main(q)] = task[Main(q)] /\ task'[<<q, "refresh">>] = task[<<q, "refresh">>]
  BY TasksOf DEF Followers
<1> QED BY <1>1 DEF SeenInv, SeenOK

LEMMA SeenTaskStep ==
  ASSUME SeenInv, NEW p \in Followers, NEW t, t = Main(p),
         TaskStep(t) \/ LoadFails(t) \/ AnnounceFails(t)
  PROVE  \A q \in Followers : task'[<<q, "refresh">>] = Idle /\ SeenOK(q)'
<1>1. /\ t \in Tasks /\ t[1] = p /\ t # <<p, "refresh">> /\ task[t] \in Local
      /\ task[<<p, "refresh">>] = Idle /\ <<p, "refresh">> \in Tasks
      /\ SeenOK(p) /\ p \in Processes
  BY TasksOf DEF SeenInv, IndexInv, TypeOK, Followers
<1>2. /\ seen \in [Processes -> Commits \cup {None}]
      /\ loaded \in [Processes -> [commit : Commits, index : Commits]]
      /\ task \in [Tasks -> Local]
  BY DEF SeenInv, IndexInv, TypeOK
<1>3. Idle.pc = "idle"
  BY DEF Idle
<1>4. ASSUME NEW d, SetLocal(t, d),
             \A q \in Processes \ {p} : seen'[q] = seen[q] /\ loaded'[q] = loaded[q],
             task'[t] = d => SeenOK(p)'
      PROVE  \A q \in Followers : task'[<<q, "refresh">>] = Idle /\ SeenOK(q)'
  <2>1. /\ task'[t] = d /\ task'[<<p, "refresh">>] = Idle
        /\ \A u \in Tasks : u[1] # p => task'[u] = task[u]
    BY <1>1, <1>2, <1>4 DEF SetLocal
  <2>2. SeenOK(p)'
    BY <1>4, <2>1
  <2>3. ASSUME NEW q \in Followers, q # p
        PROVE  task'[<<q, "refresh">>] = Idle /\ SeenOK(q)'
    <3>1. seen'[q] = seen[q] /\ loaded'[q] = loaded[q]
      BY <1>4, <2>3 DEF Followers
    <3> QED BY <1>1, <2>1, <2>3, <3>1, OthersSeen
  <2> QED BY <2>1, <2>2, <2>3
<1>5. ASSUME NEW d, task'[t] = d, UNCHANGED <<seen, loaded>>, d.pc = "idle",
             seen[p] # None => loaded[p].commit = seen[p]
      PROVE  SeenOK(p)'
  BY <1>5 DEF SeenOK
<1>6. CASE LoadFetch(t)
  <2> DEFINE d == [task[t] EXCEPT !.pc = "read", !.got = Target(p, task[t].want)]
  <2>1. SetLocal(t, d) /\ UNCHANGED <<seen, loaded>> /\ task[t].pc = "load"
    BY <1>1, <1>6 DEF LoadFetch
  <2>2. d.pc = "read" /\ d.next = task[t].next
    BY <1>1 DEF Local
  <2> HIDE DEF d
  <2>3. task'[t] = d => SeenOK(p)'
    BY <1>1, <2>1, <2>2 DEF SeenOK
  <2> QED BY <1>4, <2>1, <2>3
<1>7. CASE LoadRead(t)
  <2> DEFINE d == [task[t] EXCEPT !.pc = "download", !.index = checkout[p]]
  <2>1. SetLocal(t, d) /\ UNCHANGED <<seen, loaded>> /\ task[t].pc = "read"
    BY <1>1, <1>7 DEF LoadRead
  <2>2. d.pc = "download" /\ d.next = task[t].next
    BY <1>1 DEF Local
  <2> HIDE DEF d
  <2>3. task'[t] = d => SeenOK(p)'
    BY <1>1, <2>1, <2>2 DEF SeenOK
  <2> QED BY <1>4, <2>1, <2>3
<1>8. CASE LoadSwap(t)
  <2> DEFINE d == [task[t] EXCEPT !.pc = task[t].next]
             new == [commit |-> task[t].got, index |-> task[t].index]
  <2>1. /\ SetLocal(t, d) /\ seen' = seen /\ task[t].pc = "download"
        /\ loaded' = [loaded EXCEPT ![p] = new]
    BY <1>1, <1>8 DEF LoadSwap, Goto
  <2>2. /\ d.pc = task[t].next /\ d.got = task[t].got /\ d.next = task[t].next
        /\ task[t].next \in {"join", "followed", "announce"} /\ new.commit = task[t].got
    BY <1>1 DEF Local
  <2> HIDE DEF d, new
  <2>3. loaded'[p] = new /\ \A q \in Processes \ {p} : loaded'[q] = loaded[q]
    BY <1>1, <1>2, <2>1
  <2>4. task'[t] = d => SeenOK(p)'
    BY <1>1, <2>1, <2>2, <2>3 DEF SeenOK
  <2> QED BY <1>4, <2>1, <2>3, <2>4
<1>9. CASE LoadFails(t)
  <2>1. SetLocal(t, Idle) /\ UNCHANGED <<seen, loaded>> /\ task[t].pc = "download"
    BY <1>9 DEF LoadFails, GoIdle
  <2>2. seen[p] # None => loaded[p].commit = seen[p]
    BY <1>1, <2>1 DEF SeenOK
  <2> QED BY <1>3, <1>4, <1>5, <2>1, <2>2
<1>10. CASE AnnounceRead(t)
  <2> DEFINE d == [task[t] EXCEPT !.pc = "announceSeen", !.got = loaded[p].commit]
  <2>1. SetLocal(t, d) /\ UNCHANGED <<seen, loaded>>
    BY <1>1, <1>10 DEF AnnounceRead
  <2>2. d.pc = "announceSeen" /\ d.got = loaded[p].commit
    BY <1>1 DEF Local
  <2> HIDE DEF d
  <2>3. task'[t] = d => SeenOK(p)'
    BY <1>1, <2>1, <2>2 DEF SeenOK
  <2> QED BY <1>4, <2>1, <2>3
<1>11. CASE AnnounceSeen(t)
  <2> DEFINE d == [task[t] EXCEPT !.pc = "announceSet"]
  <2>1. /\ SetLocal(t, d) /\ loaded' = loaded /\ task[t].pc = "announceSeen"
        /\ seen' = [seen EXCEPT ![p] = task[t].got]
    BY <1>1, <1>11 DEF AnnounceSeen, Goto
  <2>2. d.pc = "announceSet" /\ d.got = task[t].got
    BY <1>1 DEF Local
  <2> HIDE DEF d
  <2>3. seen'[p] = task[t].got /\ \A q \in Processes \ {p} : seen'[q] = seen[q]
    BY <1>1, <1>2, <2>1
  <2>4. task'[t] = d => SeenOK(p)'
    BY <1>1, <2>1, <2>2, <2>3 DEF SeenOK
  <2> QED BY <1>4, <2>1, <2>3, <2>4
<1>12. CASE AnnounceSet(t) \/ AnnounceFails(t)
  <2>1. SetLocal(t, Idle) /\ UNCHANGED <<seen, loaded>> /\ task[t].pc = "announceSet"
    BY <1>12 DEF AnnounceSet, AnnounceFails, GoIdle
  <2>2. seen[p] # None => loaded[p].commit = seen[p]
    BY <1>1, <2>1 DEF SeenOK
  <2> QED BY <1>3, <1>4, <1>5, <2>1, <2>2
<1>13. CASE FollowGet(t)
  <2> DEFINE d == [task[t] EXCEPT !.pc = "followSeen", !.want = announced]
  <2>1. SetLocal(t, d) /\ UNCHANGED <<seen, loaded>> /\ task[t].pc \in {"idle", "followGet"}
    BY <1>1, <1>13 DEF FollowGet
  <2>2. d.pc = "followSeen"
    BY <1>1 DEF Local
  <2> HIDE DEF d
  <2>3. task'[t] = d => SeenOK(p)'
    BY <1>1, <2>1, <2>2 DEF SeenOK
  <2> QED BY <1>4, <2>1, <2>3
<1>14. CASE FollowSeen(t)
  <2> DEFINE d == [task[t] EXCEPT !.pc = "followCommit"]
  <2>1. /\ SetLocal(t, Idle) \/ SetLocal(t, d)
        /\ UNCHANGED <<seen, loaded>> /\ task[t].pc = "followSeen"
    BY <1>1, <1>14 DEF FollowSeen, GoIdle, Goto
  <2>2. d.pc = "followCommit"
    BY <1>1 DEF Local
  <2> HIDE DEF d
  <2>3. seen[p] # None => loaded[p].commit = seen[p]
    BY <1>1, <2>1 DEF SeenOK
  <2>4. task'[t] = d => SeenOK(p)'
    BY <1>1, <2>1, <2>2, <2>3 DEF SeenOK
  <2> QED BY <1>3, <1>4, <1>5, <2>1, <2>3, <2>4
<1>15. CASE FollowCommit(t)
  <2> DEFINE d == [task[t] EXCEPT !.pc = "markSeen"]
             e == [Idle EXCEPT !.pc = "load", !.want = task[t].want, !.next = "followed"]
  <2>1. /\ \/ SetLocal(t, d) /\ loaded[p].commit = task[t].want
           \/ SetLocal(t, e)
        /\ UNCHANGED <<seen, loaded>> /\ task[t].pc = "followCommit"
    BY <1>1, <1>15 DEF FollowCommit, StartLoad, Goto
  <2>2. d.pc = "markSeen" /\ d.want = task[t].want
    BY <1>1 DEF Local
  <2>3. e.pc = "load" /\ e.next = "followed"
    BY DEF Idle
  <2> HIDE DEF d, e
  <2>4. task'[t] = d /\ loaded[p].commit = task[t].want => SeenOK(p)'
    BY <1>1, <2>1, <2>2 DEF SeenOK
  <2>5. task'[t] = e => SeenOK(p)'
    BY <1>1, <2>1, <2>3 DEF SeenOK
  <2> QED BY <1>4, <2>1, <2>4, <2>5
<1>16. CASE Followed(t)
  <2> DEFINE d == [task[t] EXCEPT !.pc = "markSeen"]
             e == [task[t] EXCEPT !.pc = "announce"]
  <2>1. /\ \/ SetLocal(t, d) /\ task[t].got = task[t].want
           \/ SetLocal(t, e)
        /\ UNCHANGED <<seen, loaded>> /\ task[t].pc = "followed"
    BY <1>1, <1>16 DEF Followed, Goto
  <2>2. d.pc = "markSeen" /\ d.want = task[t].want /\ e.pc = "announce"
    BY <1>1 DEF Local
  <2> HIDE DEF d, e
  <2>3. task'[t] = d /\ task[t].got = task[t].want => SeenOK(p)'
    BY <1>1, <2>1, <2>2 DEF SeenOK
  <2>4. task'[t] = e => SeenOK(p)'
    BY <1>1, <2>1, <2>2 DEF SeenOK
  <2> QED BY <1>4, <2>1, <2>3, <2>4
<1>17. CASE MarkSeen(t)
  <2>1. /\ SetLocal(t, Idle) /\ loaded' = loaded /\ task[t].pc = "markSeen"
        /\ seen' = [seen EXCEPT ![p] = task[t].want]
    BY <1>1, <1>17 DEF MarkSeen, GoIdle
  <2>2. seen'[p] = task[t].want /\ \A q \in Processes \ {p} : seen'[q] = seen[q]
    BY <1>1, <1>2, <2>1
  <2>3. task'[t] = Idle => SeenOK(p)'
    BY <1>1, <1>3, <2>1, <2>2 DEF SeenOK
  <2> QED BY <1>4, <2>1, <2>2, <2>3
<1>18. CASE Start(p)
  <2> DEFINE d == [task[t] EXCEPT !.pc = "join"]
             e == [Idle EXCEPT !.pc = "load", !.want = None, !.next = "join"]
             new == [commit |-> head, index |-> head]
  <2>1. /\ SetLocal(t, d) \/ SetLocal(t, e)
        /\ seen' = [seen EXCEPT ![p] = None]
        /\ loaded' = [loaded EXCEPT ![p] = new]
    BY <1>18 DEF Start, StartLoad, Goto
  <2>2. d.pc = "join"
    BY <1>1 DEF Local
  <2>3. e.pc = "load"
    BY DEF Idle
  <2> HIDE DEF d, e, new
  <2>4. /\ seen'[p] = None
        /\ \A q \in Processes \ {p} : seen'[q] = seen[q] /\ loaded'[q] = loaded[q]
    BY <1>1, <1>2, <2>1
  <2>5. task'[t] \in {d, e} => SeenOK(p)'
    BY <1>1, <2>2, <2>3, <2>4 DEF SeenOK
  <2> QED BY <1>4, <2>1, <2>4, <2>5
<1>19. CASE Join(p)
  <2> DEFINE d == [task[t] EXCEPT !.pc = "followGet"]
             e == [task[t] EXCEPT !.pc = "announce"]
  <2>1. /\ \/ /\ SetLocal(t, Idle) /\ announced = loaded[p].commit
              /\ seen' = [seen EXCEPT ![p] = announced]
           \/ /\ SetLocal(t, d) \/ SetLocal(t, e)
              /\ seen' = seen
        /\ loaded' = loaded /\ task[t].pc = "join"
    BY <1>19 DEF Join, GoIdle, Goto
  <2>2. d.pc = "followGet" /\ e.pc = "announce"
    BY <1>1 DEF Local
  <2> HIDE DEF d, e
  <2>3. seen[p] = None
    BY <1>1, <2>1 DEF SeenOK
  <2>4. CASE /\ SetLocal(t, Idle) /\ announced = loaded[p].commit
             /\ seen' = [seen EXCEPT ![p] = announced]
    <3>1. seen'[p] = announced /\ \A q \in Processes \ {p} : seen'[q] = seen[q]
      BY <1>1, <1>2, <2>4
    <3>2. task'[t] = Idle => SeenOK(p)'
      BY <1>1, <1>3, <2>1, <2>4, <3>1 DEF SeenOK
    <3> QED BY <1>4, <2>1, <2>4, <3>1, <3>2
  <2>5. CASE (SetLocal(t, d) \/ SetLocal(t, e)) /\ seen' = seen
    <3>1. task'[t] \in {d, e} => SeenOK(p)'
      BY <1>1, <2>1, <2>2, <2>3, <2>5 DEF SeenOK
    <3> QED BY <1>4, <2>1, <2>5, <3>1
  <2> QED BY <2>1, <2>4, <2>5
<1> QED BY <1>1, <1>6, <1>7, <1>8, <1>9, <1>10, <1>11, <1>12, <1>13, <1>14, <1>15, <1>16, <1>17,
           <1>18, <1>19 DEF TaskStep

\* A task of a process that serves refreshes leaves the followers alone.
LEMMA RefresherStep ==
  ASSUME SeenInv, NEW t \in Tasks, t[1] \notin Followers,
         TaskStep(t) \/ LoadFails(t) \/ AnnounceFails(t)
  PROVE  \A q \in Followers : task'[<<q, "refresh">>] = Idle /\ SeenOK(q)'
<1>1. t[1] \in Processes
  BY TaskForm
<1>2. /\ seen \in [Processes -> Commits \cup {None}]
      /\ loaded \in [Processes -> [commit : Commits, index : Commits]]
      /\ task \in [Tasks -> Local]
  BY DEF SeenInv, IndexInv, TypeOK
<1>3. /\ \E d : task' = [task EXCEPT ![t] = d]
      /\ \E s : seen' = [seen EXCEPT ![t[1]] = s]
      /\ \E l : loaded' = [loaded EXCEPT ![t[1]] = l]
  <2>1. seen' = seen => seen' = [seen EXCEPT ![t[1]] = seen[t[1]]]
    BY <1>1, <1>2
  <2>2. loaded' = loaded => loaded' = [loaded EXCEPT ![t[1]] = loaded[t[1]]]
    BY <1>1, <1>2
  <2>3. CASE LoadFetch(t) \/ LoadRead(t) \/ LoadSwap(t) \/ LoadFails(t)
    BY <2>1, <2>2, <2>3 DEF LoadFetch, LoadRead, LoadSwap, LoadFails, SetLocal, Goto, GoIdle
  <2>4. CASE AnnounceRead(t) \/ AnnounceSeen(t) \/ AnnounceSet(t) \/ AnnounceFails(t)
    BY <2>1, <2>2, <2>4 DEF AnnounceRead, AnnounceSeen, AnnounceSet, AnnounceFails, SetLocal,
       Goto, GoIdle
  <2>5. CASE FollowGet(t) \/ FollowSeen(t) \/ FollowCommit(t) \/ Followed(t) \/ MarkSeen(t)
    BY <2>1, <2>2, <2>5 DEF FollowGet, FollowSeen, FollowCommit, Followed, MarkSeen, StartLoad,
       SetLocal, Goto, GoIdle
  <2>6. CASE t = Main(t[1]) /\ (Start(t[1]) \/ Join(t[1]))
    BY <2>1, <2>2, <2>6 DEF Start, Join, StartLoad, SetLocal, Goto, GoIdle
  <2> QED BY <2>3, <2>4, <2>5, <2>6 DEF TaskStep
<1>4. /\ \A u \in Tasks : u[1] # t[1] => task'[u] = task[u]
      /\ \A q \in Followers : seen'[q] = seen[q] /\ loaded'[q] = loaded[q]
  BY <1>2, <1>3 DEF Followers
<1> QED BY <1>1, <1>4, OthersSeen

LEMMA SeenInvStep == SeenInv /\ [Next]_indexVars => SeenInv'
<1> SUFFICES ASSUME SeenInv, [Next]_indexVars PROVE SeenInv'
  OBVIOUS
<1>1. IndexInv'
  BY IndexInvStep DEF SeenInv
<1> SUFFICES \A p \in Followers : task'[<<p, "refresh">>] = Idle /\ SeenOK(p)'
  BY <1>1 DEF SeenInv
<1>2. ASSUME NEW t \in Tasks, TaskStep(t) \/ LoadFails(t) \/ AnnounceFails(t)
      PROVE  \A p \in Followers : task'[<<p, "refresh">>] = Idle /\ SeenOK(p)'
  <2>1. t[1] \in Processes /\ t[2] \in {"main", "refresh"} /\ t = <<t[1], t[2]>>
    BY TaskForm
  <2>2. t[1] \in Followers => t = Main(t[1])
    <3> SUFFICES ASSUME t[1] \in Followers, t = <<t[1], "refresh">> PROVE FALSE
      BY <2>1 DEF Main
    <3>1. task[t].pc = "idle" /\ t # Main(t[1])
      BY <2>1, TasksOf DEF SeenInv, Idle
    <3>2. task[t].pc # "followGet" /\ ~(t = Main(t[1]))
      BY <3>1
    <3> QED BY <1>2, <3>1, <3>2 DEF TaskStep, LoadFetch, LoadRead, LoadSwap, AnnounceRead, AnnounceSeen,
               AnnounceSet, FollowGet, FollowSeen, FollowCommit, Followed, MarkSeen, LoadFails,
               AnnounceFails
  <2> QED BY <1>2, <2>1, <2>2, SeenTaskStep, RefresherStep
<1>3. ASSUME NEW p \in Processes, Refresh(p)
      PROVE  \A q \in Followers : task'[<<q, "refresh">>] = Idle /\ SeenOK(q)'
  <2>1. /\ p \notin Followers /\ UNCHANGED <<seen, loaded>>
        /\ \E d : task' = [task EXCEPT ![<<p, "refresh">>] = d]
    BY <1>3 DEF Refresh, Followers, StartLoad, SetLocal
  <2>2. \A u \in Tasks : u[1] # p => task'[u] = task[u]
    BY <2>1 DEF SeenInv, IndexInv, TypeOK
  <2> QED BY <2>1, <2>2, OthersSeen
<1>4. ASSUME NEW p \in Processes, Stop(p)
      PROVE  \A q \in Followers : task'[<<q, "refresh">>] = Idle /\ SeenOK(q)'
  <2>1. /\ task' = [task EXCEPT ![Main(p)] = Down, ![<<p, "refresh">>] = Idle]
        /\ UNCHANGED <<seen, loaded>>
    BY <1>4 DEF Stop
  <2>2. Main(p) \in Tasks /\ <<p, "refresh">> \in Tasks /\ Main(p) # <<p, "refresh">>
        /\ Main(p)[1] = p /\ <<p, "refresh">>[1] = p
    BY TasksOf
  <2>3. /\ task'[Main(p)] = Down /\ task'[<<p, "refresh">>] = Idle
        /\ \A u \in Tasks : u[1] # p => task'[u] = task[u]
    BY <2>1, <2>2 DEF SeenInv, IndexInv, TypeOK
  <2>4. SeenOK(p)'
    <3>1. Down.pc = "down"
      BY DEF Down, Idle
    <3> QED BY <2>3, <3>1 DEF SeenOK
  <2> QED BY <2>1, <2>3, <2>4, OthersSeen
<1>5. ASSUME NEW c \in Commits, Push(c)
      PROVE  \A q \in Followers : task'[<<q, "refresh">>] = Idle /\ SeenOK(q)'
  BY <1>5 DEF Push, SeenInv, SeenOK
<1>6. ASSUME UNCHANGED indexVars
      PROVE  \A q \in Followers : task'[<<q, "refresh">>] = Idle /\ SeenOK(q)'
  BY <1>6 DEF indexVars, SeenInv, SeenOK
<1> QED BY <1>2, <1>3, <1>4, <1>5, <1>6 DEF Next

\* In a process that serves no refresh itself, a follower that rests on an announcement has
\* that commit loaded, whatever the other processes refresh and announce: join_other_processes, follow_once and the restarts in between
\* never leave seen_announcement ahead of the index.
THEOREM FollowerRestsOnItsCommit == Spec => []SeenIsLoaded
<1>1. SeenInv => SeenIsLoaded
  BY DEF SeenInv, SeenOK, SeenIsLoaded, Followers
<1>2. SeenInv /\ [Next]_indexVars => SeenInv'
  BY SeenInvStep
<1> QED BY InitSeenInv, <1>2, <1>1, PTL DEF Spec
=============================================================================
