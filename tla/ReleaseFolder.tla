---------------------------- MODULE ReleaseFolder ----------------------------
(* The refresh of the folder of releases by lobby processes that share it,  *)
(* each against the index.lock of its own checkout (apwm/src/index/mod.rs,   *)
(* lobby/src/index_manager.rs), and `apwm update`, which writes the          *)
(* index.lock of the maintainers' checkout, while the files of releases      *)
(* change on their servers and processes die.                                *)
CONSTANTS
  Rels,       \* releases, as they are named in index.lock
  Contents,   \* what the file of a release may hold; its checksum tells contents apart
  Procs,      \* the processes that refresh the folder
  Commits     \* of the index repository: [listed: releases, lock: release -> checksum]

VARIABLES
  listed,     \* in the maintainers' checkout: the releases of the index that are not part of Archipelago
  lock,       \* and its index.lock
  torn,       \* that index.lock does not parse
  upstream,   \* what the server of each release gives: a content, or "down"
  disk,       \* the folder of releases
  job,        \* the refresh that each process, or `apwm update`, runs or ran last
  rival       \* history: <<p, r>>, the file of r was put there by a process that has not p's checksum for it

vars == <<listed, lock, torn, upstream, disk, job, rival>>

\* f with key set to val, and f without the key.
Put(f, key, val) == [k \in DOMAIN f \cup {key} |-> IF k = key THEN val ELSE f[k]]
Without(f, key) == [k \in DOMAIN f \ {key} |-> f[k]]

Jobs == Procs \cup {"update"}
\* temp: the temporary files, "half" until the download is done and its checksum looked at.
Idle == [at |-> "idle", tasks |-> {}, temp |-> <<>>, expected |-> <<>>, new |-> <<>>]

Sums(f) == DOMAIN f \subseteq Rels /\ \A r \in DOMAIN f : f[r] \in Contents
IsRepository == "update" \notin Procs /\ \A c \in Commits : c.listed \subseteq Rels /\ Sums(c.lock)

TypeOK ==
  /\ listed \subseteq Rels /\ torn \in BOOLEAN /\ Sums(lock) /\ Sums(disk)
  /\ upstream \in [Rels -> Contents \cup {"down"}]
  /\ \A j \in Jobs : /\ job[j].at \in {"idle", "running", "writing", "ended"} /\ job[j].tasks \subseteq Rels
                     /\ Sums(job[j].new) /\ Sums(job[j].expected)
  /\ rival \subseteq Procs \X Rels

Init ==
  /\ \E c \in Commits : listed = c.listed /\ lock = c.lock
  /\ upstream \in [Rels -> Contents]
  /\ torn = FALSE /\ disk = <<>> /\ job = [j \in Jobs |-> Idle] /\ rival = {}

\* The maintainers list a release, or take one off the index.
Relist(r) ==
  /\ listed' = IF r \in listed THEN listed \ {r} ELSE listed \cup {r}
  /\ job["update"].at \in {"idle", "ended"}
  /\ UNCHANGED <<lock, torn, upstream, disk, job, rival>>

\* They take an index.lock that does not parse back out of the repository.
PutBack ==
  /\ torn /\ torn' = FALSE
  /\ \E c \in Commits : lock' = c.lock
  /\ UNCHANGED <<listed, upstream, disk, job, rival>>

\* A server gives another file for a release, or none.
Reupload(r, c) == upstream' = [upstream EXCEPT ![r] = c] /\ UNCHANGED <<listed, lock, torn, disk, job, rival>>

Planned(worlds, sums, kept, new) ==
  [at |-> "running", tasks |-> worlds \ kept, temp |-> <<>>, expected |-> [r \in DOMAIN sums \cap worlds |-> sums[r]], new |-> new]

(* Mistake: a file on disk is taken as it is, whatever its checksum. *)
PlanTrusting(worlds, sums, onlyNew, folder) ==
  LET kept == {r \in worlds : r \in DOMAIN folder \/ (r \in DOMAIN sums /\ onlyNew)}
  IN Planned(worlds, sums, kept, [r \in kept |-> IF r \in DOMAIN sums THEN sums[r] ELSE folder[r]])

\* The loop of Index::refresh_into over the releases (or the one that is asked for): those that are
\* kept, and those to download. Each release's file is looked at on its own.
Plan(worlds, sums, onlyNew, folder) ==
  LET kept == {r \in worlds \cap DOMAIN sums : onlyNew \/ (r \in DOMAIN folder /\ folder[r] = sums[r])}
  IN Planned(worlds, sums, kept, [r \in kept |-> sums[r]])

\* IndexManager::load, or `apwm download`: some commit is checked out, and everything in it is
\* refreshed into the folder. The process has one load at a time, by its load_lock.
Load(p, c) ==
  /\ job[p].at \in {"idle", "ended"}
  /\ job' = [job EXCEPT ![p] = Plan(c.listed, c.lock, FALSE, disk)]
  /\ rival' = {pair \in rival : pair[1] # p}
  /\ UNCHANGED <<listed, lock, torn, upstream, disk>>

\* `apwm update`: only what is not locked, into a temporary folder. It fails on a lock that does not parse.
StartUpdate ==
  /\ job["update"].at \in {"idle", "ended"} /\ ~torn
  /\ job' = [job EXCEPT !["update"] = Plan(listed, lock, TRUE, <<>>)]
  /\ UNCHANGED <<listed, lock, torn, upstream, disk, rival>>

\* One of the concurrent downloads begins to write its temporary file;
Open(j, r) ==
  /\ job[j].at = "running" /\ r \in job[j].tasks /\ r \notin DOMAIN job[j].temp
  /\ job' = [job EXCEPT ![j].temp = Put(@, r, "half")]
  /\ UNCHANGED <<listed, lock, torn, upstream, disk, rival>>
\* World::copy_to has got it all, with the checksum that is expected;
CopyTo(j, r) ==
  /\ job[j].at = "running" /\ r \in DOMAIN job[j].temp /\ job[j].temp[r] = "half"
  /\ upstream[r] # "down" /\ (r \in DOMAIN job[j].expected => upstream[r] = job[j].expected[r])
  /\ job' = [job EXCEPT ![j].temp = Put(@, r, upstream[r])]
  /\ UNCHANGED <<listed, lock, torn, upstream, disk, rival>>
\* the file takes the place of the old one, in the folder or in update's own;
Persist(j, r) ==
  LET f == job[j]
  IN /\ f.at = "running" /\ r \in DOMAIN f.temp /\ f.temp[r] # "half"
     /\ job' = [job EXCEPT ![j] = [at |-> f.at, tasks |-> f.tasks \ {r}, temp |-> Without(f.temp, r),
                                   expected |-> f.expected, new |-> Put(f.new, r, f.temp[r])]]
     /\ disk' = IF j = "update" THEN disk ELSE Put(disk, r, f.temp[r])
     /\ rival' = IF j = "update" THEN rival
                 ELSE rival \cup {<<p, r>> : p \in {q \in Procs \ {j} :
                        ~(r \in DOMAIN f.expected /\ r \in DOMAIN job[q].expected /\ f.expected[r] = job[q].expected[r])}}
     /\ UNCHANGED <<listed, lock, torn, upstream>>
\* or anything of this fails, which is logged, and the temporary file is dropped.
Skip(j, r) ==
  LET f == job[j]
  IN /\ f.at = "running" /\ r \in DOMAIN f.temp
     /\ job' = [job EXCEPT ![j] = [at |-> f.at, tasks |-> f.tasks \ {r}, temp |-> Without(f.temp, r),
                                   expected |-> f.expected, new |-> f.new]]
     /\ UNCHANGED <<listed, lock, torn, upstream, disk, rival>>

\* The refresh returns its lock; update goes on to write it to index.lock.
EndRefresh(j) ==
  /\ job[j].at = "running" /\ job[j].tasks = {}
  /\ job' = [job EXCEPT ![j].at = IF j = "update" THEN "writing" ELSE "ended"]
  /\ UNCHANGED <<listed, lock, torn, upstream, disk, rival>>

\* IndexLock::write
Write ==
  /\ job["update"].at = "writing"
  /\ job' = [job EXCEPT !["update"].at = "ended"]
  /\ lock' = job["update"].new
  /\ UNCHANGED <<listed, torn, upstream, disk, rival>>

\* The process of a refresh dies, or gives up on an error. std::fs::write has cut index.lock by then, and
\* written part of it.
Killed(j) ==
  /\ job[j].at \in {"running", "writing"}
  /\ job' = [job EXCEPT ![j] = Idle]
  /\ IF job[j].at = "writing"
     THEN torn' \in BOOLEAN /\ \E S \in SUBSET DOMAIN job[j].new : lock' = [r \in S |-> job[j].new[r]]
     ELSE UNCHANGED <<lock, torn>>
  /\ UNCHANGED <<listed, upstream, disk, rival>>

Next ==
  \/ \E r \in Rels : Relist(r)
  \/ \E r \in Rels, c \in Contents \cup {"down"} : Reupload(r, c)
  \/ PutBack \/ StartUpdate \/ Write
  \/ \E p \in Procs, c \in Commits : Load(p, c)
  \/ \E j \in Jobs : EndRefresh(j) \/ Killed(j) \/ \E r \in Rels : Open(j, r) \/ CopyTo(j, r) \/ Persist(j, r) \/ Skip(j, r)

Spec == Init /\ [][Next]_vars

-----------------------------------------------------------------------------
\* What a process has loaded is on disk, whole: each release that its refresh kept or downloaded, with the
\* checksum it is locked with, if it is, for as long as no process that has another checksum for the
\* release, or none, puts its own file there.
LockSaysWhatIsOnDisk ==
  \A p \in Procs : job[p].at = "ended" =>
    \A r \in DOMAIN job[p].new :
      /\ r \in DOMAIN job[p].expected => job[p].new[r] = job[p].expected[r]
      /\ r \in DOMAIN disk /\ (<<p, r>> \notin rival => disk[r] = job[p].new[r])

\* The write of index.lock is cut by the end of its process.
Cut == job["update"].at = "writing" /\ job'["update"].at = "idle"

\* What is locked keeps its checksum for as long as the index lists it, whatever its server gives; a
\* write of index.lock that is cut may forget it, but never changes it. And no file is put in the
\* folder but by a process that runs, with the checksum it has for it, if it has one.
LocksAreKept ==
  [][/\ \A r \in DOMAIN lock \cap listed : lock' # lock /\ ~torn =>
          IF r \in DOMAIN lock' THEN lock'[r] = lock[r] ELSE Cut
     /\ disk' # disk => \E p \in Procs : \E r \in job[p].tasks :
          /\ r \in DOMAIN disk' /\ disk' = Put(disk, r, disk'[r])
          /\ r \in DOMAIN job[p].expected => disk'[r] = job[p].expected[r]]_vars
==============================================================================
