------------------------------- MODULE MCTools -------------------------------
(* The tools around the lobby: the pure parts of MCAlgorithms, and small     *)
(* instances of the parts of community-ap-tools: the review teams, the       *)
(* analysis of YAMLs and the dashboard, and of the folder of releases. They  *)
(* share no state: a behaviour follows one of them.                          *)
EXTENDS MCAlgorithms, CommunityTools

CONSTANTS root, ann, bob, r1, r2, c1, c2

VARIABLE part

\* root is a super admin; ann owns the rooms on the lobby.
ThreeUsers == {root, ann, bob}
RootOnly == {root}
AllByAnn == [x \in Rooms |-> ann]
\* Commits that lock a release to one content, to another, and not at all
ThreeCommits ==
  {[listed |-> {r1, r2}, lock |-> r1 :> c1], [listed |-> {r1}, lock |-> r1 :> c2], [listed |-> {r1}, lock |-> <<>>]}

teamVars == <<team, member, rooms, preset, rules, config, status, edited, notes, task, held, ops>>
jobVars == <<row, key, job, poll, force, fails, forced, freed>>
dashVars == <<apx, lobby, store, apRoom, cache, lock, reader, writer, answer, overlap, changes, errors>>
folderVars == <<listed, locked, torn, upstream, disk, fetch, rival>>

\* A database that a super admin has filled: two teams with a preset each (or a preset of
\* nobody), a room of the first team, and members of the first or of both.
TeamsInit ==
  LET t1 == CHOOSE t \in Teams : TRUE
      t2 == CHOOSE t \in Teams \ {t1} : TRUE
      p1 == CHOOSE p \in Presets : TRUE
  IN /\ team = [t \in Teams |-> "live"]
     /\ \E r \in {T!RuleEditor, T!Admin}, q \in {0, T!Reviewer} :
          member = [t \in Teams |-> [u \in Users |->
                     IF u = ann /\ t = t1 THEN r
                     ELSE IF u = bob /\ t = t2 THEN T!RuleEditor
                     ELSE IF u = ann /\ t = t2 THEN q ELSE 0]]
     /\ rooms = {<<t2, x>> : x \in Rooms}
     /\ preset \in {[p \in Presets |-> IF p = p1 THEN t1 ELSE e] : e \in {t2, Nil}}
     /\ rules = {[id |-> 1, preset |-> p1, by |-> root]}
     /\ config = [x \in Rooms |-> p1]
     /\ status = [x \in Rooms |-> Nil] /\ edited = [x \in Rooms |-> Nil]
     /\ notes = {} /\ ops = 1
     /\ task = [u \in Users |-> T!Idle]
     /\ held = [u \in Users |-> [x \in Rooms \cup Presets |-> T!RoleOn(u, x)]]

FolderRest ==
  /\ listed = {} /\ upstream = [r \in Rels |-> "down"] /\ locked = <<>> /\ torn = FALSE /\ disk = <<>>
  /\ fetch = [j \in L!Jobs |-> L!Idle] /\ rival = {}

ToolsInit ==
  /\ part \in {"algorithms", "empty", "teams", "jobs", "dashboard", "folder", "update"}
  /\ Init
  /\ IF part = "teams" THEN TeamsInit ELSE T!Init
  /\ Y!Init /\ D!Init
  /\ lobby = CHOOSE l \in [owner : Owners, password : {1}] : TRUE   \* owners are alike
  /\ IF part \in {"folder", "update"} THEN L!Init ELSE FolderRest
  /\ part = "folder" => locked = <<>>   \* the maintainers' checkout rests

ToolsNext ==
  /\ UNCHANGED part
  /\ \/ part = "algorithms" /\ Next /\ UNCHANGED <<teamVars, jobVars, dashVars, folderVars>>
     \/ part \in {"empty", "teams"} /\ T!Next /\ UNCHANGED <<inp, jobVars, dashVars, folderVars>>
     \/ part = "jobs" /\ Y!Next /\ UNCHANGED <<inp, teamVars, dashVars, folderVars>>
     \/ /\ part = "dashboard" /\ D!Next /\ changes' + errors' <= MaxChanges   \* an error in place of a change
        /\ UNCHANGED <<inp, teamVars, jobVars, folderVars>>
     \/ part \in {"folder", "update"} /\ L!Next /\ UNCHANGED <<inp, teamVars, jobVars, dashVars>>
        /\ IF part = "folder"   \* a server that is down is a download that fails, which any may
           THEN /\ UNCHANGED <<listed, locked, torn>> /\ fetch'["update"] = fetch["update"]
                /\ \A r \in Rels : upstream'[r] # "down"
           ELSE \A p \in Procs : fetch'[p] = fetch[p]

\* The analysis goes on: pollers have timers, workers and the clock do not stop.
Fairness ==
  /\ \A p \in Pollers : WF_jobVars(part = "jobs" /\ Y!PollStep(p))
  /\ \A i \in Y!Ids : WF_jobVars(part = "jobs" /\ Y!JobStep(i))
  /\ WF_jobVars(part = "jobs" /\ Y!ForceStep)
  /\ WF_jobVars(part = "jobs" /\ Y!Tick)

ToolsSpec == ToolsInit /\ [][ToolsNext]_<<part, inp, teamVars, jobVars, dashVars, folderVars>> /\ Fairness

-----------------------------------------------------------------------------
\* Every YAML is analysed in the end, although jobs fail, workers die and keys expire.
AnalysedInTheEnd == part = "jobs" => Y!AnalysedInTheEnd
=============================================================================
