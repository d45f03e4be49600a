---------------------------- MODULE ReviewTeams ----------------------------
(* Who may do what in the review tool (community-ap-tools): teams, their   *)
(* members and rooms, the presets of rules, and the reviews of YAMLs. A    *)
(* request checks a role in one query and changes the database in another; *)
(* roles, teams and presets may change in between. A team or a preset that *)
(* is deleted does not come back.                                          *)
EXTENDS Integers, FiniteSets, FiniteSetsExt

CONSTANTS Users,       \* whoever is logged in
          Super,       \* those whose session says super admin
          Teams, Rooms, Presets,
          Author,      \* who owns each room on the lobby
          Roles,       \* the roles that are given out, a part of 1..6
          MaxRules, MaxNotes, MaxImport, \* bounds on rows and on the size of an import
          MaxOps,      \* bound on the requests of a behaviour
          None

\* enum Role, in its order; 0 is no role.
Viewer == 1
Reviewer == 2
RuleEditor == 3
Editor == 4
Moderator == 5
Admin == 6

VARIABLES
  team,     \* "new", "live" or "gone"
  member,   \* team_members: the role of a user in a team, or 0
  rooms,    \* team_rooms
  preset,   \* review_presets: "new", "gone", None or the team it belongs to
  rules,    \* review_preset_rules: their preset and who edited them last
  config,   \* room_review_config: the preset of a room
  status,   \* yaml_review_status of the room's YAML: who set it
  edited,   \* who edited the room's YAML on the lobby last
  notes,    \* yaml_review_notes: their room and author
  task,     \* the request a user is waiting for
  held,     \* history: the highest role a user has had on a room or preset
  ops       \* requests begun

vars == <<team, member, rooms, preset, rules, config, status, edited, notes, task, held, ops>>
rows == <<rules, config, status, edited, notes>>

Idle == [op |-> "idle"]
Things == Rooms \cup Presets

\* Whether the preset is there: it belongs to no team, or to a team.
Exists(p) == preset[p] \notin {"new", "gone"}

GetUserRoleForTeam(u, t) == member[t][u]

\* The highest of the roles in the teams that have the room
GetUserRoleForRoom(u, x) == Max({0} \cup {member[t][u] : t \in {s \in Teams : <<s, x>> \in rooms}})

\* The role in the team that owns the preset
GetUserRoleForPreset(u, p) == IF preset[p] \in Teams THEN member[preset[p]][u] ELSE 0

RoleOn(u, x) ==
  IF u \in Super THEN Admin + 1
  ELSE IF x \in Rooms THEN GetUserRoleForRoom(u, x) ELSE GetUserRoleForPreset(u, x)

\* What each route asks for
TeamOps == {"add_member", "update_role", "remove_member", "add_room", "remove_room"}
PresetOps == {"create_rule", "update_rule", "delete_rule", "import"}
RoomOps == {"set_status", "add_note", "delete_note", "edit_yaml", "delete_yaml"}

Minimum(o) ==
  IF o \in TeamOps THEN Admin
  ELSE IF o \in PresetOps THEN RuleEditor
  ELSE IF o \in {"edit_yaml", "delete_yaml"} THEN Editor ELSE Reviewer

-----------------------------------------------------------------------------
Init ==
  /\ team = [t \in Teams |-> "new"]
  /\ member = [t \in Teams |-> [u \in Users |-> 0]]
  /\ rooms = {}
  /\ preset = [p \in Presets |-> "new"]
  /\ rules = {} /\ notes = {}
  /\ config = [x \in Rooms |-> None]
  /\ status = [x \in Rooms |-> None]
  /\ edited = [x \in Rooms |-> None]
  /\ task = [u \in Users |-> Idle]
  /\ held = [u \in Users |-> [x \in Things |-> RoleOn(u, x)]]
  /\ ops = 0

Begin(u) == task[u] = Idle /\ ops < MaxOps /\ ops' = ops + 1
Waiting(u, r) == task' = [task EXCEPT ![u] = r]
Done(u) == task' = [task EXCEPT ![u] = Idle] /\ UNCHANGED ops
Running(u, o) == task[u].op = o

RequireTeamRole(u) ==
  /\ Begin(u)
  /\ \E o \in TeamOps, t \in Teams :
       /\ u \in Super \/ GetUserRoleForTeam(u, t) >= Minimum(o)
       /\ Waiting(u, [op |-> o, on |-> t])
  /\ UNCHANGED <<team, member, rooms, preset, rows>>

RequirePresetRole(u) ==
  /\ Begin(u)
  /\ \E o \in PresetOps, p \in Presets :
       /\ u \in Super \/ GetUserRoleForPreset(u, p) >= Minimum(o)
       /\ Waiting(u, [op |-> o, on |-> p, left |-> MaxImport])
  /\ UNCHANGED <<team, member, rooms, preset, rows>>

RequireRoomRole(u) ==
  /\ Begin(u)
  /\ \E o \in RoomOps, x \in Rooms :
       /\ u \in Super \/ GetUserRoleForRoom(u, x) >= Minimum(o)
       /\ Waiting(u, [op |-> o, on |-> x])
  /\ UNCHANGED <<team, member, rooms, preset, rows>>

\* The request ends with an error: an unknown role or rule, a row that is gone, a lost connection.
Fail(u) ==
  /\ task[u] # Idle
  /\ Done(u)
  /\ UNCHANGED <<team, member, rooms, preset, rows>>

-----------------------------------------------------------------------------
\* The statements of review/db.rs: what each does to its table

PresetRule == [id : 1..MaxRules, preset : Presets, by : Users]
YamlReviewNote == [id : 1..MaxNotes, room : Rooms, by : Users]

\* An identifier no row has
FreeId(table, max) == Min((1..max) \ {r.id : r \in table})

\* INSERT ... ON CONFLICT DO UPDATE: a new member, or another role for one that is there
DbAddTeamMember(t, v, r) == team[t] = "live" /\ member' = [member EXCEPT ![t][v] = r]
DbUpdateTeamMemberRole(t, v, r) == member[t][v] # 0 /\ member' = [member EXCEPT ![t][v] = r]
DbRemoveTeamMember(t, v) == member' = [member EXCEPT ![t][v] = 0]
DbAddTeamRoom(t, x) == team[t] = "live" /\ rooms' = rooms \cup {<<t, x>>}
DbRemoveTeamRoom(t, x) == rooms' = rooms \ {<<t, x>>}

\* A rule with an identifier of its own
DbCreateRule(u, p) ==
  /\ Exists(p) /\ Cardinality(rules) < MaxRules
  /\ rules' = rules \cup {[id |-> FreeId(rules, MaxRules), preset |-> p, by |-> u]}

(* Mistake: the rule is found by its identifier alone.                     *)
DbUpdateRuleAnywhere(u, p, r) == rules' = (rules \ {r}) \cup {[r EXCEPT !.by = u]}

\* Only a rule of that preset
DbUpdateRule(u, p, r) == r.preset = p /\ rules' = (rules \ {r}) \cup {[r EXCEPT !.by = u]}
DbDeleteRule(p, r) == r.preset = p /\ rules' = rules \ {r}

DbSetReviewStatus(u, x) == status' = [status EXCEPT ![x] = u]

DbAddNote(u, x) ==
  /\ Cardinality(notes) < MaxNotes
  /\ notes' = notes \cup {[id |-> FreeId(notes, MaxNotes), room |-> x, by |-> u]}

DbDeleteNote(u, x, n) == n.room = x /\ n.by = u /\ notes' = notes \ {n}

DbSetRoomPreset(x, p) == Exists(p) /\ config' = [config EXCEPT ![x] = p]
DbRemoveRoomPreset(x) == config' = [config EXCEPT ![x] = None]

\* A deleted preset takes its rules and the rooms' choice of it along.
DbDeletePresets(gone) ==
  /\ preset' = [p \in Presets |-> IF p \in gone THEN "gone" ELSE preset[p]]
  /\ rules' = {r \in rules : r.preset \notin gone}
  /\ config' = [x \in Rooms |-> IF config[x] \in gone THEN None ELSE config[x]]

DbCreatePreset(p, t) == preset[p] = "new" /\ preset' = [preset EXCEPT ![p] = t]
DbCreateTeam(t) == team[t] = "new" /\ team' = [team EXCEPT ![t] = "live"]

\* A deleted team takes its members, its rooms and its presets along.
DbDeleteTeam(t) ==
  /\ team[t] = "live"
  /\ team' = [team EXCEPT ![t] = "gone"]
  /\ member' = [member EXCEPT ![t] = [v \in Users |-> 0]]
  /\ rooms' = {x \in rooms : x[1] # t}
  /\ DbDeletePresets({p \in Presets : preset[p] = t})

-----------------------------------------------------------------------------

AddMember(u) ==
  /\ Running(u, "add_member")
  /\ \E v \in Users, r \in Roles : (r >= Moderator => u \in Super) /\ DbAddTeamMember(task[u].on, v, r)
  /\ Done(u)
  /\ UNCHANGED <<team, rooms, preset, rows>>

\* The checks before a member's role is changed, against the role it has now
CheckUpdateRole(u) ==
  /\ Running(u, "update_role")
  /\ \E v \in Users, r \in Roles :
       /\ u \in Super \/ (r < Admin /\ GetUserRoleForTeam(v, task[u].on) < Admin)
       /\ Waiting(u, [op |-> "write_role", on |-> task[u].on, who |-> v, role |-> r])
  /\ UNCHANGED <<team, member, rooms, preset, rows, ops>>

UpdateMemberRole(u) ==
  /\ Running(u, "write_role")
  /\ DbUpdateTeamMemberRole(task[u].on, task[u].who, task[u].role)
  /\ Done(u)
  /\ UNCHANGED <<team, rooms, preset, rows>>

CheckRemoveMember(u) ==
  /\ Running(u, "remove_member")
  /\ \E v \in Users :
       /\ u \in Super \/ GetUserRoleForTeam(v, task[u].on) < Admin
       /\ Waiting(u, [op |-> "drop_member", on |-> task[u].on, who |-> v])
  /\ UNCHANGED <<team, member, rooms, preset, rows, ops>>

RemoveMember(u) ==
  /\ Running(u, "drop_member")
  /\ DbRemoveTeamMember(task[u].on, task[u].who)
  /\ Done(u)
  /\ UNCHANGED <<team, rooms, preset, rows>>

\* The lobby says who owns the room.
AddRoom(u) ==
  /\ Running(u, "add_room")
  /\ \E x \in Rooms : (u \in Super \/ Author[x] = u) /\ DbAddTeamRoom(task[u].on, x)
  /\ Done(u)
  /\ UNCHANGED <<team, member, preset, rows>>

RemoveRoom(u) ==
  /\ Running(u, "remove_room")
  /\ \E x \in Rooms : DbRemoveTeamRoom(task[u].on, x)
  /\ Done(u)
  /\ UNCHANGED <<team, member, preset, rows>>

OnlyRules == UNCHANGED <<team, member, rooms, preset, config, status, edited, notes>>

CreateRule(u) == Running(u, "create_rule") /\ DbCreateRule(u, task[u].on) /\ Done(u) /\ OnlyRules

\* The entries of an import are inserted one by one.
ImportRule(u) ==
  /\ Running(u, "import") /\ DbCreateRule(u, task[u].on) /\ OnlyRules
  /\ IF task[u].left = 1 THEN Done(u)
     ELSE Waiting(u, [task[u] EXCEPT !.left = @ - 1]) /\ UNCHANGED ops

UpdateRule(u) ==
  Running(u, "update_rule") /\ (\E r \in rules : DbUpdateRule(u, task[u].on, r)) /\ Done(u) /\ OnlyRules

DeleteRule(u) ==
  Running(u, "delete_rule") /\ (\E r \in rules : DbDeleteRule(task[u].on, r)) /\ Done(u) /\ OnlyRules

SetReviewStatus(u) ==
  /\ Running(u, "set_status")
  /\ DbSetReviewStatus(u, task[u].on)
  /\ Done(u)
  /\ UNCHANGED <<team, member, rooms, preset, rules, config, edited, notes>>

\* The lobby keeps who edited the YAML.
ProxyYamlEdit(u) ==
  /\ Running(u, "edit_yaml")
  /\ edited' = [edited EXCEPT ![task[u].on] = u]
  /\ Done(u)
  /\ UNCHANGED <<team, member, rooms, preset, rules, config, status, notes>>

ProxyYamlDelete(u) ==
  /\ Running(u, "delete_yaml")
  /\ edited' = [edited EXCEPT ![task[u].on] = None]
  /\ Done(u)
  /\ UNCHANGED <<team, member, rooms, preset, rules, config, status, notes>>

AddNote(u) ==
  /\ Running(u, "add_note") /\ DbAddNote(u, task[u].on)
  /\ Done(u)
  /\ UNCHANGED <<team, member, rooms, preset, rules, config, status, edited>>

DeleteNote(u) ==
  /\ Running(u, "delete_note") /\ \E n \in notes : DbDeleteNote(u, task[u].on, n)
  /\ Done(u)
  /\ UNCHANGED <<team, member, rooms, preset, rules, config, status, edited>>

-----------------------------------------------------------------------------
\* What only a super admin does, by the word of the session: one query each
AdminSession(u) == u \in Super /\ Begin(u) /\ UNCHANGED task

CreateTeam(u) ==
  /\ AdminSession(u)
  /\ \E t \in Teams : DbCreateTeam(t)
  /\ UNCHANGED <<member, rooms, preset, rows>>

DeleteTeam(u) ==
  /\ AdminSession(u)
  /\ \E t \in Teams : DbDeleteTeam(t)
  /\ UNCHANGED <<status, edited, notes>>

CreatePreset(u) ==
  /\ AdminSession(u)
  /\ \E p \in Presets, t \in {None} \cup {s \in Teams : team[s] = "live"} : DbCreatePreset(p, t)
  /\ UNCHANGED <<team, member, rooms, rows>>

DeletePreset(u) ==
  /\ AdminSession(u)
  /\ \E p \in Presets : Exists(p) /\ DbDeletePresets({p})
  /\ UNCHANGED <<team, member, rooms, status, edited, notes>>

SetRoomPreset(u) ==
  /\ AdminSession(u)
  /\ \E x \in Rooms, p \in Presets : DbSetRoomPreset(x, p)
  /\ UNCHANGED <<team, member, rooms, preset, rules, status, edited, notes>>

RemoveRoomPreset(u) ==
  /\ AdminSession(u)
  /\ \E x \in Rooms : DbRemoveRoomPreset(x)
  /\ UNCHANGED <<team, member, rooms, preset, rules, status, edited, notes>>

Step(u) ==
  \/ RequireTeamRole(u) \/ RequirePresetRole(u) \/ RequireRoomRole(u) \/ Fail(u)
  \/ AddMember(u) \/ CheckUpdateRole(u) \/ UpdateMemberRole(u)
  \/ CheckRemoveMember(u) \/ RemoveMember(u) \/ AddRoom(u) \/ RemoveRoom(u)
  \/ CreateRule(u) \/ ImportRule(u) \/ UpdateRule(u) \/ DeleteRule(u)
  \/ SetReviewStatus(u) \/ ProxyYamlEdit(u) \/ ProxyYamlDelete(u)
  \/ AddNote(u) \/ DeleteNote(u)
  \/ CreateTeam(u) \/ DeleteTeam(u) \/ CreatePreset(u) \/ DeletePreset(u)
  \/ SetRoomPreset(u) \/ RemoveRoomPreset(u)

Next ==
  /\ \E u \in Users : Step(u)
  /\ held' = [u \in Users |-> [x \in Things |-> Max({held[u][x], RoleOn(u, x)'})]]

Spec == Init /\ [][Next]_vars

-----------------------------------------------------------------------------
\* The queries behind the pages
GetUserTeams(u) == {t \in Teams : member[t][u] # 0}
ListPresets == {p \in Presets : Exists(p)}

ListPresetsForTeams(ts) == {p \in Presets : preset[p] \in ts}
ListPresetsForUser(u) == IF u \in Super THEN ListPresets ELSE ListPresetsForTeams(GetUserTeams(u))
ListAllRooms == {x[2] : x \in rooms}
ListUserRooms(u) == {x[2] : x \in {y \in rooms : member[y[1]][u] # 0}}

\* What the pages list, and which of them open for a user
RoomsList(u) == IF u \in Super THEN ListAllRooms ELSE ListUserRooms(u)
PresetsList(u) == ListPresetsForUser(u)
ReviewPage(u, x) == u \in Super \/ GetUserRoleForRoom(u, x) # 0
PresetEdit(u, p) ==
  LET role == GetUserRoleForPreset(u, p)
  IN IF u \in Super \/ role >= RuleEditor THEN "edit" ELSE IF role # 0 THEN "view" ELSE "forbidden"

(* The tables, and the requests under way, have their types.               *)
TypeOK ==
  /\ team \in [Teams -> {"new", "live", "gone"}]
  /\ member \in [Teams -> [Users -> Roles \cup {0}]]
  /\ rooms \subseteq Teams \X Rooms
  /\ preset \in [Presets -> Teams \cup {None, "new", "gone"}]
  /\ rules \subseteq PresetRule /\ notes \subseteq YamlReviewNote
  /\ config \in [Rooms -> Presets \cup {None}]
  /\ status \in [Rooms -> Users \cup {None}] /\ edited \in [Rooms -> Users \cup {None}]

(* No row outlives what it belongs to, however a request races the         *)
(* deletion of a team or a preset: members and rooms have a team, presets  *)
(* have theirs, rules and rooms' choices a preset.                         *)
RowsBelong ==
  /\ \A t \in Teams : team[t] # "live" => \A u \in Users : member[t][u] = 0
  /\ \A x \in rooms : team[x[1]] = "live"
  /\ \A p \in Presets : preset[p] \in Teams => team[preset[p]] = "live"
  /\ \A r \in rules : Exists(r.preset)
  /\ \A x \in Rooms : config[x] # None => Exists(config[x])

(* Whoever edited a rule last has had the role for its preset, whoever     *)
(* judged, edited or noted something on a YAML the role for its room: a    *)
(* request for one thing never changes another.                            *)
AuthorsWereEntitled ==
  /\ \A r \in rules : held[r.by][r.preset] >= RuleEditor
  /\ \A x \in Rooms : status[x] # None => held[status[x]][x] >= Reviewer
  /\ \A x \in Rooms : edited[x] # None => held[edited[x]][x] >= Editor
  /\ \A n \in notes : held[n.by][n.room] >= Reviewer

(* What the pages list for a user is what opens for it, and a preset that  *)
(* opens to be edited is one whose rules the routes let it edit: the lists *)
(* and the checks ask the database different questions.                    *)
ListedIsViewable ==
  \A u \in Users :
    /\ \A x \in RoomsList(u) : ReviewPage(u, x)
    /\ \A p \in PresetsList(u) : PresetEdit(u, p) # "forbidden"
    /\ \A p \in Presets : PresetEdit(u, p) = "edit" <=> RoleOn(u, p) >= Minimum("update_rule")
    /\ u \notin Super => /\ \A x \in Rooms : ReviewPage(u, x) => x \in RoomsList(u)
                         /\ \A p \in Presets : PresetEdit(u, p) # "forbidden" => p \in PresetsList(u)

(* Nobody becomes an admin of a team but by a super admin's request, and   *)
(* notes are deleted by their authors.                                     *)
Grants ==
  /\ \A t \in Teams, v \in Users :
       member'[t][v] = Admin /\ member[t][v] # Admin =>
         \E s \in Super : task[s] # Idle /\ task'[s] = Idle /\ task[s].on = t
  /\ \A n \in notes \ notes' : Running(n.by, "delete_note") /\ task'[n.by] = Idle
GrantedBySuper == [][Grants]_vars

(* The rows and pages of the review tool are those of whoever is entitled  *)
(* to them, and admins are made by super admins, although others act       *)
(* between a request's check and its write.                                *)
EntitledOnly == [](TypeOK /\ RowsBelong /\ AuthorsWereEntitled /\ ListedIsViewable) /\ GrantedBySuper
============================================================================
