------------------------------ MODULE HostedRooms ------------------------------
(***************************************************************************)
(* apx: the rooms it hosts.  A hosted room lives in three places: the      *)
(* registry and the handler ids in memory (api.go, wsrouter.go), the       *)
(* tables of its SQLite store (db.go), and the room on the Archipelago     *)
(* server.  The lobby starts a room in two requests (host.rs): it asks apx *)
(* for the room's state and then starts it or uploads its generation.      *)
(* Handlers, the killer of idle rooms and clients run concurrently; only   *)
(* the registry's own operations hold its lock.  apx may stop at any       *)
(* moment and restarts the enabled rooms of its store.                     *)
(*                                                                         *)
(* A switch is a per-slot setting that has a default in the room's         *)
(* configuration: "full_feed" (on unless reduced_access), "DeathLink" (a   *)
(* tag excluded if deathlink_disabled), "own_slot" (always off).  The      *)
(* store keeps the slots that differ from the default.                     *)
(***************************************************************************)
EXTENDS Integers, FiniteSets

CONSTANTS
  Rooms,      \* lobby room ids
  Slots,      \* slots of a room
  Switches,   \* the switches of the instance
  MinId, MaxId, \* roomMinID, roomMaxID
  Taken,      \* the sets of ids that other rooms may have
  Requests,   \* handlers that run at the same time
  MaxInst,    \* bound: rooms built
  MaxOps,     \* bound: requests made
  MaxCrashes, \* bound: times apx stops
  MaxDeaths,  \* bound: deaths of a room
  Edits,      \* the kinds of edits the instance makes
  None

ASSUME SwitchesAssumption == Switches \subseteq {"full_feed", "DeathLink", "own_slot"}
ASSUME IdsAssumption == MinId \in Nat /\ MaxId \in Nat /\ 0 < MinId /\ MinId <= MaxId
                       /\ Taken \subseteq SUBSET (MinId .. MaxId)
ASSUME BoundsAssumption ==
  /\ MaxInst \in Nat /\ MaxOps \in Nat /\ MaxCrashes \in Nat /\ MaxDeaths \in Nat
  /\ None \notin Slots
ASSUME ProcsAssumption == {"boot", "killer"} \cap Requests = {}

VARIABLES
  db,       \* the store: of each room its row and the rows of its other tables
  hosted,   \* RoomRegistry.rooms: the instance under a lobby room id, or 0
  handler,  \* RoomRegistry.idToHandler: the instance behind an id, or 0
  inst,     \* the HostedRoom objects built since apx started
  refs,     \* refCount of the rooms' data package in the global cache
  proc,     \* the handlers, the killer and the start of apx
  boot,     \* rooms of LoadAll still to be started; None once apx serves
  calm,     \* history: rooms nothing irregular has happened to
  failed,   \* history: enabled rooms whose last start failed
  made      \* counters of the bounds: Archipelago rooms, requests, crashes; and
            \* the ids that are taken by rooms the instance does not follow

vars == <<db, hosted, handler, inst, refs, proc, boot, calm, failed, made>>

Ids == MinId .. MaxId
Insts == 1 .. MaxInst
Procs == Requests \cup {"boot", "killer"}

(* What a configuration makes the default of each switch.                  *)
Config == {c \in [Switches -> BOOLEAN] : "own_slot" \in Switches => ~c["own_slot"]}

(* A row of the table rooms; probability 1 is the column's default.        *)
Row == [ap : Nat, ids : (Ids \cup {0}) \X (Ids \cup {0}), disabled : BOOLEAN,
        cfg : Config, prob : {1, 2}]

(* A room's rows of all tables.                                            *)
Stored == [row : Row \cup {None}, over : [Switches -> SUBSET Slots],
           deaths : 0 .. MaxDeaths, alt : SUBSET Slots]

NothingStored == [row |-> None, over |-> [k \in Switches |-> {}], deaths |-> 0, alt |-> {}]

(* HostedRoom with the stores of its ApxRoom.                              *)
Object == [room : Rooms, ap : Nat, ids : (Ids \cup {0}) \X (Ids \cup {0}),
           cfg : Config, sw : [Switches -> SUBSET Slots], prob : {1, 2},
           deaths : 0 .. MaxDeaths, alt : Slots \cup {None}, polling : BOOLEAN]

(* What an administrator, or a client that dies, changes of a room.        *)
Edit ==
  {e \in    [kind : {"switch"}, k : Switches, slot : Slots, on : BOOLEAN]
       \cup [kind : {"prob"}, v : {1, 2}]
       \cup [kind : {"alt"}, slot : Slots \cup {None}]
       \cup [kind : {"death"}] : e.kind \in Edits}

ASSUME NoneAssumption == None \notin Row /\ None \notin Edit /\ \A R \in SUBSET Rooms : R # None

NoConfig == [k \in Switches |-> FALSE]
Idle == [pc |-> "idle", op |-> "none", room |-> None, inst |-> 0, row |-> None,
         want |-> NoConfig, edit |-> None]

Serving == boot = None
Busy(r) == {p \in Procs : proc[p].pc # "idle" /\ proc[p].room = r}
Built == DOMAIN inst

Init ==
  /\ db = [r \in Rooms |-> NothingStored]
  /\ hosted = [r \in Rooms |-> 0]
  /\ handler = [x \in Ids |-> 0]
  /\ inst = << >>
  /\ refs = 0
  /\ proc = [p \in Procs |-> Idle]
  /\ boot = None
  /\ calm = Rooms
  /\ failed = {}
  /\ \E t \in Taken : made = [ap |-> 0, ops |-> 0, crashes |-> 0, taken |-> t]

Goto(p, pc) == proc' = [proc EXCEPT ![p].pc = pc]
End(p) == proc' = [proc EXCEPT ![p] = Idle]
At(p, pc) == proc[p].pc = pc

(* Two edits that overlap touch different rows unless they are alike.      *)
Unrelated(e, f) ==
  /\ e # None /\ f # None
  /\ \/ e.kind # f.kind
     \/ e.kind = "switch" /\ <<e.k, e.slot>> # <<f.k, f.slot>>

(* A request on room r arrives.  It is irregular (odd) also if another one *)
(* on the same room is under way.                                          *)
Begin(p, r, odd, rec) ==
  /\ Serving
  /\ At(p, "idle")
  /\ made.ops < MaxOps
  /\ made' = [made EXCEPT !.ops = @ + 1]
  /\ proc' = [proc EXCEPT ![p] = rec]
  /\ calm' = IF odd \/ \E q \in Busy(r) : ~Unrelated(proc[q].edit, rec.edit)
             THEN calm \ {r} ELSE calm

-----------------------------------------------------------------------------
(* The lobby: host_room_start                                              *)

(* handleRoomStatus looks in the store, not in the registry.               *)
RoomStatus(r) == db[r].row # None

(* fetch_apx_room_info: any error of the question counts as "not there".   *)
FetchApxRoomInfo(r) == {RoomStatus(r), FALSE}

(* The lobby asks for the room's state: a room that is there is started,   *)
(* one that is not is uploaded.                                            *)
Host(p, r, want) ==
  /\ \E there \in FetchApxRoomInfo(r) :
       LET op == IF there THEN "start" ELSE "upload" IN
       /\ Begin(p, r, there # RoomStatus(r),
                [Idle EXCEPT !.pc = op, !.op = op, !.room = r, !.want = want])
  /\ UNCHANGED <<db, hosted, handler, inst, refs, boot, failed>>

-----------------------------------------------------------------------------
(* startNewHostedRoom, for handleRoomStart, handleUploadRoom and the start *)
(* of apx                                                                  *)

(* What startNewHostedRoom makes of its arguments: the configuration's     *)
(* defaults, no deaths, no alternative names, pollers running.             *)
NewObject(p) ==
  LET row == proc[p].row
  IN  [room |-> proc[p].room, ap |-> row.ap, ids |-> row.ids, cfg |-> row.cfg,
       sw |-> [k \in Switches |-> IF row.cfg[k] THEN Slots ELSE {}],
       prob |-> row.prob, deaths |-> 0, alt |-> None, polling |-> TRUE]

(* The room is looked up before the slow requests to the server.           *)
NewGet(p) ==
  /\ At(p, "new")
  /\ IF hosted[proc[p].room] # 0 THEN End(p) ELSE Goto(p, "fetch")
  /\ UNCHANGED <<db, hosted, handler, inst, refs, boot, calm, failed, made>>

(* Port, players, room information, spheres and passwords were fetched;    *)
(* the data packages are taken from the global cache or added to it and    *)
(* the pollers start.                                                      *)
NewBuild(p) ==
  /\ At(p, "fetch")
  /\ Cardinality(Built) < MaxInst
  /\ inst' = [i \in Built \cup {Cardinality(Built) + 1} |->
                IF i \in Built THEN inst[i] ELSE NewObject(p)]
  /\ proc' = [proc EXCEPT ![p].pc = "allocate", ![p].inst = Cardinality(Built) + 1]
  /\ refs' = refs + 1
  /\ UNCHANGED <<db, hosted, handler, boot, calm, failed, made>>

Free == {x \in Ids \ made.taken : handler[x] = 0}

(* The next free id from x on, past x itself, around the end of the range. *)
NextFree(x) ==
  CHOOSE y \in Free \ {x} :
    \A z \in Free \ {x} : (y - x) % (MaxId - MinId + 1) <= (z - x) % (MaxId - MinId + 1)

(* Mistake: the search for the second id may come back to the first one.   *)
PairsNotApart(saved) ==
  {<<x, y>> : x \in IF saved[1] \in Free THEN {saved[1]} ELSE Free,
              y \in IF saved[2] \in Free THEN {saved[2]} ELSE Free}

(* The pairs AllocateAndRegisterHandlerPair may choose: the ids saved for  *)
(* the room where they are free, others from a random point on.            *)
Pairs(saved) ==
  LET normal == saved[1] \in Free
      reduced == saved[2] \in Free /\ ~(normal /\ saved[1] = saved[2])
  IN  {pair \in Free \X Free :
         /\ pair[1] # pair[2]
         /\ normal => pair[1] = saved[1]
         /\ reduced => pair[2] = saved[2]
         /\ (~normal /\ ~reduced) => pair[2] = NextFree(pair[1])}

(* Under the registry's lock.  Without a pair the pollers are cancelled.   *)
NewAllocate(p) ==
  LET i == proc[p].inst
  IN  /\ At(p, "allocate")
      /\ \/ /\ Pairs(inst[i].ids) = {}
            /\ inst' = [inst EXCEPT ![i].polling = FALSE, ![i].ids = <<0, 0>>]
            /\ failed' = failed \cup {proc[p].room}
            /\ End(p)
            /\ UNCHANGED handler
         \/ \E pair \in Pairs(inst[i].ids) :
              /\ handler' = [handler EXCEPT ![pair[1]] = i, ![pair[2]] = i]
              /\ inst' = [inst EXCEPT ![i].ids = pair]
              /\ Goto(p, "add")
              /\ UNCHANGED failed
      /\ UNCHANGED <<db, hosted, refs, boot, calm, made>>

(* RoomRegistry.Add: who comes second gives up and undoes nothing.         *)
NewAdd(p) ==
  LET r == proc[p].room
  IN  /\ At(p, "add")
      /\ IF hosted[r] # 0
         THEN End(p) /\ UNCHANGED <<hosted, failed>>
         ELSE /\ hosted' = [hosted EXCEPT ![r] = proc[p].inst]
              /\ failed' = failed \ {r}
              /\ Goto(p, "save")
      /\ UNCHANGED <<db, handler, inst, refs, boot, calm, made>>

(* RoomStore.Save: an update leaves disabled and the probability alone.    *)
SavedRow(o, old) ==
  [ap |-> o.ap, ids |-> o.ids, cfg |-> o.cfg,
   disabled |-> IF old = None THEN FALSE ELSE old.disabled,
   prob |-> IF old = None THEN 1 ELSE old.prob]

AfterSave(p) == IF proc[p].op = "upload" THEN End(p) ELSE Goto(p, "restore")

NewSave(p) ==
  LET r == proc[p].room
  IN  /\ At(p, "save")
      /\ db' = [db EXCEPT ![r].row = SavedRow(inst[proc[p].inst], @)]
      /\ AfterSave(p)
      /\ UNCHANGED <<hosted, handler, inst, refs, boot, calm, failed, made>>

(* The five restore functions: the stored slots flip their default, the    *)
(* counts of deaths replace those in memory, one of the rows of an         *)
(* alternative name wins.                                                  *)
RestoredSwitch(o, s, k) == IF o.cfg[k] THEN o.sw[k] \ s.over[k] ELSE o.sw[k] \cup s.over[k]

Restore(p) ==
  LET i == proc[p].inst
      s == db[proc[p].room]
  IN  /\ At(p, "restore")
      /\ \E name \in IF s.alt = {} THEN {inst[i].alt} ELSE s.alt :
           inst' = [inst EXCEPT ![i].sw = [k \in Switches |-> RestoredSwitch(inst[i], s, k)],
                                ![i].deaths = IF s.deaths = 0 THEN @ ELSE s.deaths,
                                ![i].alt = name]
      /\ End(p)
      /\ UNCHANGED <<db, hosted, handler, refs, boot, calm, failed, made>>

-----------------------------------------------------------------------------
(* handleRoomStart                                                         *)

StartGet(p) ==
  /\ At(p, "start")
  /\ IF hosted[proc[p].room] # 0 THEN End(p) ELSE Goto(p, "find")
  /\ UNCHANGED <<db, hosted, handler, inst, refs, boot, calm, failed, made>>

StartFind(p) ==
  LET row == db[proc[p].room].row
  IN  /\ At(p, "find")
      /\ IF row = None THEN End(p)
         ELSE proc' = [proc EXCEPT ![p].row = row, ![p].pc = "update"]
      /\ UNCHANGED <<db, hosted, handler, inst, refs, boot, calm, failed, made>>

(* The stored differences from a default that changes are deleted.         *)
StartUpdate(p) ==
  LET r == proc[p].room
      want == proc[p].want
  IN  /\ At(p, "update")
      /\ db' = [db EXCEPT ![r].over =
                  [k \in Switches |-> IF want[k] # proc[p].row.cfg[k] THEN {} ELSE @[k]]]
      /\ proc' = [proc EXCEPT ![p].row.cfg = want, ![p].pc = "enable"]
      /\ UNCHANGED <<hosted, handler, inst, refs, boot, calm, failed, made>>

(* UPDATE rooms SET disabled: nothing happens if the row is gone.          *)
SetDisabled(r, b) ==
  db' = [db EXCEPT ![r].row = IF @ = None THEN None ELSE [@ EXCEPT !.disabled = b]]

StartEnable(p) ==
  LET r == proc[p].room
  IN  /\ At(p, "enable")
      /\ IF proc[p].row.disabled
         THEN SetDisabled(r, FALSE) /\ Goto(p, "port")
         ELSE /\ UNCHANGED db
              /\ IF hosted[r] # 0 THEN End(p) ELSE Goto(p, "port")
      /\ UNCHANGED <<hosted, handler, inst, refs, boot, calm, failed, made>>

(* The server's room is online.                                            *)
StartPort(p) ==
  /\ At(p, "port")
  /\ Goto(p, "new")
  /\ UNCHANGED <<db, hosted, handler, inst, refs, boot, calm, failed, made>>

-----------------------------------------------------------------------------
(* handleUploadRoom                                                        *)

(* The Archipelago server makes a new room of the file.                    *)
Upload(p) ==
  /\ At(p, "upload")
  /\ made' = [made EXCEPT !.ap = @ + 1]
  /\ proc' = [proc EXCEPT ![p].pc = "new",
                ![p].row = [ap |-> made.ap + 1, ids |-> <<0, 0>>, disabled |-> FALSE,
                            cfg |-> proc[p].want, prob |-> 1]]
  /\ UNCHANGED <<db, hosted, handler, inst, refs, boot, calm, failed>>

-----------------------------------------------------------------------------
(* handleRoomStop, handleRoomDelete and the killer of idle rooms           *)

(* RoomRegistry.Remove, whichever object the room id now leads to.         *)
RemoveRoom(p) ==
  LET r == proc[p].room
      i == hosted[r]
  IN  /\ At(p, "remove")
      /\ IF i = 0 THEN UNCHANGED <<hosted, handler, inst, refs>>
         ELSE /\ inst' = [inst EXCEPT ![i].polling = FALSE]
              /\ refs' = IF refs = 0 THEN 0 ELSE refs - 1
              /\ handler' = [x \in Ids |->
                               IF x \in {inst[i].ids[1], inst[i].ids[2]} THEN 0 ELSE handler[x]]
              /\ hosted' = [hosted EXCEPT ![r] = 0]
      /\ End(p)
      /\ UNCHANGED <<db, boot, calm, failed, made>>

Stop(p, r) ==
  /\ hosted[r] # 0
  /\ Begin(p, r, FALSE, [Idle EXCEPT !.pc = "disable", !.op = "stop", !.room = r])
  /\ UNCHANGED <<db, hosted, handler, inst, refs, boot, failed>>

(* startRoomKiller: the room was idle when it was listed and looked at.    *)
Kill(r) ==
  /\ hosted[r] # 0
  /\ Begin("killer", r, FALSE, [Idle EXCEPT !.pc = "disable", !.op = "kill", !.room = r])
  /\ UNCHANGED <<db, hosted, handler, inst, refs, boot, failed>>

Disable(p) ==
  /\ At(p, "disable")
  /\ SetDisabled(proc[p].room, TRUE)
  /\ Goto(p, "remove")
  /\ UNCHANGED <<hosted, handler, inst, refs, boot, calm, failed, made>>

Delete(p, r) ==
  /\ db[r].row # None
  /\ Begin(p, r, FALSE, [Idle EXCEPT !.pc = "deleteFeed", !.op = "delete", !.room = r])
  /\ UNCHANGED <<db, hosted, handler, inst, refs, boot, failed>>

(* Five tables are emptied of the room one after the other, then its row   *)
(* is deleted.                                                             *)
AfterDelete == [deleteFeed  |-> "deleteOwn",   deleteOwn    |-> "deleteTags",
                deleteTags  |-> "deleteNames", deleteNames  |-> "deleteDeaths",
                deleteDeaths |-> "deleteRow"]
DeletePcs == {"deleteFeed", "deleteOwn", "deleteTags", "deleteNames", "deleteDeaths"}
SwitchTables == {<<"deleteFeed", "full_feed">>, <<"deleteOwn", "own_slot">>, <<"deleteTags", "DeathLink">>}

WithoutTable(s, pc) ==
  [row |-> s.row,
   over |-> [k \in Switches |-> IF <<pc, k>> \in SwitchTables THEN {} ELSE s.over[k]],
   deaths |-> IF pc = "deleteDeaths" THEN 0 ELSE s.deaths,
   alt |-> IF pc = "deleteNames" THEN {} ELSE s.alt]

DeleteRows(p) ==
  LET pc == proc[p].pc
  IN  /\ pc \in DeletePcs
      /\ db' = [db EXCEPT ![proc[p].room] = WithoutTable(@, pc)]
      /\ Goto(p, AfterDelete[pc])
      /\ UNCHANGED <<hosted, handler, inst, refs, boot, calm, failed, made>>

DeleteRow(p) ==
  /\ At(p, "deleteRow")
  /\ db' = [db EXCEPT ![proc[p].room].row = None]
  /\ Goto(p, "remove")
  /\ UNCHANGED <<hosted, handler, inst, refs, boot, calm, failed, made>>

-----------------------------------------------------------------------------
(* Edits of a room: memory first, the store after it                       *)

(* roomFromRequest; an alternative name must not be taken in memory.       *)
EditRoom(p, r, e) ==
  /\ e.kind # "death"
  /\ hosted[r] # 0
  /\ (e.kind = "alt" /\ e.slot # None) => inst[hosted[r]].alt = None
  /\ Begin(p, r, FALSE, [Idle EXCEPT !.pc = "memory", !.op = "edit", !.room = r,
                                     !.inst = hosted[r], !.edit = e])
  /\ UNCHANGED <<db, hosted, handler, inst, refs, boot, failed>>

(* A client of the object i sends a death link (handleDeathLink).  Clients *)
(* are not disconnected when their room is removed, nor when it lost the   *)
(* race to be registered.                                                  *)
Death(p, i) ==
  LET r == inst[i].room
  IN  /\ "death" \in Edits
      /\ inst[i].ids # <<0, 0>> /\ inst[i].deaths < MaxDeaths /\ db[r].deaths < MaxDeaths
      /\ ~\E q \in Procs : proc[q].pc # "idle" /\ proc[q].inst = i /\ proc[q].op # "edit"
      /\ Begin(p, r, hosted[r] # i, [Idle EXCEPT !.pc = "memory", !.op = "edit", !.room = r,
                                                 !.inst = i, !.edit = [kind |-> "death"]])
      /\ UNCHANGED <<db, hosted, handler, inst, refs, boot, failed>>

Edited(o, e) ==
  CASE e.kind = "switch" -> [o EXCEPT !.sw[e.k] = IF e.on THEN @ \cup {e.slot} ELSE @ \ {e.slot}]
    [] e.kind = "prob"   -> [o EXCEPT !.prob = e.v]
    [] e.kind = "alt"    -> [o EXCEPT !.alt = e.slot]
    [] e.kind = "death"  -> [o EXCEPT !.deaths = IF @ < MaxDeaths THEN @ + 1 ELSE @]

EditMemory(p) ==
  /\ At(p, "memory")
  /\ inst' = [inst EXCEPT ![proc[p].inst] = Edited(@, proc[p].edit)]
  /\ Goto(p, "store")
  /\ UNCHANGED <<db, hosted, handler, refs, boot, calm, failed, made>>

(* Mistake: the slot's setting is stored as it is, not as a difference.    *)
StoredEditUnflipped(s, o, e) ==
  CASE e.kind = "switch" -> [s EXCEPT !.over[e.k] = IF e.on THEN @ \cup {e.slot} ELSE @ \ {e.slot}]
    [] e.kind = "prob"   -> [s EXCEPT !.row = IF @ = None THEN None ELSE [@ EXCEPT !.prob = e.v]]
    [] e.kind = "alt"    -> [s EXCEPT !.alt = IF e.slot = None THEN {} ELSE @ \cup {e.slot}]
    [] e.kind = "death"  -> [s EXCEPT !.deaths = IF @ < MaxDeaths THEN @ + 1 ELSE @]

(* The store's side: a slot that is as the room's default has no row.      *)
StoredEdit(s, o, e) ==
  CASE e.kind = "switch" -> [s EXCEPT !.over[e.k] = IF e.on = o.cfg[e.k] THEN @ \ {e.slot}
                                                    ELSE @ \cup {e.slot}]
    [] e.kind = "prob"   -> [s EXCEPT !.row = IF @ = None THEN None ELSE [@ EXCEPT !.prob = e.v]]
    [] e.kind = "alt"    -> [s EXCEPT !.alt = IF e.slot = None THEN {} ELSE @ \cup {e.slot}]
    [] e.kind = "death"  -> [s EXCEPT !.deaths = IF @ < MaxDeaths THEN @ + 1 ELSE @]

EditStore(p) ==
  LET r == proc[p].room
  IN  /\ At(p, "store")
      /\ db' = [db EXCEPT ![r] = StoredEdit(@, inst[proc[p].inst], proc[p].edit)]
      /\ End(p)
      /\ UNCHANGED <<hosted, handler, inst, refs, boot, calm, failed, made>>

-----------------------------------------------------------------------------
(* Failures                                                                *)

(* An error that ends the request: a query, the server, the upload.        *)
Fails(p) ==
  /\ \/ proc[p].pc \in {"find", "enable", "port", "fetch", "upload", "deleteRow"}
     \/ At(p, "disable") /\ proc[p].op = "stop"
  /\ failed' = IF proc[p].pc \in {"port", "fetch"} THEN failed \cup {proc[p].room} ELSE failed
  /\ calm' = IF At(p, "deleteRow") THEN calm \ {proc[p].room} ELSE calm
  /\ End(p)
  /\ UNCHANGED <<db, hosted, handler, inst, refs, boot, made>>

(* An error of the store that is only logged.                              *)
StoreFails(p) ==
  /\ \/ At(p, "save") /\ AfterSave(p)
     \/ At(p, "store") /\ End(p)
     \/ proc[p].pc \in DeletePcs /\ Goto(p, AfterDelete[proc[p].pc])
     \/ At(p, "disable") /\ proc[p].op = "kill" /\ Goto(p, "remove")
  /\ calm' = calm \ {proc[p].room}
  /\ UNCHANGED <<db, hosted, handler, inst, refs, boot, failed, made>>

(* The deletion of some of the stale differences fails, which is logged:   *)
(* the start goes on with the rows of the other default.                   *)
UpdateFails(p) ==
  LET r == proc[p].room
      want == proc[p].want
      stale == {k \in Switches : want[k] # proc[p].row.cfg[k]}
  IN  /\ At(p, "update")
      /\ \E kept \in SUBSET stale :
           /\ kept # {}
           /\ db' = [db EXCEPT ![r].over = [k \in Switches |-> IF k \in stale \ kept THEN {} ELSE @[k]]]
      /\ proc' = [proc EXCEPT ![p].row.cfg = want, ![p].pc = "enable"]
      /\ calm' = calm \ {r}
      /\ UNCHANGED <<hosted, handler, inst, refs, boot, failed, made>>

(* Some of the five loads fail, which is logged: what they would restore   *)
(* stays as startNewHostedRoom made it.                                    *)
RestoreFails(p) ==
  LET i == proc[p].inst
      s == db[proc[p].room]
  IN  /\ At(p, "restore")
      /\ \E lost \in SUBSET (Switches \cup {"deaths", "alt"}),
            name \in IF s.alt = {} THEN {inst[i].alt} ELSE s.alt :
           /\ lost # {}
           /\ inst' = [inst EXCEPT
                ![i].sw = [k \in Switches |-> IF k \in lost THEN @[k] ELSE RestoredSwitch(inst[i], s, k)],
                ![i].deaths = IF s.deaths = 0 \/ "deaths" \in lost THEN @ ELSE s.deaths,
                ![i].alt = IF "alt" \in lost THEN @ ELSE name]
      /\ End(p)
      /\ calm' = calm \ {proc[p].room}
      /\ UNCHANGED <<db, hosted, handler, refs, boot, failed, made>>

(* apx stops, also by log.Fatalf when data packages cannot be fetched, and *)
(* starts again: it loads the enabled rooms of its store.                  *)
Crash ==
  /\ made.crashes < MaxCrashes
  /\ made' = [made EXCEPT !.crashes = @ + 1]
  /\ hosted' = [r \in Rooms |-> 0]
  /\ handler' = [x \in Ids |-> 0]
  /\ inst' = << >>
  /\ refs' = 0
  /\ proc' = [p \in Procs |-> Idle]
  /\ boot' = {r \in Rooms : db[r].row # None /\ ~db[r].row.disabled}
  /\ UNCHANGED <<db, calm, failed>>

(* startRoomManager starts the loaded rooms one by one.                    *)
Boot ==
  /\ ~Serving
  /\ At("boot", "idle")
  /\ \/ /\ boot = {} /\ boot' = None
        /\ UNCHANGED proc
     \/ \E r \in boot :
          /\ boot' = boot \ {r}
          /\ proc' = [proc EXCEPT !["boot"] = [Idle EXCEPT !.pc = "new", !.op = "boot",
                                                 !.room = r, !.row = db[r].row]]
  /\ UNCHANGED <<db, hosted, handler, inst, refs, calm, failed, made>>

-----------------------------------------------------------------------------
Step(p) ==
  \/ NewGet(p) \/ NewBuild(p) \/ NewAllocate(p) \/ NewAdd(p) \/ NewSave(p) \/ Restore(p)
  \/ StartGet(p) \/ StartFind(p) \/ StartUpdate(p) \/ StartEnable(p) \/ StartPort(p)
  \/ Upload(p) \/ Disable(p) \/ DeleteRows(p) \/ DeleteRow(p) \/ RemoveRoom(p)
  \/ EditMemory(p) \/ EditStore(p) \/ Fails(p) \/ StoreFails(p)
  \/ UpdateFails(p) \/ RestoreFails(p)

Next ==
  \/ \E p \in Procs : Step(p)
  \/ \E p \in Requests, r \in Rooms :
       \/ \E want \in Config : Host(p, r, want)
       \/ Stop(p, r)
       \/ Delete(p, r)
       \/ \E e \in Edit : EditRoom(p, r, e)
  \/ \E r \in Rooms : Kill(r)
  \/ \E p \in Requests, i \in Built : Death(p, i)
  \/ Crash
  \/ Boot

Spec == Init /\ [][Next]_vars

-----------------------------------------------------------------------------
(* The rooms, the handlers, the store and the requests have their types.   *)
TypeOK ==
  /\ db \in [Rooms -> Stored]
  /\ hosted \in [Rooms -> Built \cup {0}]
  /\ handler \in [Ids -> Built \cup {0}]
  /\ Built \subseteq Insts /\ \A i \in Built : inst[i] \in Object
  /\ refs \in 0 .. MaxInst
  /\ boot \in (SUBSET Rooms) \cup {None}
  /\ calm \subseteq Rooms /\ failed \subseteq Rooms
  /\ \A p \in Procs : proc[p].inst \in Built \cup {0}

Quiet(r) == Serving /\ Busy(r) = {}

Starting(i) == \E p \in Procs : proc[p].inst = i /\ proc[p].pc \in {"allocate", "add"}
Abandoned(i) ==
  /\ ~Starting(i)
  /\ hosted[inst[i].room] # i
  /\ inst[i].polling \/ inst[i].ids = <<0, 0>>

(* AllocateAndRegisterHandlerPair, startNewHostedRoom and Remove: whatever *)
(* requests overlap, the two ids of a hosted room lead to it, and no id    *)
(* leads to a room that was removed (its context is cancelled). A room     *)
(* that is neither hosted nor being started is polled by nobody and        *)
(* reached by no id, unless two requests on its lobby room overlapped; the *)
(* data packages taken are those of the hosted rooms, of the rooms being   *)
(* started, and of the objects that no id pair was left for or that lost   *)
(* the race to be registered.                                              *)
IdsLeadToTheRoom ==
  /\ \A r \in Rooms : hosted[r] # 0 =>
       LET o == inst[hosted[r]]
       IN  /\ o.room = r /\ o.polling
           /\ o.ids[1] # o.ids[2]
           /\ handler[o.ids[1]] = hosted[r] /\ handler[o.ids[2]] = hosted[r]
  /\ \A x \in Ids : handler[x] # 0 => inst[handler[x]].polling
  /\ \A i \in Built :
       (inst[i].room \in calm /\ ~Starting(i) /\ hosted[inst[i].room] # i) =>
         ~inst[i].polling /\ \A x \in Ids : handler[x] # i
  /\ refs = Cardinality({i \in Built : \/ hosted[inst[i].room] = i
                                       \/ Starting(i)
                                       \/ Abandoned(i)})

(* "Value saved to db is flipped, so it can be restored flipped if room    *)
(* restarts" (api.go:1110): a hosted room that nothing irregular happened  *)
(* to would be restarted from the store as it is: the same room of the     *)
(* server under the same ids, with the same switches, probability, deaths  *)
(* and, although api.go:278 says that they reset on restart (see           *)
(* AltNamesReset), the same alternative name.                              *)
RestartRestores ==
  \A r \in calm : (Quiet(r) /\ hosted[r] # 0) =>
    LET o == inst[hosted[r]]
        s == db[r]
    IN  /\ s.row # None
        /\ ~s.row.disabled
        /\ s.row.ap = o.ap /\ s.row.ids = o.ids /\ s.row.cfg = o.cfg /\ s.row.prob = o.prob
        /\ \A k \in Switches : o.sw[k] = IF o.cfg[k] THEN Slots \ s.over[k] ELSE s.over[k]
        /\ s.deaths = o.deaths
        /\ s.alt = IF o.alt = None THEN {} ELSE {o.alt}

(* "Alt names need more work to be listable and deletable, will reset on   *)
(* restart for now" (api.go:278): a room that apx starts from its store    *)
(* has no alternative name before a request can give it one.  The code     *)
(* stores the names and restoreAltConnectNames brings them back.           *)
AltNamesReset ==
  ~Serving => \A r \in Rooms : hosted[r] # 0 => inst[hosted[r]].alt = None

(* A room is enabled in the store exactly if it is hosted, once the        *)
(* requests on it have ended regularly and no start of it has failed after *)
(* enabling it.                                                            *)
EnabledIsHosted ==
  \A r \in calm \ failed : Quiet(r) =>
    (hosted[r] # 0 <=> (db[r].row # None /\ ~db[r].row.disabled))

(* handleRoomDelete: what is left of a deleted room that nothing irregular *)
(* happened to is nothing: no row of any table brings it back or changes a *)
(* later room of the same id.                                              *)
DeletedIsGone ==
  \A r \in calm : (Quiet(r) /\ db[r].row = None) => db[r] = NothingStored /\ hosted[r] = 0

(* RoomRegistry and RoomStore: a hosted room that nothing irregular        *)
(* happened to is in the store as it is, a room is enabled there exactly   *)
(* if it is hosted, and of a deleted room nothing is left.                 *)
StoreTellsRooms == TypeOK /\ RestartRestores /\ EnabledIsHosted /\ DeletedIsGone
=============================================================================
