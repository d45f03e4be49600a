-------------------------- MODULE HostedRoomsProofs --------------------------
(***************************************************************************)
(* Proofs about the rooms apx hosts: the ids lead to them, and the store   *)
(* tells what is hosted.                                                   *)
(***************************************************************************)
EXTENDS HostedRooms, FiniteSetTheorems, TLAPS

-----------------------------------------------------------------------------
(* Types: where a request is tells which of its fields are filled          *)

NewPcs == {"new", "fetch", "allocate", "add", "save", "restore"}
StartPcs == {"start", "find", "update", "enable", "port"}
EditPcs == {"memory", "store"}
Pcs == NewPcs \cup StartPcs \cup EditPcs \cup
       {"idle", "upload", "disable", "remove", "deleteRow"} \cup DeletePcs
Proc == [pc : Pcs, op : {"none", "start", "upload", "stop", "kill", "delete", "edit", "boot"},
         room : Rooms \cup {None}, inst : Insts \cup {0}, row : Row \cup {None}, want : Config,
         edit : Edit \cup {None}]

(* Of a request: it is about a room; it carries the row it starts the room *)
(* from, the object it builds or changes, or the edit it makes.            *)
FieldsOK(t) ==
  /\ IF t.pc = "idle" THEN t = Idle ELSE t.room \in Rooms
  /\ t.pc \in {"update", "enable", "port", "new", "fetch", "allocate", "add"} => t.row \in Row
  /\ t.pc \in {"allocate", "add", "save", "restore", "memory", "store"} => t.inst # 0
  /\ t.edit # None <=> t.pc \in EditPcs
  /\ t.op = "upload" => t.pc \in {"upload", "new", "fetch", "allocate", "add", "save"}
  /\ t.pc = "upload" => t.op = "upload"
  /\ t.pc \in NewPcs => t.op \in {"upload", "start", "boot"}
  /\ t.pc \in StartPcs => t.op = "start"
  /\ t.pc \in EditPcs => t.op = "edit"
  /\ t.pc = "disable" => t.op \in {"stop", "kill"}
  /\ t.pc = "remove" => t.op \in {"stop", "kill", "delete"}
  /\ t.pc \in DeletePcs \cup {"deleteRow"} => t.op = "delete"

(* The object a request is about belongs to the request's room.            *)
InstOK(t) == t.inst # 0 => t.inst \in Built /\ inst[t.inst].room = t.room

Made == [ap : Nat, ops : Nat, crashes : Nat, taken : SUBSET Ids]

TypeInv ==
  /\ db \in [Rooms -> Stored]
  /\ \E n \in 0 .. MaxInst : Built = 1 .. n
  /\ \A i \in Built : inst[i] \in Object
  /\ hosted \in [Rooms -> Built \cup {0}]
  /\ handler \in [Ids -> Built \cup {0}]
  /\ proc \in [Procs -> Proc]
  /\ \A p \in Procs : FieldsOK(proc[p]) /\ InstOK(proc[p])
  /\ boot \in (SUBSET Rooms) \cup {None}
  /\ calm \subseteq Rooms /\ failed \subseteq Rooms
  /\ made \in Made

(* While apx starts, only its start runs; when it serves, that is over.    *)
BootAlone ==
  /\ ~Serving => \A p \in Procs \ {"boot"} : proc[p] = Idle
  /\ Serving => proc["boot"] = Idle
  /\ proc["boot"].op \in {"none", "boot"}
  /\ ~Serving => \A r \in boot : /\ db[r].row # None /\ ~db[r].row.disabled /\ hosted[r] = 0
                                 /\ proc["boot"].pc # "idle" => proc["boot"].room # r

-----------------------------------------------------------------------------
(* The ids lead to the rooms                                               *)

IdsOf(i) == {inst[i].ids[1], inst[i].ids[2]}

(* An object whose ids are registered: they lead to it.                    *)
Registered(i) ==
  /\ inst[i].polling
  /\ inst[i].ids[1] # inst[i].ids[2]
  /\ IdsOf(i) \subseteq Ids
  /\ \A x \in IdsOf(i) : handler[x] = i

Nascent(p) == proc[p].pc \in {"allocate", "add"}

IdsInv ==
  /\ \A r \in Rooms : hosted[r] # 0 => inst[hosted[r]].room = r /\ Registered(hosted[r])
  /\ \A x \in Ids : handler[x] # 0 => x \in IdsOf(handler[x]) /\ inst[handler[x]].polling
  /\ \A p \in Procs : At(p, "allocate") => /\ inst[proc[p].inst].polling
                                           /\ \A x \in Ids : handler[x] # proc[p].inst
  /\ \A p \in Procs : At(p, "add") => Registered(proc[p].inst)
  /\ \A p \in Procs : Nascent(p) =>
       /\ \A r \in Rooms : hosted[r] # proc[p].inst
       /\ \A q \in Procs \ {p} : Nascent(q) => proc[q].inst # proc[p].inst

(* Two requests on a room that is calm are edits of different things.      *)
Active(p, r) == proc[p].pc # "idle" /\ proc[p].room = r
Apart ==
  \A r \in calm : \A p, q \in Procs :
    (p # q /\ Active(p, r) /\ Active(q, r)) => Unrelated(proc[p].edit, proc[q].edit)

(* A calm room that is being started is not hosted, so that nobody comes   *)
(* second; one that is edited is.                                          *)
NotYet == {"find", "update", "enable", "port", "upload", "new", "fetch", "allocate", "add"}
HostedAsDue ==
  \A p \in Procs : (proc[p].pc # "idle" /\ proc[p].room \in calm) =>
    /\ proc[p].pc \in NotYet => hosted[proc[p].room] = 0
    /\ proc[p].pc \in {"save", "restore", "memory", "store"} => hosted[proc[p].room] = proc[p].inst
    /\ proc[p].pc = "disable" => hosted[proc[p].room] # 0

(* A calm room that is hosted has a row, but for the moments between its   *)
(* registration and its save and between its deletion and its removal.     *)
RowKept ==
  \A r \in calm : hosted[r] # 0 =>
    db[r].row # None \/ \E p \in Procs : Active(p, r) /\ proc[p].pc \in {"save", "remove"}

(* Nobody polls, or is led to, an object of a calm room that is not hosted *)
(* and not being started.                                                  *)
CalmLeftovers ==
  \A i \in Built :
    (inst[i].room \in calm /\ ~Starting(i) /\ hosted[inst[i].room] # i) => ~inst[i].polling

(* The objects that hold data packages                                     *)
Holding == {i \in Built : inst[i].polling \/ inst[i].ids = <<0, 0>>}
RefsExact == refs = Cardinality(Holding)

-----------------------------------------------------------------------------
(* What a step of a request changes at most                                *)

(* The other requests are where they were; this one goes on or ends.       *)
ProcStep(p) ==
  /\ proc' \in [Procs -> Proc]
  /\ \A q \in Procs \ {p} : proc'[q] = proc[q]
  /\ proc[p].pc # "idle"
  /\ FieldsOK(proc'[p])
  /\ \/ proc'[p] = Idle
     \/ /\ proc'[p].pc # "idle"
        /\ proc'[p].room = proc[p].room
        /\ proc'[p].edit = proc[p].edit
        /\ proc'[p].op = proc[p].op

(* The store changes for the request's room only, the rest is well typed.  *)
Local(p) ==
  /\ ProcStep(p)
  /\ db' \in [Rooms -> Stored]
  /\ \A r \in Rooms : r # proc[p].room => db'[r] = db[r]
  /\ \A r \in Rooms : r # proc[p].room => hosted'[r] = hosted[r]
  /\ boot' = boot
  /\ calm' \subseteq calm /\ failed' \subseteq Rooms
  /\ made' \in Made

(* The objects keep their rooms, ids and pollers.                          *)
ObjectsAlike ==
  /\ DOMAIN inst' = DOMAIN inst
  /\ \A i \in Built : /\ inst'[i] \in Object
                      /\ inst'[i].room = inst[i].room
                      /\ inst'[i].ids = inst[i].ids
                      /\ inst'[i].polling = inst[i].polling

(* A step that leaves the registry alone and builds nothing                *)
Placed == {"save", "restore", "memory", "store"}
Simple(p) ==
  /\ Local(p)
  /\ UNCHANGED <<hosted, handler, refs>>
  /\ ObjectsAlike
  /\ proc'[p] # Idle => proc'[p].inst = proc[p].inst
  /\ proc[p].pc \notin {"allocate", "add"} /\ proc'[p].pc \notin {"allocate", "add"}
  /\ proc'[p].pc \in NotYet => proc[p].pc \in NotYet \/ hosted[proc[p].room] = 0
  /\ proc'[p].pc \in Placed => proc[p].pc \in Placed
  /\ proc'[p].pc # "disable"

(* No request is under way at idle; what an idle process is.               *)
LEMMA IdleOK == Idle \in Proc /\ FieldsOK(Idle) /\ Idle.pc = "idle" /\ Idle.inst = 0 /\ Idle.room = None
                /\ Idle.edit = None /\ Idle.row = None /\ Idle.op = "none"
<1>1. NoConfig \in Config
  BY DEF NoConfig, Config
<1>2. Idle = [pc |-> "idle", op |-> "none", room |-> None, inst |-> 0, row |-> None,
         want |-> NoConfig, edit |-> None]
  BY DEF Idle
<1>3. Idle \in Proc
  BY <1>1, <1>2 DEF Proc, Pcs
<1>4. /\ Idle.pc = "idle" /\ Idle.inst = 0 /\ Idle.room = None
      /\ Idle.edit = None /\ Idle.row = None /\ Idle.op = "none"
  BY <1>2
<1> QED
  BY <1>3, <1>4 DEF FieldsOK, NewPcs, StartPcs, EditPcs, DeletePcs

(* The fields of a request have their types.                               *)
LEMMA ProcFields ==
  ASSUME NEW t \in Proc
  PROVE  /\ t.pc \in Pcs /\ t.room \in Rooms \cup {None} /\ t.inst \in Insts \cup {0}
         /\ t.row \in Row \cup {None} /\ t.want \in Config /\ t.edit \in Edit \cup {None}
BY DEF Proc

(* The fields of a request of a process, and of what it is about           *)
LEMMA ProcTyped ==
  ASSUME TypeInv, NEW p \in Procs, proc[p].pc # "idle"
  PROVE  /\ proc[p] \in Proc /\ FieldsOK(proc[p]) /\ InstOK(proc[p])
         /\ proc[p].room \in Rooms
         /\ db[proc[p].room] \in Stored
         /\ hosted[proc[p].room] \in Built \cup {0}
BY DEF TypeInv, FieldsOK

(* Goto changes the program counter of one request and nothing else.       *)
LEMMA Going ==
  ASSUME TypeInv, NEW p \in Procs, NEW c \in Pcs, Goto(p, c)
  PROVE  /\ proc' \in [Procs -> Proc]
         /\ \A q \in Procs \ {p} : proc'[q] = proc[q]
         /\ proc'[p].pc = c
         /\ proc'[p].op = proc[p].op /\ proc'[p].room = proc[p].room /\ proc'[p].inst = proc[p].inst
         /\ proc'[p].row = proc[p].row /\ proc'[p].want = proc[p].want /\ proc'[p].edit = proc[p].edit
<1> DEFINE t == [proc[p] EXCEPT !.pc = c]
<1>1. proc[p] \in Proc
  BY DEF TypeInv
<1>2. t \in Proc /\ t.pc = c /\ t.op = proc[p].op /\ t.room = proc[p].room /\ t.inst = proc[p].inst
      /\ t.row = proc[p].row /\ t.want = proc[p].want /\ t.edit = proc[p].edit
  BY <1>1 DEF Proc
<1>3. proc' = [proc EXCEPT ![p] = t] /\ proc \in [Procs -> Proc]
  BY DEF Goto, TypeInv
<1> HIDE DEF t
<1>4. proc' \in [Procs -> Proc] /\ proc'[p] = t /\ \A q \in Procs \ {p} : proc'[q] = proc[q]
  BY <1>2, <1>3
<1> QED
  BY <1>2, <1>4

(* A request that moves on within a room is a step of its process.         *)
LEMMA GoingStep ==
  ASSUME TypeInv, NEW p \in Procs, NEW c \in Pcs, Goto(p, c), c # "idle", proc[p].pc # "idle",
         FieldsOK(proc'[p])
  PROVE  ProcStep(p) /\ proc'[p].pc = c /\ proc'[p].inst = proc[p].inst /\ proc'[p].row = proc[p].row
BY Going, Zenon DEF ProcStep

(* So is one that ends.                                                    *)
LEMMA EndingStep ==
  ASSUME TypeInv, NEW p \in Procs, End(p), proc[p].pc # "idle"
  PROVE  ProcStep(p) /\ proc'[p] = Idle /\ proc'[p].pc = "idle"
<1>1. proc' = [proc EXCEPT ![p] = Idle] /\ proc \in [Procs -> Proc]
  BY DEF End, TypeInv
<1>2. proc' \in [Procs -> Proc] /\ proc'[p] = Idle /\ \A q \in Procs \ {p} : proc'[q] = proc[q]
  BY <1>1, IdleOK
<1> QED
  BY <1>2, IdleOK DEF ProcStep

-----------------------------------------------------------------------------
(* Rows, objects and edits                                                 *)

(* A room's rows after a change of one table                               *)
LEMMA StoredFields ==
  ASSUME NEW s \in Stored
  PROVE  /\ s.row \in Row \cup {None} /\ s.over \in [Switches -> SUBSET Slots]
         /\ s.deaths \in 0 .. MaxDeaths /\ s.alt \in SUBSET Slots
         /\ \A x \in Row \cup {None} : /\ [s EXCEPT !.row = x] \in Stored
                                       /\ [s EXCEPT !.row = x].row = x
                                       /\ [s EXCEPT !.row = x].over = s.over
                                       /\ [s EXCEPT !.row = x].deaths = s.deaths
                                       /\ [s EXCEPT !.row = x].alt = s.alt
         /\ \A x \in [Switches -> SUBSET Slots] : /\ [s EXCEPT !.over = x] \in Stored
                                                  /\ [s EXCEPT !.over = x].row = s.row
                                                  /\ [s EXCEPT !.over = x].over = x
                                                  /\ [s EXCEPT !.over = x].deaths = s.deaths
                                                  /\ [s EXCEPT !.over = x].alt = s.alt
         /\ \A x \in 0 .. MaxDeaths : /\ [s EXCEPT !.deaths = x] \in Stored
                                      /\ [s EXCEPT !.deaths = x].row = s.row
                                      /\ [s EXCEPT !.deaths = x].over = s.over
                                      /\ [s EXCEPT !.deaths = x].deaths = x
                                      /\ [s EXCEPT !.deaths = x].alt = s.alt
         /\ \A x \in SUBSET Slots : /\ [s EXCEPT !.alt = x] \in Stored
                                    /\ [s EXCEPT !.alt = x].row = s.row
                                    /\ [s EXCEPT !.alt = x].over = s.over
                                    /\ [s EXCEPT !.alt = x].deaths = s.deaths
                                    /\ [s EXCEPT !.alt = x].alt = x
BY DEF Stored

LEMMA NothingStoredOK ==
  /\ NothingStored \in Stored /\ NothingStored.row = None
  /\ NothingStored.over = [k \in Switches |-> {}] /\ NothingStored.deaths = 0 /\ NothingStored.alt = {}
<1>1. 0 \in 0 .. MaxDeaths
  BY BoundsAssumption
<1> QED
  BY <1>1 DEF NothingStored, Stored

(* A row after a change of one column                                      *)
LEMMA RowFields ==
  ASSUME NEW row \in Row
  PROVE  /\ row.ap \in Nat /\ row.ids \in (Ids \cup {0}) \X (Ids \cup {0})
         /\ row.disabled \in BOOLEAN /\ row.cfg \in Config /\ row.prob \in {1, 2}
         /\ row # None
         /\ \A b \in BOOLEAN : /\ [row EXCEPT !.disabled = b] \in Row
                               /\ [row EXCEPT !.disabled = b].disabled = b
                               /\ [row EXCEPT !.disabled = b].ap = row.ap
                               /\ [row EXCEPT !.disabled = b].ids = row.ids
                               /\ [row EXCEPT !.disabled = b].cfg = row.cfg
                               /\ [row EXCEPT !.disabled = b].prob = row.prob
         /\ \A c \in Config : /\ [row EXCEPT !.cfg = c] \in Row
                              /\ [row EXCEPT !.cfg = c].disabled = row.disabled
                              /\ [row EXCEPT !.cfg = c].ap = row.ap
                              /\ [row EXCEPT !.cfg = c].ids = row.ids
                              /\ [row EXCEPT !.cfg = c].cfg = c
                              /\ [row EXCEPT !.cfg = c].prob = row.prob
         /\ \A v \in {1, 2} : /\ [row EXCEPT !.prob = v] \in Row
                              /\ [row EXCEPT !.prob = v].disabled = row.disabled
                              /\ [row EXCEPT !.prob = v].ap = row.ap
                              /\ [row EXCEPT !.prob = v].ids = row.ids
                              /\ [row EXCEPT !.prob = v].cfg = row.cfg
                              /\ [row EXCEPT !.prob = v].prob = v
<1>1. row # None
  BY NoneAssumption
<1> QED
  BY <1>1 DEF Row

(* An object's fields                                                      *)
LEMMA ObjectFields ==
  ASSUME NEW o \in Object
  PROVE  /\ o.room \in Rooms /\ o.ap \in Nat /\ o.ids \in (Ids \cup {0}) \X (Ids \cup {0})
         /\ o.cfg \in Config /\ o.sw \in [Switches -> SUBSET Slots] /\ o.prob \in {1, 2}
         /\ o.deaths \in 0 .. MaxDeaths /\ o.alt \in Slots \cup {None} /\ o.polling \in BOOLEAN
BY DEF Object

(* The kinds of edits and what each carries                                *)
LEMMA EditFields ==
  ASSUME NEW e \in Edit
  PROVE  /\ e.kind \in {"switch", "prob", "alt", "death"}
         /\ e # None
         /\ e.kind = "switch" => e.k \in Switches /\ e.slot \in Slots /\ e.on \in BOOLEAN
         /\ e.kind = "prob" => e.v \in {1, 2}
         /\ e.kind = "alt" => e.slot \in Slots \cup {None}
<1>1. e # None
  BY NoneAssumption
<1> DEFINE A == [kind : {"switch"}, k : Switches, slot : Slots, on : BOOLEAN]
           B == [kind : {"prob"}, v : {1, 2}]
           C == [kind : {"alt"}, slot : Slots \cup {None}]
           D == [kind : {"death"}]
<1>2. e \in A \/ e \in B \/ e \in C \/ e \in D
  BY DEF Edit
<1>3. e \in A => e.kind = "switch" /\ e.k \in Switches /\ e.slot \in Slots /\ e.on \in BOOLEAN
  OBVIOUS
<1>4. e \in B => e.kind = "prob" /\ e.v \in {1, 2}
  OBVIOUS
<1>5. e \in C => e.kind = "alt" /\ e.slot \in Slots \cup {None}
  OBVIOUS
<1>6. e \in D => e.kind = "death"
  OBVIOUS
<1> HIDE DEF A, B, C, D
<1> QED
  BY <1>1, <1>2, <1>3, <1>4, <1>5, <1>6

(* Save writes a row.                                                      *)
LEMMA SavedRowOK ==
  ASSUME NEW o \in Object, NEW old \in Row \cup {None}
  PROVE  /\ SavedRow(o, old) \in Row
         /\ SavedRow(o, old).ap = o.ap /\ SavedRow(o, old).ids = o.ids /\ SavedRow(o, old).cfg = o.cfg
         /\ SavedRow(o, old).disabled = (IF old = None THEN FALSE ELSE old.disabled)
         /\ SavedRow(o, old).prob = (IF old = None THEN 1 ELSE old.prob)
<1>1. /\ (IF old = None THEN FALSE ELSE old.disabled) \in BOOLEAN
      /\ (IF old = None THEN 1 ELSE old.prob) \in {1, 2}
  BY RowFields
<1>2. o.ap \in Nat /\ o.ids \in (Ids \cup {0}) \X (Ids \cup {0}) /\ o.cfg \in Config
  BY ObjectFields
<1> QED
  BY <1>1, <1>2 DEF SavedRow, Row

(* What an edit makes of an object: it is the same room under the same     *)
(* ids, and exactly the setting the edit names is as the edit says.        *)
EditedAs(n, o, e) ==
  /\ n \in Object
  /\ n.room = o.room /\ n.ap = o.ap /\ n.ids = o.ids /\ n.cfg = o.cfg /\ n.polling = o.polling
  /\ \A k \in Switches, slot \in Slots :
       slot \in n.sw[k] <=> IF e.kind = "switch" /\ k = e.k /\ slot = e.slot THEN e.on ELSE slot \in o.sw[k]
  /\ n.prob = IF e.kind = "prob" THEN e.v ELSE o.prob
  /\ n.alt = IF e.kind = "alt" THEN e.slot ELSE o.alt
  /\ n.deaths = IF e.kind = "death" /\ o.deaths < MaxDeaths THEN o.deaths + 1 ELSE o.deaths

LEMMA EditedOK ==
  ASSUME NEW o \in Object, NEW e \in Edit
  PROVE  EditedAs(Edited(o, e), o, e)
<1>1. CASE e.kind = "switch"
  <2>1. e.k \in Switches /\ e.slot \in Slots /\ e.on \in BOOLEAN
    BY <1>1, EditFields
  <2> DEFINE x == [o.sw EXCEPT ![e.k] = IF e.on THEN @ \cup {e.slot} ELSE @ \ {e.slot}]
  <2>2. o.sw \in [Switches -> SUBSET Slots]
    BY ObjectFields
  <2>3. x \in [Switches -> SUBSET Slots]
    BY <2>1, <2>2
  <2>4. \A k \in Switches, slot \in Slots :
          slot \in x[k] <=> IF k = e.k /\ slot = e.slot THEN e.on ELSE slot \in o.sw[k]
    BY <2>1, <2>2
  <2>5. Edited(o, e) = [o EXCEPT !.sw = x]
    BY <1>1 DEF Edited
  <2> HIDE DEF x
  <2>6. /\ Edited(o, e) \in Object /\ Edited(o, e).room = o.room /\ Edited(o, e).ap = o.ap /\ Edited(o, e).ids = o.ids
        /\ Edited(o, e).cfg = o.cfg /\ Edited(o, e).polling = o.polling
        /\ Edited(o, e).sw = x
        /\ Edited(o, e).prob = o.prob
        /\ Edited(o, e).alt = o.alt
        /\ Edited(o, e).deaths = o.deaths
    BY <2>3, <2>5 DEF Object
  <2> QED
    BY <1>1, <2>4, <2>6 DEF EditedAs
<1>2. CASE e.kind = "prob"
  <2>1. e.v \in {1, 2} /\ Edited(o, e) = [o EXCEPT !.prob = e.v]
    BY <1>2, EditFields DEF Edited
  <2>2. /\ Edited(o, e) \in Object /\ Edited(o, e).room = o.room /\ Edited(o, e).ap = o.ap /\ Edited(o, e).ids = o.ids
        /\ Edited(o, e).cfg = o.cfg /\ Edited(o, e).polling = o.polling
        /\ Edited(o, e).sw = o.sw
        /\ Edited(o, e).prob = e.v
        /\ Edited(o, e).alt = o.alt
        /\ Edited(o, e).deaths = o.deaths
    BY <2>1 DEF Object
  <2> QED
    BY <1>2, <2>2 DEF EditedAs
<1>3. CASE e.kind = "alt"
  <2>1. e.slot \in Slots \cup {None} /\ Edited(o, e) = [o EXCEPT !.alt = e.slot]
    BY <1>3, EditFields DEF Edited
  <2>2. /\ Edited(o, e) \in Object /\ Edited(o, e).room = o.room /\ Edited(o, e).ap = o.ap /\ Edited(o, e).ids = o.ids
        /\ Edited(o, e).cfg = o.cfg /\ Edited(o, e).polling = o.polling
        /\ Edited(o, e).sw = o.sw
        /\ Edited(o, e).prob = o.prob
        /\ Edited(o, e).alt = e.slot
        /\ Edited(o, e).deaths = o.deaths
    BY <2>1 DEF Object
  <2> QED
    BY <1>3, <2>2 DEF EditedAs
<1>4. CASE e.kind = "death"
  <2> DEFINE x == IF o.deaths < MaxDeaths THEN o.deaths + 1 ELSE o.deaths
  <2>1. Edited(o, e) = [o EXCEPT !.deaths = x]
    BY <1>4 DEF Edited
  <2>2. x \in 0 .. MaxDeaths
    BY ObjectFields, BoundsAssumption
  <2>3. x = IF o.deaths < MaxDeaths THEN o.deaths + 1 ELSE o.deaths
    OBVIOUS
  <2> HIDE DEF x
  <2>4. /\ Edited(o, e) \in Object /\ Edited(o, e).room = o.room /\ Edited(o, e).ap = o.ap /\ Edited(o, e).ids = o.ids
        /\ Edited(o, e).cfg = o.cfg /\ Edited(o, e).polling = o.polling
        /\ Edited(o, e).sw = o.sw
        /\ Edited(o, e).prob = o.prob
        /\ Edited(o, e).alt = o.alt
        /\ Edited(o, e).deaths = x
    BY <2>1, <2>2 DEF Object
  <2> QED
    BY <1>4, <2>3, <2>4 DEF EditedAs
<1> QED
  BY <1>1, <1>2, <1>3, <1>4, EditFields

(* What the store makes of an edit                                         *)
StoredAs(n, s, o, e) ==
  /\ n \in Stored
  /\ n.row = IF e.kind = "prob" /\ s.row # None THEN [s.row EXCEPT !.prob = e.v] ELSE s.row
  /\ \A k \in Switches, slot \in Slots :
       slot \in n.over[k] <=> IF e.kind = "switch" /\ k = e.k /\ slot = e.slot THEN e.on # o.cfg[k]
                              ELSE slot \in s.over[k]
  /\ n.alt = IF e.kind = "alt" THEN (IF e.slot = None THEN {} ELSE s.alt \cup {e.slot}) ELSE s.alt
  /\ n.deaths = IF e.kind = "death" /\ s.deaths < MaxDeaths THEN s.deaths + 1 ELSE s.deaths

LEMMA StoredEditOK ==
  ASSUME NEW s \in Stored, NEW o \in Object, NEW e \in Edit
  PROVE  StoredAs(StoredEdit(s, o, e), s, o, e)
<1>0. /\ s.row \in Row \cup {None} /\ s.over \in [Switches -> SUBSET Slots]
      /\ s.deaths \in 0 .. MaxDeaths /\ s.alt \in SUBSET Slots /\ o.cfg \in Config
  BY StoredFields, ObjectFields
<1>1. CASE e.kind = "switch"
  <2>1. e.k \in Switches /\ e.slot \in Slots /\ e.on \in BOOLEAN
    BY <1>1, EditFields
  <2> DEFINE x == [s.over EXCEPT ![e.k] = IF e.on = o.cfg[e.k] THEN @ \ {e.slot} ELSE @ \cup {e.slot}]
  <2>3. x \in [Switches -> SUBSET Slots]
    BY <2>1, <1>0
  <2>4. \A k \in Switches, slot \in Slots :
          slot \in x[k] <=> IF k = e.k /\ slot = e.slot THEN e.on # o.cfg[k] ELSE slot \in s.over[k]
    BY <2>1, <1>0
  <2>5. StoredEdit(s, o, e) = [s EXCEPT !.over = x]
    BY <1>1 DEF StoredEdit
  <2> HIDE DEF x
  <2> QED
    BY <1>1, <2>3, <2>4, <2>5, StoredFields DEF StoredAs
<1>2. CASE e.kind = "prob"
  <2> DEFINE x == IF s.row = None THEN None ELSE [s.row EXCEPT !.prob = e.v]
  <2>1. e.v \in {1, 2} /\ StoredEdit(s, o, e) = [s EXCEPT !.row = x]
    BY <1>2, EditFields DEF StoredEdit
  <2>2. x \in Row \cup {None}
    BY <1>0, <2>1, RowFields
  <2>3. x = IF e.kind = "prob" /\ s.row # None THEN [s.row EXCEPT !.prob = e.v] ELSE s.row
    BY <1>2
  <2> HIDE DEF x
  <2> QED
    BY <1>2, <2>1, <2>2, <2>3, StoredFields DEF StoredAs
<1>3. CASE e.kind = "alt"
  <2> DEFINE x == IF e.slot = None THEN {} ELSE s.alt \cup {e.slot}
  <2>1. e.slot \in Slots \cup {None} /\ StoredEdit(s, o, e) = [s EXCEPT !.alt = x]
    BY <1>3, EditFields DEF StoredEdit
  <2>2. x \in SUBSET Slots
    BY <1>0, <2>1
  <2>3. x = IF e.slot = None THEN {} ELSE s.alt \cup {e.slot}
    OBVIOUS
  <2> HIDE DEF x
  <2> QED
    BY <1>3, <2>1, <2>2, <2>3, StoredFields DEF StoredAs
<1>4. CASE e.kind = "death"
  <2> DEFINE x == IF s.deaths < MaxDeaths THEN s.deaths + 1 ELSE s.deaths
  <2>1. StoredEdit(s, o, e) = [s EXCEPT !.deaths = x]
    BY <1>4 DEF StoredEdit
  <2>2. x \in 0 .. MaxDeaths
    BY <1>0, BoundsAssumption
  <2>3. x = IF s.deaths < MaxDeaths THEN s.deaths + 1 ELSE s.deaths
    OBVIOUS
  <2> HIDE DEF x
  <2> QED
    BY <1>4, <2>1, <2>2, <2>3, StoredFields DEF StoredAs
<1> QED
  BY <1>1, <1>2, <1>3, <1>4, EditFields

-----------------------------------------------------------------------------
(* The steps that leave the registry alone                                 *)

(* Objects that are not changed are alike.                                 *)
LEMMA Unchanged ==
  ASSUME TypeInv, UNCHANGED inst
  PROVE  ObjectsAlike
BY DEF TypeInv, ObjectsAlike, Built

(* A change of one room's rows                                             *)
LEMMA RowsOf ==
  ASSUME TypeInv, NEW r \in Rooms, NEW s \in Stored, db' = [db EXCEPT ![r] = s]
  PROVE  /\ db' \in [Rooms -> Stored] /\ db'[r] = s
         /\ \A q \in Rooms : q # r => db'[q] = db[q]
BY DEF TypeInv

(* What a simple step does besides moving its process                      *)
Quietly(p) ==
  /\ proc[p].pc \notin {"idle", "allocate", "add"}
  /\ db' \in [Rooms -> Stored] /\ \A r \in Rooms : r # proc[p].room => db'[r] = db[r]
  /\ UNCHANGED <<hosted, handler, refs, boot>> /\ calm' \subseteq calm /\ failed' \subseteq Rooms
  /\ made' \in Made
  /\ ObjectsAlike

LEMMA QuietlyLooking ==
  ASSUME TypeInv, NEW p \in Procs, proc[p].pc \notin {"idle", "allocate", "add"},
         UNCHANGED <<db, hosted, handler, inst, refs, boot, calm, failed, made>>
  PROVE  Quietly(p)
<1>1. db \in [Rooms -> Stored] /\ calm \subseteq calm /\ failed \subseteq Rooms /\ made \in Made
  BY DEF TypeInv
<1> QED
  BY <1>1, Unchanged DEF Quietly

LEMMA QuietlyStoring ==
  ASSUME TypeInv, NEW p \in Procs, proc[p].pc \notin {"idle", "allocate", "add"},
         NEW s \in Stored, db' = [db EXCEPT ![proc[p].room] = s],
         UNCHANGED <<hosted, handler, inst, refs, boot, calm, failed, made>>
  PROVE  Quietly(p) /\ db'[proc[p].room] = s
<1>1. calm \subseteq calm /\ failed \subseteq Rooms /\ made \in Made /\ proc[p].room \in Rooms
  BY ProcTyped DEF TypeInv
<1> QED
  BY <1>1, Unchanged, RowsOf DEF Quietly

(* A simple step that ends its request, and one that moves it on           *)
LEMMA EndSimple ==
  ASSUME TypeInv, NEW p \in Procs, Quietly(p), End(p)
  PROVE  Simple(p) /\ proc'[p] = Idle
<1>1. ProcStep(p) /\ proc'[p] = Idle /\ proc'[p].pc = "idle"
  BY EndingStep DEF Quietly
<1>2. Local(p)
  BY <1>1 DEF Quietly, Local
<1> QED
  BY <1>1, <1>2 DEF Simple, NotYet, Placed, Quietly

LEMMA GoSimple ==
  ASSUME TypeInv, NEW p \in Procs, Quietly(p), NEW c \in Pcs, Goto(p, c),
         c \notin {"idle", "allocate", "add", "disable"}, FieldsOK(proc'[p]),
         c \in NotYet => proc[p].pc \in NotYet \/ hosted[proc[p].room] = 0,
         c \in Placed => proc[p].pc \in Placed
  PROVE  /\ Simple(p) /\ proc'[p].pc = c /\ proc'[p].inst = proc[p].inst /\ proc'[p].row = proc[p].row
         /\ proc'[p] # Idle
<1>1. ProcStep(p) /\ proc'[p].pc = c /\ proc'[p].inst = proc[p].inst /\ proc'[p].row = proc[p].row
  BY GoingStep DEF Quietly
<1>2. Local(p)
  BY <1>1 DEF Quietly, Local
<1> QED
  BY <1>1, <1>2, IdleOK DEF Simple, Quietly

(* The fields that the next step needs                                     *)
LEMMA GoingFields ==
  ASSUME TypeInv, NEW p \in Procs, proc[p].pc # "idle", NEW c \in Pcs \ {"idle"}, Goto(p, c),
         LET b == proc[p].pc IN
           /\ c \in {"update", "enable", "port", "new", "fetch", "allocate", "add"} =>
                b \in {"update", "enable", "port", "new", "fetch", "allocate", "add"}
           /\ c \in {"allocate", "add", "save", "restore", "memory", "store"} =>
                b \in {"allocate", "add", "save", "restore", "memory", "store"}
           /\ c \in EditPcs <=> b \in EditPcs
           /\ c = "upload" => b = "upload"
           /\ proc[p].op = "upload" => c \in {"upload", "new", "fetch", "allocate", "add", "save"}
           /\ c \in NewPcs => proc[p].op \in {"upload", "start", "boot"}
           /\ c \in StartPcs => proc[p].op = "start"
           /\ c = "disable" => proc[p].op \in {"stop", "kill"}
           /\ c = "remove" => proc[p].op \in {"stop", "kill", "delete"}
           /\ c \in DeletePcs \cup {"deleteRow"} => proc[p].op = "delete"
  PROVE  FieldsOK(proc'[p])
<1>1. FieldsOK(proc[p]) /\ proc[p].room \in Rooms
  BY ProcTyped
<1>2. /\ proc'[p].pc = c /\ proc'[p].op = proc[p].op /\ proc'[p].room = proc[p].room
      /\ proc'[p].inst = proc[p].inst /\ proc'[p].row = proc[p].row /\ proc'[p].edit = proc[p].edit
  BY Going
<1> QED
  BY <1>1, <1>2 DEF FieldsOK

LEMMA NewGetSimple ==
  ASSUME TypeInv, NEW p \in Procs, NewGet(p)
  PROVE  Simple(p)
<1>1. proc[p].pc = "new" /\ Quietly(p) /\ FieldsOK(proc[p])
  BY QuietlyLooking, ProcTyped DEF NewGet, At
<1>2. CASE hosted[proc[p].room] # 0
  BY <1>1, <1>2, EndSimple DEF NewGet
<1>3. CASE hosted[proc[p].room] = 0
  <2>1. Goto(p, "fetch") /\ "fetch" \in Pcs
    BY <1>3 DEF NewGet, Pcs, NewPcs
  <2>2. FieldsOK(proc'[p])
    BY <1>1, <2>1, GoingFields DEF FieldsOK, NewPcs, StartPcs, EditPcs, DeletePcs
  <2> QED
    BY <1>1, <1>3, <2>1, <2>2, GoSimple DEF NotYet, Placed
<1> QED
  BY <1>2, <1>3

LEMMA StartGetSimple ==
  ASSUME TypeInv, NEW p \in Procs, StartGet(p)
  PROVE  Simple(p)
<1>1. proc[p].pc = "start" /\ Quietly(p) /\ FieldsOK(proc[p])
  BY QuietlyLooking, ProcTyped DEF StartGet, At
<1>2. CASE hosted[proc[p].room] # 0
  BY <1>1, <1>2, EndSimple DEF StartGet
<1>3. CASE hosted[proc[p].room] = 0
  <2>1. Goto(p, "find") /\ "find" \in Pcs
    BY <1>3 DEF StartGet, Pcs, StartPcs
  <2>2. FieldsOK(proc'[p])
    BY <1>1, <2>1, GoingFields DEF FieldsOK, NewPcs, StartPcs, EditPcs, DeletePcs
  <2> QED
    BY <1>1, <1>3, <2>1, <2>2, GoSimple DEF NotYet, Placed
<1> QED
  BY <1>2, <1>3

LEMMA StartPortSimple ==
  ASSUME TypeInv, NEW p \in Procs, StartPort(p)
  PROVE  Simple(p)
<1>1. proc[p].pc = "port" /\ Quietly(p) /\ FieldsOK(proc[p])
  BY QuietlyLooking, ProcTyped DEF StartPort, At
<1>2. Goto(p, "new") /\ "new" \in Pcs
  BY DEF StartPort, Pcs, NewPcs
<1>3. FieldsOK(proc'[p])
  BY <1>1, <1>2, GoingFields DEF FieldsOK, NewPcs, StartPcs, EditPcs, DeletePcs
<1> QED
  BY <1>1, <1>2, <1>3, GoSimple DEF NotYet, Placed

(* A step that fills other fields of its request as well                   *)
LEMMA MoveSimple ==
  ASSUME TypeInv, NEW p \in Procs, Quietly(p), NEW t \in Proc, proc' = [proc EXCEPT ![p] = t],
         FieldsOK(t), t.room = proc[p].room, t.edit = proc[p].edit, t.op = proc[p].op,
         t.inst = proc[p].inst, t.pc \notin {"idle", "allocate", "add", "disable"},
         t.pc \in NotYet => proc[p].pc \in NotYet \/ hosted[proc[p].room] = 0,
         t.pc \in Placed => proc[p].pc \in Placed
  PROVE  Simple(p) /\ proc'[p] = t
<1>1. proc' \in [Procs -> Proc] /\ proc'[p] = t /\ \A q \in Procs \ {p} : proc'[q] = proc[q]
  BY DEF TypeInv
<1>2. ProcStep(p)
  BY <1>1 DEF ProcStep, Quietly
<1>3. Local(p)
  BY <1>2 DEF Quietly, Local
<1> QED
  BY <1>1, <1>3 DEF Simple, Quietly

(* StartFind keeps the row it found.                                       *)
LEMMA StartFindSimple ==
  ASSUME TypeInv, NEW p \in Procs, StartFind(p)
  PROVE  Simple(p)
<1> DEFINE row == db[proc[p].room].row
<1>1. proc[p].pc = "find" /\ Quietly(p) /\ FieldsOK(proc[p]) /\ proc[p] \in Proc
  BY QuietlyLooking, ProcTyped DEF StartFind, At
<1>2. CASE row = None
  BY <1>1, <1>2, EndSimple DEF StartFind
<1>3. CASE row # None
  <2> DEFINE t == [proc[p] EXCEPT !.row = row, !.pc = "update"]
  <2>1. row \in Row
    BY <1>1, <1>3, ProcTyped, StoredFields
  <2>2. proc' = [proc EXCEPT ![p] = t]
    BY <1>3 DEF StartFind
  <2>3. t \in Proc /\ t.row = row /\ t.pc = "update" /\ t.room = proc[p].room /\ t.edit = proc[p].edit
        /\ t.op = proc[p].op /\ t.inst = proc[p].inst
    BY <1>1, <2>1 DEF Proc, Pcs, StartPcs
  <2> HIDE DEF t, row
  <2>4. FieldsOK(t)
    BY <1>1, <2>1, <2>3, IdleOK DEF FieldsOK, NewPcs, StartPcs, EditPcs, DeletePcs
  <2> QED
    BY <1>1, <2>2, <2>3, <2>4, MoveSimple DEF NotYet, Placed
<1> QED
  BY <1>2, <1>3

(* StartUpdate drops the differences from the defaults that change.        *)
KeptOver(s, want, cfg) == [k \in Switches |-> IF want[k] # cfg[k] THEN {} ELSE s.over[k]]

LEMMA StartUpdateSimple ==
  ASSUME TypeInv, NEW p \in Procs, StartUpdate(p)
  PROVE  /\ Simple(p) /\ inst' = inst
         /\ db'[proc[p].room] = [db[proc[p].room] EXCEPT
                                   !.over = KeptOver(db[proc[p].room], proc[p].want, proc[p].row.cfg)]
         /\ proc'[p].pc = "enable" /\ proc'[p].row = [proc[p].row EXCEPT !.cfg = proc[p].want]
<1> DEFINE r == proc[p].room
           x == KeptOver(db[r], proc[p].want, proc[p].row.cfg)
           s == [db[r] EXCEPT !.over = x]
           t == [proc[p] EXCEPT !.row = [proc[p].row EXCEPT !.cfg = proc[p].want], !.pc = "enable"]
<1>1. proc[p].pc = "update" /\ FieldsOK(proc[p]) /\ proc[p] \in Proc /\ r \in Rooms /\ db[r] \in Stored
  BY ProcTyped DEF StartUpdate, At
<1>2. proc[p].row \in Row /\ proc[p].want \in Config
  BY <1>1, ProcFields DEF FieldsOK
<1>3. x \in [Switches -> SUBSET Slots]
  BY <1>1, StoredFields DEF KeptOver
<1>4. s \in Stored
  BY <1>1, <1>3, StoredFields
<1>5. db' = [db EXCEPT ![r] = s]
  BY <1>1 DEF StartUpdate, TypeInv, KeptOver
<1>6. proc' = [proc EXCEPT ![p] = t]
  BY <1>1 DEF StartUpdate
<1>7. [proc[p].row EXCEPT !.cfg = proc[p].want] \in Row
  BY <1>2, RowFields
<1>8. t \in Proc /\ t.row = [proc[p].row EXCEPT !.cfg = proc[p].want] /\ t.pc = "enable"
      /\ t.room = proc[p].room /\ t.edit = proc[p].edit /\ t.op = proc[p].op /\ t.inst = proc[p].inst
  BY <1>1, <1>7 DEF Proc, Pcs, StartPcs
<1> HIDE DEF t, x, s
<1>9. FieldsOK(t)
  BY <1>1, <1>7, <1>8, IdleOK DEF FieldsOK, NewPcs, StartPcs, EditPcs, DeletePcs
<1>10. Quietly(p) /\ db'[r] = s /\ inst' = inst
  BY <1>1, <1>4, <1>5, QuietlyStoring DEF StartUpdate
<1>11. Simple(p) /\ proc'[p] = t
  BY <1>1, <1>6, <1>8, <1>9, <1>10, MoveSimple DEF NotYet, Placed
<1> QED
  BY <1>8, <1>10, <1>11 DEF s, x

(* SetDisabled changes a row that is there.                                *)
WithDisabled(s, b) == [s EXCEPT !.row = IF s.row = None THEN None ELSE [s.row EXCEPT !.disabled = b]]

LEMMA SetDisabledOK ==
  ASSUME TypeInv, NEW r \in Rooms, NEW b \in BOOLEAN, SetDisabled(r, b)
  PROVE  WithDisabled(db[r], b) \in Stored /\ db' = [db EXCEPT ![r] = WithDisabled(db[r], b)]
<1>1. db[r] \in Stored /\ db[r].row \in Row \cup {None}
  BY StoredFields DEF TypeInv
<1>2. (IF db[r].row = None THEN None ELSE [db[r].row EXCEPT !.disabled = b]) \in Row \cup {None}
  BY <1>1, RowFields
<1>3. WithDisabled(db[r], b) \in Stored
  BY <1>1, <1>2, StoredFields DEF WithDisabled
<1>4. db' = [db EXCEPT ![r] = WithDisabled(db[r], b)]
  BY <1>1 DEF SetDisabled, WithDisabled, TypeInv
<1> QED
  BY <1>3, <1>4

LEMMA StartEnableSimple ==
  ASSUME TypeInv, NEW p \in Procs, StartEnable(p)
  PROVE  Simple(p)
<1>1. proc[p].pc = "enable" /\ FieldsOK(proc[p]) /\ proc[p].room \in Rooms
  BY ProcTyped DEF StartEnable, At
<1>2. UNCHANGED <<hosted, handler, inst, refs, boot, calm, failed, made>>
  BY DEF StartEnable
<1>3. CASE Goto(p, "port") /\ Quietly(p)
  <2>1. "port" \in Pcs
    BY DEF Pcs, StartPcs
  <2>2. FieldsOK(proc'[p])
    BY <1>1, <1>3, <2>1, GoingFields DEF FieldsOK, NewPcs, StartPcs, EditPcs, DeletePcs
  <2> QED
    BY <1>1, <1>3, <2>1, <2>2, GoSimple DEF NotYet, Placed
<1>4. CASE proc[p].row.disabled
  <2>1. SetDisabled(proc[p].room, FALSE) /\ Goto(p, "port")
    BY <1>4 DEF StartEnable
  <2>2. Quietly(p)
    BY <1>1, <1>2, <2>1, SetDisabledOK, QuietlyStoring
  <2> QED
    BY <1>3, <2>1, <2>2
<1>5. CASE ~proc[p].row.disabled
  <2>1. UNCHANGED db /\ (End(p) \/ Goto(p, "port"))
    BY <1>5 DEF StartEnable
  <2>2. Quietly(p)
    BY <1>1, <1>2, <2>1, QuietlyLooking
  <2> QED
    BY <1>3, <2>1, <2>2, EndSimple
<1> QED
  BY <1>4, <1>5

(* Upload starts the room from a new row.                                  *)
LEMMA UploadSimple ==
  ASSUME TypeInv, NEW p \in Procs, Upload(p)
  PROVE  /\ Simple(p) /\ UNCHANGED <<db, inst>> /\ proc[p].pc = "upload"
         /\ proc'[p].pc = "new" /\ proc'[p].row.prob = 1 /\ proc'[p].row \in Row
<1> DEFINE row == [ap |-> made.ap + 1, ids |-> <<0, 0>>, disabled |-> FALSE,
                   cfg |-> proc[p].want, prob |-> 1]
           t == [proc[p] EXCEPT !.pc = "new", !.row = row]
<1>1. proc[p].pc = "upload" /\ FieldsOK(proc[p]) /\ proc[p] \in Proc
  BY ProcTyped DEF Upload, At
<1>2. made \in Made /\ proc[p].want \in Config
  BY <1>1, ProcFields DEF TypeInv
<1>3. made' \in Made /\ made.ap \in Nat
  BY <1>2 DEF Upload, Made
<1>4. row \in Row /\ row.prob = 1
  BY <1>2, <1>3 DEF Row
<1>5. proc' = [proc EXCEPT ![p] = t]
  BY <1>1 DEF Upload
<1> HIDE DEF row
<1>6. t \in Proc /\ t.row = row /\ t.pc = "new"
      /\ t.room = proc[p].room /\ t.edit = proc[p].edit /\ t.op = proc[p].op /\ t.inst = proc[p].inst
  BY <1>1, <1>4 DEF Proc, Pcs, NewPcs
<1> HIDE DEF t
<1>7. FieldsOK(t)
  BY <1>1, <1>4, <1>6, IdleOK DEF FieldsOK, NewPcs, StartPcs, EditPcs, DeletePcs
<1>8. /\ UNCHANGED <<db, hosted, handler, inst, refs, boot, calm, failed>>
      /\ db \in [Rooms -> Stored] /\ calm \subseteq calm /\ failed \subseteq Rooms
  BY DEF TypeInv, Upload
<1>9. Quietly(p)
  BY <1>1, <1>3, <1>8, Unchanged DEF Quietly
<1>10. Simple(p) /\ proc'[p] = t
  BY <1>1, <1>5, <1>6, <1>7, <1>9, MoveSimple DEF NotYet, Placed
<1> QED
  BY <1>1, <1>4, <1>6, <1>8, <1>10

LEMMA DisableSimple ==
  ASSUME TypeInv, NEW p \in Procs, Disable(p)
  PROVE  /\ Simple(p) /\ UNCHANGED <<inst, calm, failed>> /\ proc[p].pc = "disable" /\ proc'[p].pc = "remove"
         /\ db'[proc[p].room] = WithDisabled(db[proc[p].room], TRUE)
<1>1. proc[p].pc = "disable" /\ FieldsOK(proc[p]) /\ proc[p].room \in Rooms
  BY ProcTyped DEF Disable, At
<1>2. /\ SetDisabled(proc[p].room, TRUE) /\ Goto(p, "remove") /\ "remove" \in Pcs
      /\ UNCHANGED <<hosted, handler, inst, refs, boot, calm, failed, made>>
  BY DEF Disable, Pcs
<1>3. Quietly(p) /\ db'[proc[p].room] = WithDisabled(db[proc[p].room], TRUE)
  BY <1>1, <1>2, SetDisabledOK, QuietlyStoring
<1>4. FieldsOK(proc'[p])
  BY <1>1, <1>2, GoingFields DEF FieldsOK, NewPcs, StartPcs, EditPcs, DeletePcs
<1> QED
  BY <1>1, <1>2, <1>3, <1>4, GoSimple DEF NotYet, Placed

(* The steps that empty the tables                                         *)
LEMMA AfterDeleteOK ==
  ASSUME NEW c \in DeletePcs
  PROVE  /\ AfterDelete[c] \in {"deleteOwn", "deleteTags", "deleteNames", "deleteDeaths", "deleteRow"}
         /\ AfterDelete[c] \in Pcs /\ AfterDelete[c] \in DeletePcs \cup {"deleteRow"}
         /\ AfterDelete[c] \notin NewPcs \cup StartPcs \cup EditPcs \cup NotYet \cup Placed
BY DEF AfterDelete, DeletePcs, Pcs, NewPcs, StartPcs, EditPcs, NotYet, Placed

LEMMA DeletePcsApart ==
  ASSUME NEW c \in DeletePcs
  PROVE  /\ c \notin NewPcs \cup StartPcs \cup EditPcs \cup NotYet \cup Placed
         /\ c \notin {"idle", "upload", "disable", "remove", "deleteRow", "start", "find", "enable", "save"}
BY DEF DeletePcs, NewPcs, StartPcs, EditPcs, NotYet, Placed

LEMMA WithoutTableOK ==
  ASSUME NEW s \in Stored, NEW c
  PROVE  /\ WithoutTable(s, c) \in Stored /\ WithoutTable(s, c).row = s.row
         /\ WithoutTable(s, c).over = [k \in Switches |-> IF <<c, k>> \in SwitchTables THEN {} ELSE s.over[k]]
         /\ WithoutTable(s, c).deaths = (IF c = "deleteDeaths" THEN 0 ELSE s.deaths)
         /\ WithoutTable(s, c).alt = (IF c = "deleteNames" THEN {} ELSE s.alt)
<1> DEFINE v == [k \in Switches |-> IF <<c, k>> \in SwitchTables THEN {} ELSE s.over[k]]
           d == IF c = "deleteDeaths" THEN 0 ELSE s.deaths
           a == IF c = "deleteNames" THEN {} ELSE s.alt
<1>1. /\ s.over \in [Switches -> SUBSET Slots] /\ s.deaths \in 0 .. MaxDeaths /\ s.alt \in SUBSET Slots
      /\ s.row \in Row \cup {None}
  BY StoredFields
<1>2. v \in [Switches -> SUBSET Slots] /\ d \in 0 .. MaxDeaths /\ a \in SUBSET Slots
  BY <1>1, BoundsAssumption
<1>3. WithoutTable(s, c) = [row |-> s.row, over |-> v, deaths |-> d, alt |-> a]
  BY DEF WithoutTable
<1> HIDE DEF v, d, a
<1>4. [row |-> s.row, over |-> v, deaths |-> d, alt |-> a] \in Stored
  BY <1>1, <1>2 DEF Stored
<1> QED
  BY <1>3, <1>4 DEF v, d, a

LEMMA DeletingFields ==
  ASSUME TypeInv, NEW p \in Procs, proc[p].pc \in DeletePcs, Goto(p, AfterDelete[proc[p].pc])
  PROVE  FieldsOK(proc'[p])
<1> DEFINE c == AfterDelete[proc[p].pc]
<1>1. FieldsOK(proc[p]) /\ proc[p].op = "delete"
  BY ProcTyped, DeletePcsApart DEF FieldsOK
<1>2. /\ c \in {"deleteOwn", "deleteTags", "deleteNames", "deleteDeaths", "deleteRow"}
      /\ c \in Pcs /\ c \notin EditPcs /\ c \notin NewPcs /\ c \notin StartPcs
      /\ proc[p].pc \notin EditPcs /\ proc[p].pc # "idle"
  BY AfterDeleteOK, DeletePcsApart
<1> HIDE DEF c
<1>3. Goto(p, c)
  BY DEF c
<1> QED
  BY <1>1, <1>2, <1>3, GoingFields

LEMMA DeletingGoes ==
  ASSUME TypeInv, NEW p \in Procs, Quietly(p), proc[p].pc \in DeletePcs, Goto(p, AfterDelete[proc[p].pc])
  PROVE  Simple(p) /\ proc'[p].pc = AfterDelete[proc[p].pc]
<1> DEFINE c == AfterDelete[proc[p].pc]
<1>1. FieldsOK(proc'[p])
  BY DeletingFields
<1>2. /\ c \in {"deleteOwn", "deleteTags", "deleteNames", "deleteDeaths", "deleteRow"}
      /\ c \in Pcs /\ c \notin NotYet /\ c \notin Placed
  BY AfterDeleteOK
<1> HIDE DEF c
<1>3. Goto(p, c)
  BY DEF c
<1>4. Simple(p) /\ proc'[p].pc = c
  BY <1>1, <1>2, <1>3, GoSimple
<1> QED
  BY <1>4 DEF c

LEMMA DeleteRowsSimple ==
  ASSUME TypeInv, NEW p \in Procs, DeleteRows(p)
  PROVE  /\ Simple(p) /\ UNCHANGED <<inst, calm, failed>> /\ proc[p].pc \in DeletePcs
         /\ proc'[p].pc = AfterDelete[proc[p].pc]
         /\ db'[proc[p].room] = WithoutTable(db[proc[p].room], proc[p].pc)
<1> DEFINE s == WithoutTable(db[proc[p].room], proc[p].pc)
<1>1. proc[p].pc \in DeletePcs /\ proc[p].pc \notin {"idle", "allocate", "add"}
  BY DEF DeleteRows, DeletePcs
<1>2. proc[p].room \in Rooms /\ db[proc[p].room] \in Stored
  BY <1>1, ProcTyped
<1>3. s \in Stored
  BY <1>2, WithoutTableOK
<1>4. /\ Goto(p, AfterDelete[proc[p].pc]) /\ UNCHANGED <<hosted, handler, inst, refs, boot, calm, failed, made>>
      /\ db' = [db EXCEPT ![proc[p].room] = s]
  BY <1>2 DEF DeleteRows, TypeInv
<1> HIDE DEF s
<1>5. Quietly(p) /\ db'[proc[p].room] = s
  BY <1>1, <1>3, <1>4, QuietlyStoring
<1>6. Simple(p) /\ proc'[p].pc = AfterDelete[proc[p].pc]
  BY <1>1, <1>4, <1>5, DeletingGoes
<1> QED
  BY <1>1, <1>4, <1>5, <1>6 DEF s

LEMMA DeleteRowSimple ==
  ASSUME TypeInv, NEW p \in Procs, DeleteRow(p)
  PROVE  /\ Simple(p) /\ UNCHANGED <<inst, calm, failed>> /\ proc[p].pc = "deleteRow" /\ proc'[p].pc = "remove"
         /\ db'[proc[p].room] = [db[proc[p].room] EXCEPT !.row = None]
<1>1. /\ proc[p].pc = "deleteRow" /\ FieldsOK(proc[p]) /\ proc[p].room \in Rooms
      /\ db[proc[p].room] \in Stored
  BY ProcTyped DEF DeleteRow, At
<1>2. /\ Goto(p, "remove") /\ "remove" \in Pcs
      /\ UNCHANGED <<hosted, handler, inst, refs, boot, calm, failed, made>>
      /\ db' = [db EXCEPT ![proc[p].room] = [db[proc[p].room] EXCEPT !.row = None]]
  BY <1>1 DEF DeleteRow, Pcs, TypeInv
<1>3. [db[proc[p].room] EXCEPT !.row = None] \in Stored
  BY <1>1, StoredFields
<1>4. Quietly(p) /\ db'[proc[p].room] = [db[proc[p].room] EXCEPT !.row = None]
  BY <1>1, <1>2, <1>3, QuietlyStoring
<1>5. FieldsOK(proc'[p])
  BY <1>1, <1>2, GoingFields DEF FieldsOK, NewPcs, StartPcs, EditPcs
<1> QED
  BY <1>1, <1>2, <1>4, <1>5, GoSimple DEF NotYet, Placed

(* After the room is saved the request ends or restores the room.          *)
LEMMA AfterSaveSimple ==
  ASSUME TypeInv, NEW p \in Procs, Quietly(p), proc[p].pc = "save", AfterSave(p)
  PROVE  /\ Simple(p)
         /\ IF proc[p].op = "upload" THEN proc'[p] = Idle
            ELSE /\ proc'[p].pc = "restore" /\ proc'[p].inst = proc[p].inst
                 /\ proc'[p].row = proc[p].row
<1>1. FieldsOK(proc[p])
  BY ProcTyped
<1>2. CASE proc[p].op = "upload"
  BY <1>2, EndSimple DEF AfterSave
<1>3. CASE proc[p].op # "upload"
  <2>1. Goto(p, "restore") /\ "restore" \in Pcs
    BY <1>3 DEF AfterSave, Pcs, NewPcs
  <2>2. FieldsOK(proc'[p])
    BY <1>1, <1>3, <2>1, GoingFields DEF FieldsOK, NewPcs, StartPcs, EditPcs, DeletePcs
  <2> QED
    BY <1>3, <2>1, <2>2, GoSimple DEF NotYet, Placed
<1> QED
  BY <1>2, <1>3

LEMMA NewSaveSimple ==
  ASSUME TypeInv, NEW p \in Procs, NewSave(p)
  PROVE  /\ Simple(p) /\ UNCHANGED <<inst, calm, failed>> /\ proc[p].pc = "save"
         /\ IF proc[p].op = "upload" THEN proc'[p] = Idle
            ELSE /\ proc'[p].pc = "restore" /\ proc'[p].inst = proc[p].inst
                 /\ proc'[p].row = proc[p].row
         /\ db'[proc[p].room] = [db[proc[p].room] EXCEPT
                                   !.row = SavedRow(inst[proc[p].inst], db[proc[p].room].row)]
<1> DEFINE r == proc[p].room
           x == SavedRow(inst[proc[p].inst], db[r].row)
           s == [db[r] EXCEPT !.row = x]
<1>1. /\ proc[p].pc = "save" /\ FieldsOK(proc[p]) /\ r \in Rooms
      /\ db[r] \in Stored /\ InstOK(proc[p])
  BY ProcTyped DEF NewSave, At
<1>2. inst[proc[p].inst] \in Object
  BY <1>1 DEF TypeInv, FieldsOK, InstOK
<1>3. x \in Row
  BY <1>1, <1>2, SavedRowOK, StoredFields
<1>4. s \in Stored
  BY <1>1, <1>3, StoredFields
<1>5. db' = [db EXCEPT ![r] = s] /\ AfterSave(p) /\ UNCHANGED <<hosted, handler, inst, refs, boot, calm, failed, made>>
  BY <1>1 DEF NewSave, TypeInv
<1> HIDE DEF s, x
<1>6. Quietly(p) /\ db'[r] = s
  BY <1>1, <1>4, <1>5, QuietlyStoring
<1> QED
  BY <1>1, <1>5, <1>6, AfterSaveSimple DEF s, x

(* An object that is changed in place                                      *)
LEMMA OneObject ==
  ASSUME TypeInv, NEW i \in Built, NEW o \in Object, inst' = [inst EXCEPT ![i] = o],
         o.room = inst[i].room, o.ids = inst[i].ids, o.polling = inst[i].polling
  PROVE  ObjectsAlike /\ inst'[i] = o /\ \A j \in Built : j # i => inst'[j] = inst[j]
BY DEF TypeInv, ObjectsAlike, Built

LEMMA QuietlyEditing ==
  ASSUME TypeInv, NEW p \in Procs, proc[p].pc \notin {"idle", "allocate", "add"}, ObjectsAlike,
         UNCHANGED <<db, hosted, handler, refs, boot, calm, failed, made>>
  PROVE  Quietly(p)
<1>1. db \in [Rooms -> Stored] /\ calm \subseteq calm /\ failed \subseteq Rooms /\ made \in Made
  BY DEF TypeInv
<1> QED
  BY <1>1 DEF Quietly

(* What the restore functions make of an object                            *)
RestoredAs(n, o, s) ==
  /\ n \in Object
  /\ n.room = o.room /\ n.ap = o.ap /\ n.ids = o.ids /\ n.cfg = o.cfg /\ n.polling = o.polling
  /\ n.prob = o.prob
  /\ n.sw = [k \in Switches |-> RestoredSwitch(o, s, k)]
  /\ n.deaths = IF s.deaths = 0 THEN o.deaths ELSE s.deaths
  /\ n.alt \in IF s.alt = {} THEN {o.alt} ELSE s.alt

LEMMA RestoreSimple ==
  ASSUME TypeInv, NEW p \in Procs, Restore(p)
  PROVE  /\ Simple(p) /\ UNCHANGED <<db, calm, failed>> /\ proc[p].pc = "restore" /\ proc'[p] = Idle
         /\ RestoredAs(inst'[proc[p].inst], inst[proc[p].inst], db[proc[p].room])
         /\ \A j \in Built : j # proc[p].inst => inst'[j] = inst[j]
<1> DEFINE i == proc[p].inst
           o == inst[i]
           s == db[proc[p].room]
           sw == [k \in Switches |-> RestoredSwitch(o, s, k)]
           d == IF s.deaths = 0 THEN o.deaths ELSE s.deaths
<1>1. /\ proc[p].pc = "restore" /\ FieldsOK(proc[p]) /\ proc[p].room \in Rooms
      /\ s \in Stored /\ InstOK(proc[p])
  BY ProcTyped DEF Restore, At
<1>2. i \in Built /\ o \in Object
  BY <1>1 DEF TypeInv, FieldsOK, InstOK
<1>3. PICK name \in (IF s.alt = {} THEN {o.alt} ELSE s.alt) :
        inst' = [inst EXCEPT ![i].sw = [k \in Switches |-> RestoredSwitch(inst[i], s, k)],
                             ![i].deaths = IF s.deaths = 0 THEN @ ELSE s.deaths,
                             ![i].alt = name]
  BY DEF Restore
<1> DEFINE n == [o EXCEPT !.sw = sw, !.deaths = d, !.alt = name]
<1>4. sw \in [Switches -> SUBSET Slots] /\ d \in 0 .. MaxDeaths /\ name \in Slots \cup {None}
  <2>1. /\ s.over \in [Switches -> SUBSET Slots] /\ o.sw \in [Switches -> SUBSET Slots]
        /\ s.deaths \in 0 .. MaxDeaths /\ o.deaths \in 0 .. MaxDeaths
        /\ s.alt \in SUBSET Slots /\ o.alt \in Slots \cup {None}
    BY <1>1, <1>2, StoredFields, ObjectFields
  <2>2. \A k \in Switches : RestoredSwitch(o, s, k) \in SUBSET Slots
    BY <2>1 DEF RestoredSwitch
  <2> QED
    BY <2>1, <2>2, <1>3
<1>5. inst' = [inst EXCEPT ![i] = n]
  BY <1>2, <1>3 DEF TypeInv, Built
<1> HIDE DEF sw, d
<1>6. /\ n \in Object /\ n.room = o.room /\ n.ap = o.ap /\ n.ids = o.ids /\ n.cfg = o.cfg
      /\ n.polling = o.polling /\ n.prob = o.prob /\ n.sw = sw /\ n.deaths = d /\ n.alt = name
  BY <1>2, <1>4 DEF Object
<1> HIDE DEF n
<1>7. ObjectsAlike /\ inst'[i] = n /\ \A j \in Built : j # i => inst'[j] = inst[j]
  BY <1>2, <1>5, <1>6, OneObject
<1>8. Quietly(p) /\ End(p) /\ UNCHANGED <<db, calm, failed>>
  BY <1>1, <1>7, QuietlyEditing DEF Restore
<1>9. Simple(p) /\ proc'[p] = Idle
  BY <1>8, EndSimple
<1>10. RestoredAs(n, o, s)
  BY <1>3, <1>6 DEF RestoredAs, sw, d
<1> QED
  BY <1>1, <1>7, <1>8, <1>9, <1>10

LEMMA EditMemorySimple ==
  ASSUME TypeInv, NEW p \in Procs, EditMemory(p)
  PROVE  /\ Simple(p) /\ UNCHANGED <<db, calm, failed>> /\ proc[p].pc = "memory" /\ proc'[p].pc = "store"
         /\ proc'[p].inst = proc[p].inst /\ proc[p].edit \in Edit
         /\ EditedAs(inst'[proc[p].inst], inst[proc[p].inst], proc[p].edit)
         /\ \A j \in Built : j # proc[p].inst => inst'[j] = inst[j]
<1> DEFINE i == proc[p].inst
           o == inst[i]
           n == Edited(o, proc[p].edit)
<1>1. /\ proc[p].pc = "memory" /\ FieldsOK(proc[p]) /\ proc[p].room \in Rooms
      /\ InstOK(proc[p]) /\ proc[p] \in Proc
  BY ProcTyped DEF EditMemory, At
<1>2. i \in Built /\ o \in Object
  BY <1>1 DEF TypeInv, FieldsOK, InstOK
<1>3. proc[p].edit \in Edit
  BY <1>1, ProcFields DEF FieldsOK, EditPcs
<1>4. EditedAs(n, o, proc[p].edit)
  BY <1>2, <1>3, EditedOK
<1>5. inst' = [inst EXCEPT ![i] = n] /\ Goto(p, "store") /\ "store" \in Pcs
      /\ UNCHANGED <<db, hosted, handler, refs, boot, calm, failed, made>>
  BY <1>2 DEF EditMemory, TypeInv, Built, Pcs, EditPcs
<1> HIDE DEF n
<1>6. ObjectsAlike /\ inst'[i] = n /\ \A j \in Built : j # i => inst'[j] = inst[j]
  BY <1>2, <1>4, <1>5, OneObject DEF EditedAs
<1>7. Quietly(p)
  BY <1>1, <1>5, <1>6, QuietlyEditing
<1>8. FieldsOK(proc'[p])
  BY <1>1, <1>5, GoingFields DEF FieldsOK, NewPcs, StartPcs, EditPcs, DeletePcs
<1>9. Simple(p) /\ proc'[p].pc = "store" /\ proc'[p].inst = i
  BY <1>1, <1>5, <1>7, <1>8, GoSimple DEF NotYet, Placed
<1> QED
  BY <1>1, <1>3, <1>4, <1>5, <1>6, <1>9

LEMMA EditStoreSimple ==
  ASSUME TypeInv, NEW p \in Procs, EditStore(p)
  PROVE  /\ Simple(p) /\ UNCHANGED <<inst, calm, failed>> /\ proc[p].pc = "store" /\ proc'[p] = Idle
         /\ proc[p].edit \in Edit
         /\ StoredAs(db'[proc[p].room], db[proc[p].room], inst[proc[p].inst], proc[p].edit)
<1> DEFINE i == proc[p].inst
           r == proc[p].room
           s == StoredEdit(db[r], inst[i], proc[p].edit)
<1>1. /\ proc[p].pc = "store" /\ FieldsOK(proc[p]) /\ r \in Rooms /\ db[r] \in Stored
      /\ InstOK(proc[p]) /\ proc[p] \in Proc
  BY ProcTyped DEF EditStore, At
<1>2. i \in Built /\ inst[i] \in Object
  BY <1>1 DEF TypeInv, FieldsOK, InstOK
<1>3. proc[p].edit \in Edit
  BY <1>1, ProcFields DEF FieldsOK, EditPcs
<1>4. StoredAs(s, db[r], inst[i], proc[p].edit)
  BY <1>1, <1>2, <1>3, StoredEditOK
<1>5. /\ db' = [db EXCEPT ![r] = s] /\ End(p)
      /\ UNCHANGED <<hosted, handler, inst, refs, boot, calm, failed, made>>
  BY <1>1 DEF EditStore, TypeInv
<1> HIDE DEF s
<1>6. Quietly(p) /\ db'[r] = s
  BY <1>1, <1>4, <1>5, QuietlyStoring DEF StoredAs
<1> QED
  BY <1>1, <1>3, <1>4, <1>5, <1>6, EndSimple

LEMMA FailsSimple ==
  ASSUME TypeInv, NEW p \in Procs, Fails(p)
  PROVE  Simple(p) /\ UNCHANGED <<db, inst>> /\ proc'[p] = Idle
<1>1. /\ proc[p].pc \in {"find", "enable", "port", "fetch", "upload", "deleteRow", "disable"}
      /\ UNCHANGED <<db, hosted, handler, inst, refs, boot, made>> /\ End(p)
  BY DEF Fails, At
<1>2. /\ proc[p].room \in Rooms /\ calm' \subseteq calm /\ failed' \subseteq Rooms
  BY <1>1, ProcTyped DEF Fails, TypeInv
<1>3. db \in [Rooms -> Stored] /\ made \in Made
  BY DEF TypeInv
<1>4. Quietly(p)
  BY <1>1, <1>2, <1>3, Unchanged DEF Quietly
<1> QED
  BY <1>1, <1>4, EndSimple

LEMMA StoreFailsSimple ==
  ASSUME TypeInv, NEW p \in Procs, StoreFails(p)
  PROVE  /\ Simple(p) /\ UNCHANGED <<db, inst, failed>> /\ calm' = calm \ {proc[p].room}
<1>1. /\ proc[p].pc \in {"save", "store", "disable"} \cup DeletePcs
      /\ proc[p].pc \notin {"idle", "allocate", "add"}
      /\ UNCHANGED <<db, hosted, handler, inst, refs, boot, failed, made>>
      /\ calm' = calm \ {proc[p].room}
  BY DEF StoreFails, At, DeletePcs
<1>2. db \in [Rooms -> Stored] /\ made \in Made /\ failed \subseteq Rooms
  BY DEF TypeInv
<1>3. Quietly(p)
  BY <1>1, <1>2, Unchanged DEF Quietly
<1>4. FieldsOK(proc[p])
  BY <1>1, ProcTyped
<1>5. CASE At(p, "save") /\ AfterSave(p)
  BY <1>1, <1>3, <1>5, AfterSaveSimple DEF At
<1>6. CASE At(p, "store") /\ End(p)
  BY <1>1, <1>3, <1>6, EndSimple
<1>7. CASE proc[p].pc \in DeletePcs /\ Goto(p, AfterDelete[proc[p].pc])
  BY <1>1, <1>3, <1>7, DeletingGoes
<1>8. CASE At(p, "disable") /\ proc[p].op = "kill" /\ Goto(p, "remove")
  <2>1. "remove" \in Pcs
    BY DEF Pcs
  <2>2. FieldsOK(proc'[p])
    BY <1>4, <1>8, <2>1, GoingFields DEF FieldsOK, NewPcs, StartPcs, EditPcs, At, DeletePcs
  <2> QED
    BY <1>1, <1>3, <1>8, <2>1, <2>2, GoSimple DEF NotYet, Placed, At
<1> QED
  BY <1>1, <1>5, <1>6, <1>7, <1>8 DEF StoreFails

(* A failed deletion of stale rows keeps some; a failed load restores less.*)
LEMMA UpdateFailsSimple ==
  ASSUME TypeInv, NEW p \in Procs, UpdateFails(p)
  PROVE  /\ Simple(p) /\ UNCHANGED <<inst, failed>> /\ calm' = calm \ {proc[p].room}
<1> DEFINE r == proc[p].room
           stale == {k \in Switches : proc[p].want[k] # proc[p].row.cfg[k]}
           t == [proc[p] EXCEPT !.row = [proc[p].row EXCEPT !.cfg = proc[p].want], !.pc = "enable"]
<1>1. proc[p].pc = "update" /\ FieldsOK(proc[p]) /\ proc[p] \in Proc /\ r \in Rooms /\ db[r] \in Stored
  BY ProcTyped DEF UpdateFails, At
<1>2. proc[p].row \in Row /\ proc[p].want \in Config
  BY <1>1, ProcFields DEF FieldsOK
<1>3. PICK kept \in SUBSET stale :
        db' = [db EXCEPT ![r].over = [k \in Switches |-> IF k \in stale \ kept THEN {} ELSE @[k]]]
  BY DEF UpdateFails
<1> DEFINE x == [k \in Switches |-> IF k \in stale \ kept THEN {} ELSE db[r].over[k]]
           s == [db[r] EXCEPT !.over = x]
<1>4. x \in [Switches -> SUBSET Slots]
  BY <1>1, StoredFields
<1>5. s \in Stored
  BY <1>1, <1>4, StoredFields
<1>6. db' = [db EXCEPT ![r] = s]
  BY <1>1, <1>3 DEF TypeInv
<1>7. proc' = [proc EXCEPT ![p] = t]
  BY <1>1 DEF UpdateFails
<1>8. [proc[p].row EXCEPT !.cfg = proc[p].want] \in Row
  BY <1>2, RowFields
<1>9. t \in Proc /\ t.row = [proc[p].row EXCEPT !.cfg = proc[p].want] /\ t.pc = "enable"
      /\ t.room = proc[p].room /\ t.edit = proc[p].edit /\ t.op = proc[p].op /\ t.inst = proc[p].inst
  BY <1>1, <1>8 DEF Proc, Pcs, StartPcs
<1> HIDE DEF t, x, s
<1>10. FieldsOK(t)
  BY <1>1, <1>8, <1>9, IdleOK DEF FieldsOK, NewPcs, StartPcs, EditPcs, DeletePcs
<1>11. /\ UNCHANGED <<hosted, handler, inst, refs, boot, failed, made>> /\ calm' = calm \ {r}
       /\ failed \subseteq Rooms /\ made \in Made /\ calm' \subseteq calm
  BY DEF UpdateFails, TypeInv
<1>12. Quietly(p)
  BY <1>1, <1>5, <1>6, <1>11, Unchanged, RowsOf DEF Quietly
<1> QED
  BY <1>1, <1>7, <1>9, <1>10, <1>11, <1>12, MoveSimple DEF NotYet, Placed

LEMMA RestoreFailsSimple ==
  ASSUME TypeInv, NEW p \in Procs, RestoreFails(p)
  PROVE  /\ Simple(p) /\ UNCHANGED <<db, failed>> /\ calm' = calm \ {proc[p].room}
         /\ proc[p].inst \in Built /\ inst[proc[p].inst].room = proc[p].room
         /\ \A j \in Built : j # proc[p].inst => inst'[j] = inst[j]
<1> DEFINE i == proc[p].inst
           o == inst[i]
           s == db[proc[p].room]
<1>1. /\ proc[p].pc = "restore" /\ FieldsOK(proc[p]) /\ proc[p].room \in Rooms
      /\ s \in Stored /\ InstOK(proc[p])
  BY ProcTyped DEF RestoreFails, At
<1>2. i \in Built /\ o \in Object /\ o.room = proc[p].room
  BY <1>1 DEF TypeInv, FieldsOK, InstOK
<1>3. PICK lost \in SUBSET (Switches \cup {"deaths", "alt"}),
           name \in (IF s.alt = {} THEN {o.alt} ELSE s.alt) :
        inst' = [inst EXCEPT
          ![i].sw = [k \in Switches |-> IF k \in lost THEN @[k] ELSE RestoredSwitch(inst[i], s, k)],
          ![i].deaths = IF s.deaths = 0 \/ "deaths" \in lost THEN @ ELSE s.deaths,
          ![i].alt = IF "alt" \in lost THEN @ ELSE name]
  BY DEF RestoreFails
<1> DEFINE sw == [k \in Switches |-> IF k \in lost THEN o.sw[k] ELSE RestoredSwitch(o, s, k)]
           d == IF s.deaths = 0 \/ "deaths" \in lost THEN o.deaths ELSE s.deaths
           a == IF "alt" \in lost THEN o.alt ELSE name
           n == [o EXCEPT !.sw = sw, !.deaths = d, !.alt = a]
<1>4. sw \in [Switches -> SUBSET Slots] /\ d \in 0 .. MaxDeaths /\ a \in Slots \cup {None}
  <2>1. /\ s.over \in [Switches -> SUBSET Slots] /\ o.sw \in [Switches -> SUBSET Slots]
        /\ s.deaths \in 0 .. MaxDeaths /\ o.deaths \in 0 .. MaxDeaths
        /\ s.alt \in SUBSET Slots /\ o.alt \in Slots \cup {None}
    BY <1>1, <1>2, StoredFields, ObjectFields
  <2>2. \A k \in Switches : RestoredSwitch(o, s, k) \in SUBSET Slots
    BY <2>1 DEF RestoredSwitch
  <2> QED
    BY <2>1, <2>2, <1>3
<1>5. inst' = [inst EXCEPT ![i] = n]
  BY <1>2, <1>3 DEF TypeInv, Built
<1> HIDE DEF sw, d, a
<1>6. n \in Object /\ n.room = o.room /\ n.ids = o.ids /\ n.polling = o.polling
  BY <1>2, <1>4 DEF Object
<1> HIDE DEF n
<1>7. ObjectsAlike /\ \A j \in Built : j # i => inst'[j] = inst[j]
  BY <1>2, <1>5, <1>6, OneObject
<1>8. /\ UNCHANGED <<db, hosted, handler, refs, boot, failed, made>> /\ End(p)
      /\ calm' = calm \ {proc[p].room} /\ calm' \subseteq calm
      /\ db \in [Rooms -> Stored] /\ failed \subseteq Rooms /\ made \in Made
  BY DEF RestoreFails, TypeInv
<1>9. Quietly(p)
  BY <1>1, <1>7, <1>8 DEF Quietly
<1> QED
  BY <1>2, <1>7, <1>8, <1>9, EndSimple

-----------------------------------------------------------------------------
(* Simple steps keep the ids and the registry in order                     *)

IdsPart == IdsInv /\ CalmLeftovers /\ RefsExact
CoreInv == TypeInv /\ BootAlone /\ Apart /\ HostedAsDue /\ IdsPart

(* A step of a request keeps requests apart, and apx's start alone.        *)
LEMMA LocalBoot ==
  ASSUME TypeInv, BootAlone, NEW p \in Procs, Local(p)
  PROVE  BootAlone'
<1>1. "boot" \in Procs
  BY DEF Procs
<1>2. /\ boot' = boot /\ proc[p].pc # "idle" /\ \A q \in Procs \ {p} : proc'[q] = proc[q]
      /\ \A r \in Rooms : r # proc[p].room => db'[r] = db[r] /\ hosted'[r] = hosted[r]
      /\ (proc'[p] = Idle \/ (proc'[p].pc # "idle" /\ proc'[p].room = proc[p].room /\ proc'[p].op = proc[p].op))
  BY DEF Local, ProcStep
<1>3. boot # None => boot \subseteq Rooms
  BY DEF TypeInv
<1>4. CASE p = "boot"
  <2>1. ~Serving
    BY <1>2, <1>4, IdleOK DEF BootAlone
  <2>2. \A r \in boot : r # proc[p].room
    BY <1>2, <1>4, <2>1 DEF BootAlone
  <2>3. \A r \in boot : db'[r] = db[r] /\ hosted'[r] = hosted[r]
    BY <1>2, <1>3, <2>1, <2>2 DEF Serving
  <2>4. (~Serving)'
    BY <1>2, <2>1 DEF Serving
  <2>5. \A q \in Procs \ {"boot"} : proc'[q] = Idle
    BY <1>2, <1>4, <2>1 DEF BootAlone
  <2>6. proc["boot"]'.op \in {"none", "boot"}
    BY <1>1, <1>2, <1>4, IdleOK DEF BootAlone
  <2>7. \A r \in boot' : /\ db'[r].row # None /\ ~db'[r].row.disabled /\ hosted'[r] = 0
                         /\ proc'["boot"].pc # "idle" => proc'["boot"].room # r
    BY <1>2, <1>4, <2>1, <2>2, <2>3, IdleOK DEF BootAlone
  <2> QED
    BY <2>4, <2>5, <2>6, <2>7 DEF BootAlone
<1>5. CASE p # "boot"
  <2>1. Serving
    BY <1>2, <1>5, IdleOK DEF BootAlone
  <2>2. Serving' /\ proc'["boot"] = proc["boot"]
    BY <1>1, <1>2, <1>5, <2>1 DEF Serving
  <2> QED
    BY <2>1, <2>2 DEF BootAlone
<1> QED
  BY <1>4, <1>5

LEMMA LocalApart ==
  ASSUME TypeInv, Apart, NEW p \in Procs, Local(p)
  PROVE  Apart'
<1>1. /\ proc[p].pc # "idle" /\ \A q \in Procs \ {p} : proc'[q] = proc[q]
      /\ calm' \subseteq calm
      /\ \/ proc'[p] = Idle
         \/ proc'[p].pc # "idle" /\ proc'[p].room = proc[p].room /\ proc'[p].edit = proc[p].edit
  BY DEF Local, ProcStep
<1>2. \A q \in Procs, r \in Rooms : Active(q, r)' => Active(q, r) /\ proc'[q].edit = proc[q].edit
  BY <1>1, IdleOK DEF Active
<1>3. calm \subseteq Rooms
  BY DEF TypeInv
<1> QED
  BY <1>1, <1>2, <1>3 DEF Apart

LEMMA SimpleTypes ==
  ASSUME TypeInv, NEW p \in Procs, Simple(p)
  PROVE  TypeInv'
<1>1. /\ proc' \in [Procs -> Proc] /\ FieldsOK(proc'[p]) /\ \A q \in Procs \ {p} : proc'[q] = proc[q]
      /\ \/ proc'[p] = Idle
         \/ proc'[p].room = proc[p].room /\ proc'[p].inst = proc[p].inst
      /\ db' \in [Rooms -> Stored] /\ boot' = boot /\ calm' \subseteq calm /\ failed' \subseteq Rooms
      /\ made' \in Made /\ hosted' = hosted /\ handler' = handler
      /\ Built' = Built /\ \A i \in Built : inst'[i] \in Object /\ inst'[i].room = inst[i].room
  BY DEF Simple, Local, ProcStep, ObjectsAlike, Built
<1>2. \A q \in Procs : FieldsOK(proc'[q])
  BY <1>1 DEF TypeInv
<1>3. \A q \in Procs : proc'[q].inst # 0 => proc'[q].inst \in Built /\ inst'[proc'[q].inst].room = proc'[q].room
  BY <1>1, IdleOK DEF TypeInv, InstOK
<1>4. \A q \in Procs : FieldsOK(proc[q])' /\ InstOK(proc[q])'
  BY <1>1, <1>2, <1>3 DEF InstOK, FieldsOK
<1>5. /\ \E n \in 0 .. MaxInst : Built' = 1 .. n
      /\ hosted' \in [Rooms -> Built' \cup {0}] /\ handler' \in [Ids -> Built' \cup {0}]
      /\ boot' \in (SUBSET Rooms) \cup {None} /\ calm' \subseteq Rooms
      /\ \A i \in Built' : inst'[i] \in Object
  BY <1>1 DEF TypeInv
<1> QED
  BY <1>1, <1>4, <1>5 DEF TypeInv

LEMMA SimpleDue ==
  ASSUME TypeInv, HostedAsDue, NEW p \in Procs, Simple(p)
  PROVE  HostedAsDue'
<1>1. /\ \A q \in Procs \ {p} : proc'[q] = proc[q]
      /\ \/ proc'[p] = Idle
         \/ proc'[p].room = proc[p].room /\ proc'[p].inst = proc[p].inst
      /\ proc[p].pc # "idle"
      /\ calm' \subseteq calm /\ hosted' = hosted
      /\ proc'[p].pc \in NotYet => proc[p].pc \in NotYet \/ hosted[proc[p].room] = 0
      /\ proc'[p].pc \in Placed => proc[p].pc \in Placed
      /\ proc'[p].pc # "disable"
  BY DEF Simple, Local, ProcStep
<1> SUFFICES ASSUME NEW q \in Procs, proc'[q].pc # "idle", proc'[q].room \in calm'
             PROVE  /\ proc'[q].pc \in NotYet => hosted'[proc'[q].room] = 0
                    /\ proc'[q].pc \in Placed => hosted'[proc'[q].room] = proc'[q].inst
                    /\ proc'[q].pc = "disable" => hosted'[proc'[q].room] # 0
  BY DEF HostedAsDue, Placed
<1>2. CASE q # p
  BY <1>1, <1>2 DEF HostedAsDue, Placed
<1>3. CASE q = p
  BY <1>1, <1>3, IdleOK DEF HostedAsDue, Placed
<1> QED
  BY <1>2, <1>3

(* Who is being started, and whose ids are registered, stays so.           *)
LEMMA SimpleStarting ==
  ASSUME TypeInv, NEW p \in Procs, Simple(p)
  PROVE  /\ \A q \in Procs : Nascent(q)' <=> Nascent(q)
         /\ \A q \in Procs : Nascent(q) => proc'[q] = proc[q]
         /\ \A i : Starting(i)' <=> Starting(i)
         /\ \A i \in Built : Registered(i)' <=> Registered(i)
<1>1. /\ \A q \in Procs \ {p} : proc'[q] = proc[q]
      /\ proc[p].pc \notin {"allocate", "add"} /\ proc'[p].pc \notin {"allocate", "add"}
      /\ handler' = handler
      /\ \A i \in Built : inst'[i].ids = inst[i].ids /\ inst'[i].polling = inst[i].polling
  BY DEF Simple, Local, ProcStep, ObjectsAlike
<1>2. \A q \in Procs : (Nascent(q)' <=> Nascent(q)) /\ (Nascent(q) => proc'[q] = proc[q])
  BY <1>1 DEF Nascent
<1>3. \A i : Starting(i)' <=> Starting(i)
  BY <1>1 DEF Starting
<1>4. \A i \in Built : Registered(i)' <=> Registered(i)
  BY <1>1 DEF Registered, IdsOf
<1> QED
  BY <1>2, <1>3, <1>4

LEMMA SimpleIds ==
  ASSUME TypeInv, IdsPart, NEW p \in Procs, Simple(p)
  PROVE  IdsPart'
<1>1. /\ hosted' = hosted /\ handler' = handler /\ refs' = refs /\ calm' \subseteq calm
      /\ Built' = Built
      /\ \A i \in Built : /\ inst'[i].room = inst[i].room /\ inst'[i].ids = inst[i].ids
                          /\ inst'[i].polling = inst[i].polling
  BY DEF Simple, Local, ObjectsAlike, Built
<1>2. /\ \A q \in Procs : Nascent(q)' <=> Nascent(q)
      /\ \A q \in Procs : Nascent(q) => proc'[q] = proc[q]
      /\ \A i : Starting(i)' <=> Starting(i)
      /\ \A i \in Built : Registered(i)' <=> Registered(i)
  BY SimpleStarting
<1>3. \A q \in Procs : Nascent(q) => proc[q].inst \in Built
  BY DEF TypeInv, Nascent, InstOK, FieldsOK
<1>4. /\ \A r \in Rooms : hosted[r] # 0 => hosted[r] \in Built
      /\ \A x \in Ids : handler[x] # 0 => handler[x] \in Built
  BY DEF TypeInv
<1>5. CalmLeftovers'
  BY <1>1, <1>2 DEF IdsPart, CalmLeftovers
<1>6. Holding' = Holding
  BY <1>1 DEF Holding
<1>7. RefsExact'
  BY <1>1, <1>6 DEF IdsPart, RefsExact
<1>8. (\A r \in Rooms : hosted[r] # 0 => inst[hosted[r]].room = r /\ Registered(hosted[r]))'
  BY <1>1, <1>2, <1>4 DEF IdsPart, IdsInv
<1>9. (\A x \in Ids : handler[x] # 0 => x \in IdsOf(handler[x]) /\ inst[handler[x]].polling)'
  BY <1>1, <1>4 DEF IdsPart, IdsInv, IdsOf
<1>10. (\A q \in Procs : At(q, "allocate") => /\ inst[proc[q].inst].polling
                                              /\ \A x \in Ids : handler[x] # proc[q].inst)'
  <2> SUFFICES ASSUME NEW q \in Procs, proc'[q].pc = "allocate"
               PROVE  inst'[proc'[q].inst].polling /\ \A x \in Ids : handler'[x] # proc'[q].inst
    BY DEF At
  <2>1. Nascent(q) /\ proc'[q] = proc[q] /\ proc[q].inst \in Built
    BY <1>2, <1>3 DEF Nascent
  <2> QED
    BY <1>1, <2>1 DEF IdsPart, IdsInv, At
<1>11. (\A q \in Procs : At(q, "add") => Registered(proc[q].inst))'
  <2> SUFFICES ASSUME NEW q \in Procs, proc'[q].pc = "add"
               PROVE  Registered(proc[q].inst)'
    BY DEF At
  <2>1. Nascent(q) /\ proc'[q] = proc[q] /\ proc[q].inst \in Built
    BY <1>2, <1>3 DEF Nascent
  <2>2. Registered(proc[q].inst)
    BY <2>1 DEF IdsPart, IdsInv, At
  <2> QED
    BY <1>1, <2>1, <2>2 DEF Registered, IdsOf
<1>12. (\A q \in Procs : Nascent(q) =>
       /\ \A r \in Rooms : hosted[r] # proc[q].inst
       /\ \A u \in Procs \ {q} : Nascent(u) => proc[u].inst # proc[q].inst)'
  BY <1>1, <1>2 DEF IdsPart, IdsInv
<1> QED
  BY <1>5, <1>7, <1>8, <1>9, <1>10, <1>11, <1>12 DEF IdsPart, IdsInv

LEMMA SimpleKeeps ==
  ASSUME CoreInv, NEW p \in Procs, Simple(p)
  PROVE  CoreInv'
BY SimpleTypes, LocalBoot, LocalApart, SimpleDue, SimpleIds DEF CoreInv, Simple

-----------------------------------------------------------------------------
(* The steps that change the registry                                      *)

LEMMA LocalTypes ==
  ASSUME TypeInv, NEW p \in Procs, Local(p),
         Built \subseteq Built', \E n \in 0 .. MaxInst : Built' = 1 .. n,
         \A i \in Built' : inst'[i] \in Object,
         \A i \in Built : inst'[i].room = inst[i].room,
         hosted' \in [Rooms -> Built' \cup {0}], handler' \in [Ids -> Built' \cup {0}],
         proc'[p].inst # 0 => proc'[p].inst \in Built' /\ inst'[proc'[p].inst].room = proc'[p].room
  PROVE  TypeInv'
<1>1. /\ proc' \in [Procs -> Proc] /\ FieldsOK(proc'[p]) /\ \A q \in Procs \ {p} : proc'[q] = proc[q]
      /\ db' \in [Rooms -> Stored] /\ boot' = boot /\ calm' \subseteq calm /\ failed' \subseteq Rooms
      /\ made' \in Made
  BY DEF Local, ProcStep
<1>2. \A q \in Procs : FieldsOK(proc'[q])
  BY <1>1 DEF TypeInv
<1>3. \A q \in Procs : proc'[q].inst # 0 => proc'[q].inst \in Built' /\ inst'[proc'[q].inst].room = proc'[q].room
  BY <1>1 DEF TypeInv, InstOK
<1>4. \A q \in Procs : FieldsOK(proc[q])' /\ InstOK(proc[q])'
  BY <1>2, <1>3 DEF InstOK, FieldsOK
<1>5. boot' \in (SUBSET Rooms) \cup {None} /\ calm' \subseteq Rooms
  BY <1>1 DEF TypeInv
<1> QED
  BY <1>1, <1>4, <1>5 DEF TypeInv

(* The objects are numbered, so that the next number is new.               *)
LEMMA Numbered ==
  ASSUME TypeInv
  PROVE  /\ IsFiniteSet(Built) /\ Cardinality(Built) \in Nat
         /\ Cardinality(Built) + 1 \notin Built
         /\ Built = 1 .. Cardinality(Built)
         /\ 0 \notin Built
<1>1. PICK n \in 0 .. MaxInst : Built = 1 .. n
  BY DEF TypeInv
<1>2. n \in Nat
  BY <1>1, BoundsAssumption
<1>3. IsFiniteSet(1 .. n) /\ Cardinality(1 .. n) = n
  BY <1>2, FS_Interval
<1> QED
  BY <1>1, <1>2, <1>3

LEMMA HoldingFinite ==
  ASSUME TypeInv
  PROVE  IsFiniteSet(Holding) /\ Cardinality(Holding) \in Nat /\ Cardinality(Holding) <= MaxInst
<1>1. Holding \subseteq Built
  BY DEF Holding
<1>2. PICK n \in 0 .. MaxInst : Built = 1 .. n
  BY DEF TypeInv
<1>3. n \in Nat /\ n <= MaxInst
  BY <1>2, BoundsAssumption
<1>4. IsFiniteSet(Built) /\ Cardinality(Built) = n
  BY <1>2, <1>3, FS_Interval
<1>5. IsFiniteSet(Holding) /\ Cardinality(Holding) <= n /\ Cardinality(Holding) \in Nat
  BY <1>1, <1>4, FS_Subset, FS_CardinalityType
<1> QED
  BY <1>3, <1>5, BoundsAssumption

(* A start builds an object as its row says.                               *)
LEMMA NewObjectOK ==
  ASSUME TypeInv, NEW p \in Procs, proc[p].pc \in {"new", "fetch"}
  PROVE  /\ NewObject(p) \in Object /\ NewObject(p).room = proc[p].room /\ NewObject(p).polling = TRUE
         /\ NewObject(p).ap = proc[p].row.ap /\ NewObject(p).cfg = proc[p].row.cfg
         /\ NewObject(p).prob = proc[p].row.prob /\ NewObject(p).deaths = 0 /\ NewObject(p).alt = None
         /\ NewObject(p).sw = [k \in Switches |-> IF proc[p].row.cfg[k] THEN Slots ELSE {}]
<1>1. proc[p].row \in Row /\ proc[p].room \in Rooms
  BY ProcTyped DEF FieldsOK
<1>2. /\ proc[p].row.ap \in Nat /\ proc[p].row.ids \in (Ids \cup {0}) \X (Ids \cup {0})
      /\ proc[p].row.cfg \in Config /\ proc[p].row.prob \in {1, 2} /\ 0 \in 0 .. MaxDeaths
  <2>1. 0 \in 0 .. MaxDeaths
    BY BoundsAssumption
  <2> QED
    BY <1>1, <2>1, RowFields, Zenon
<1> DEFINE sw == [k \in Switches |-> IF proc[p].row.cfg[k] THEN Slots ELSE {}]
           row == proc[p].row
<1>3. sw \in [Switches -> SUBSET Slots]
  OBVIOUS
<1>4. NewObject(p) = [room |-> proc[p].room, ap |-> row.ap, ids |-> row.ids, cfg |-> row.cfg, sw |-> sw,
                      prob |-> row.prob, deaths |-> 0, alt |-> None, polling |-> TRUE]
  BY DEF NewObject
<1> HIDE DEF sw
<1>5. NewObject(p) \in Object
  BY <1>1, <1>2, <1>3, <1>4 DEF Object
<1>6. /\ NewObject(p).room = proc[p].room /\ NewObject(p).polling = TRUE
      /\ NewObject(p).ap = row.ap /\ NewObject(p).cfg = row.cfg
      /\ NewObject(p).prob = row.prob /\ NewObject(p).deaths = 0 /\ NewObject(p).alt = None
      /\ NewObject(p).sw = sw
  BY <1>4
<1> QED
  BY <1>5, <1>6 DEF sw

(* NewBuild adds an object that is being started.                          *)
LEMMA NewBuildEffect ==
  ASSUME TypeInv, NEW p \in Procs, NewBuild(p)
  PROVE  LET m == Cardinality(Built) + 1 IN
         /\ Local(p) /\ UNCHANGED <<db, hosted, handler, calm, failed>>
         /\ Built' = Built \cup {m} /\ m \in Insts /\ m \notin Built
         /\ \A i \in Built : inst'[i] = inst[i]
         /\ inst'[m] = NewObject(p)
         /\ refs' = refs + 1
         /\ proc[p].pc = "fetch" /\ proc'[p].pc = "allocate" /\ proc'[p].inst = m
         /\ proc'[p].room = proc[p].room /\ proc'[p].row = proc[p].row /\ proc'[p].op = proc[p].op
         /\ TypeInv'
<1> DEFINE m == Cardinality(Built) + 1
           t == [proc[p] EXCEPT !.pc = "allocate", !.inst = m]
<1>1. /\ proc[p].pc = "fetch" /\ Cardinality(Built) < MaxInst /\ refs' = refs + 1
      /\ UNCHANGED <<db, hosted, handler, boot, calm, failed, made>>
      /\ inst' = [i \in Built \cup {m} |-> IF i \in Built THEN inst[i] ELSE NewObject(p)]
      /\ proc' = [proc EXCEPT ![p] = t]
  BY DEF NewBuild, At
<1>2. /\ Cardinality(Built) \in Nat /\ m \notin Built /\ Built = 1 .. Cardinality(Built)
  BY Numbered
<1>3. m \in Insts /\ m \in 0 .. MaxInst /\ Built \cup {m} = 1 .. m /\ m # 0
  BY <1>1, <1>2, BoundsAssumption DEF Insts
<1>4. Built' = Built \cup {m} /\ (\A i \in Built : inst'[i] = inst[i]) /\ inst'[m] = NewObject(p)
  BY <1>1, <1>2 DEF Built
<1>5. proc[p] \in Proc /\ FieldsOK(proc[p]) /\ proc[p].room \in Rooms
  BY <1>1, ProcTyped
<1> HIDE DEF m
<1>6. /\ t \in Proc /\ t.pc = "allocate" /\ t.inst = m /\ t.room = proc[p].room /\ t.row = proc[p].row
      /\ t.op = proc[p].op /\ t.edit = proc[p].edit
  BY <1>3, <1>5 DEF Proc, Pcs, NewPcs
<1> HIDE DEF t
<1>7. FieldsOK(t)
  BY <1>1, <1>3, <1>5, <1>6, IdleOK DEF FieldsOK, NewPcs, StartPcs, EditPcs, DeletePcs
<1>8. proc' \in [Procs -> Proc] /\ proc'[p] = t /\ \A q \in Procs \ {p} : proc'[q] = proc[q]
  BY <1>1, <1>6 DEF TypeInv
<1>9. ProcStep(p)
  BY <1>1, <1>6, <1>7, <1>8 DEF ProcStep
<1>10. Local(p)
  BY <1>1, <1>9 DEF Local, TypeInv
<1>11. NewObject(p) \in Object /\ NewObject(p).room = proc[p].room
  BY <1>1, NewObjectOK
<1>12. \A i \in Built' : inst'[i] \in Object
  BY <1>4, <1>11 DEF TypeInv
<1>13. hosted' \in [Rooms -> Built' \cup {0}] /\ handler' \in [Ids -> Built' \cup {0}]
  BY <1>1, <1>4 DEF TypeInv
<1>14. TypeInv'
  <2>1. \E n \in 0 .. MaxInst : Built' = 1 .. n
    BY <1>3, <1>4
  <2>2. Built \subseteq Built' /\ \A i \in Built : inst'[i].room = inst[i].room
    BY <1>4
  <2>3. proc'[p].inst \in Built' /\ inst'[proc'[p].inst].room = proc'[p].room
    BY <1>4, <1>6, <1>8, <1>11
  <2> QED
    BY <1>10, <1>12, <1>13, <2>1, <2>2, <2>3, LocalTypes
<1> QED
  BY <1>1, <1>2, <1>3, <1>4, <1>6, <1>8, <1>10, <1>14 DEF m

LEMMA NewBuildIds ==
  ASSUME TypeInv, IdsPart, NEW p \in Procs, NewBuild(p)
  PROVE  IdsPart'
<1> DEFINE m == Cardinality(Built) + 1
<1>1. /\ Local(p) /\ hosted' = hosted /\ handler' = handler /\ calm' = calm
      /\ Built' = Built \cup {m} /\ m \notin Built
      /\ \A i \in Built : inst'[i] = inst[i]
      /\ inst'[m] = NewObject(p) /\ refs' = refs + 1
      /\ proc[p].pc = "fetch" /\ proc'[p].pc = "allocate" /\ proc'[p].inst = m
  BY NewBuildEffect
<1> HIDE DEF m
<1>2. \A q \in Procs \ {p} : proc'[q] = proc[q]
  BY <1>1 DEF Local, ProcStep
<1>3. inst'[m].polling
  BY <1>1, NewObjectOK
<1>4. 0 \notin Built /\ \A q \in Procs : Nascent(q) => proc[q].inst \in Built
  BY Numbered DEF TypeInv, Nascent, InstOK, FieldsOK
<1>5. /\ \A r \in Rooms : hosted[r] # 0 => hosted[r] \in Built
      /\ \A x \in Ids : handler[x] # 0 => handler[x] \in Built
      /\ \A r \in Rooms : hosted[r] # m
      /\ \A x \in Ids : handler[x] # m
  <2>1. m # 0
    <3>1. Cardinality(Built) \in Nat
      BY Numbered
    <3> QED
      BY <3>1 DEF m
  <2> QED
    BY <1>1, <2>1 DEF TypeInv
<1>6. ~Nascent(p) /\ Nascent(p)' /\ \A q \in Procs \ {p} : Nascent(q)' <=> Nascent(q)
  BY <1>1, <1>2 DEF Nascent
<1>7. \A i \in Built : Registered(i)' <=> Registered(i)
  BY <1>1 DEF Registered, IdsOf
<1>8. (\A r \in Rooms : hosted[r] # 0 => inst[hosted[r]].room = r /\ Registered(hosted[r]))'
  BY <1>1, <1>5, <1>7 DEF IdsPart, IdsInv
<1>9. (\A x \in Ids : handler[x] # 0 => x \in IdsOf(handler[x]) /\ inst[handler[x]].polling)'
  BY <1>1, <1>5 DEF IdsPart, IdsInv, IdsOf
<1>10. (\A q \in Procs : At(q, "allocate") => /\ inst[proc[q].inst].polling
                                              /\ \A x \in Ids : handler[x] # proc[q].inst)'
  <2> SUFFICES ASSUME NEW q \in Procs, proc'[q].pc = "allocate"
               PROVE  inst'[proc'[q].inst].polling /\ \A x \in Ids : handler'[x] # proc'[q].inst
    BY DEF At
  <2>1. CASE q = p
    BY <1>1, <1>3, <1>5, <2>1
  <2>2. CASE q # p
    <3>1. proc'[q] = proc[q] /\ Nascent(q)
      BY <1>2, <2>2 DEF Nascent
    <3> QED
      BY <1>1, <1>4, <3>1 DEF IdsPart, IdsInv, At
  <2> QED
    BY <2>1, <2>2
<1>11. (\A q \in Procs : At(q, "add") => Registered(proc[q].inst))'
  <2> SUFFICES ASSUME NEW q \in Procs, proc'[q].pc = "add"
               PROVE  Registered(proc[q].inst)'
    BY DEF At
  <2>1. q # p /\ proc'[q] = proc[q] /\ Nascent(q) /\ proc[q].pc = "add"
    BY <1>1, <1>2 DEF Nascent
  <2>2. Registered(proc[q].inst) /\ proc[q].inst \in Built
    BY <1>4, <2>1 DEF IdsPart, IdsInv, At
  <2> QED
    BY <1>1, <2>1, <2>2 DEF Registered, IdsOf
<1>12. (\A q \in Procs : Nascent(q) =>
       /\ \A r \in Rooms : hosted[r] # proc[q].inst
       /\ \A u \in Procs \ {q} : Nascent(u) => proc[u].inst # proc[q].inst)'
  <2> SUFFICES ASSUME NEW q \in Procs, Nascent(q)'
               PROVE  /\ \A r \in Rooms : hosted'[r] # proc'[q].inst
                      /\ \A u \in Procs \ {q} : Nascent(u)' => proc'[u].inst # proc'[q].inst
    OBVIOUS
  <2>1. CASE q = p
    BY <1>1, <1>2, <1>4, <1>5, <1>6, <2>1
  <2>2. CASE q # p
    BY <1>1, <1>2, <1>4, <1>6, <2>2 DEF IdsPart, IdsInv
  <2> QED
    BY <2>1, <2>2
<1>13. CalmLeftovers'
  <2> SUFFICES ASSUME NEW i \in Built', inst'[i].room \in calm', ~Starting(i)', hosted'[inst'[i].room] # i
               PROVE  ~inst'[i].polling
    BY DEF CalmLeftovers
  <2>1. i # m
    BY <1>1 DEF Starting
  <2>2. i \in Built /\ inst'[i] = inst[i]
    BY <1>1, <2>1
  <2>3. ~Starting(i)
    BY <1>1, <1>2 DEF Starting
  <2> QED
    BY <1>1, <2>2, <2>3 DEF IdsPart, CalmLeftovers
<1>14. RefsExact'
  <2>1. Holding' = Holding \cup {m} /\ m \notin Holding
    BY <1>1, <1>3 DEF Holding
  <2>2. Cardinality(Holding \cup {m}) = Cardinality(Holding) + 1
    BY <2>1, HoldingFinite, FS_AddElement
  <2> QED
    BY <1>1, <2>1, <2>2 DEF IdsPart, RefsExact
<1> QED
  BY <1>8, <1>9, <1>10, <1>11, <1>12, <1>13, <1>14 DEF IdsPart, IdsInv

(* A step that does not move the room in the registry keeps what is due.   *)
LEMMA LocalDue ==
  ASSUME HostedAsDue, NEW p \in Procs, Local(p), hosted' = hosted,
         proc'[p].pc \in NotYet => proc[p].pc \in NotYet,
         proc'[p].pc \notin Placed \cup {"disable"}
  PROVE  HostedAsDue'
<1>1. /\ \A q \in Procs \ {p} : proc'[q] = proc[q]
      /\ proc'[p] = Idle \/ proc'[p].room = proc[p].room
      /\ proc[p].pc # "idle"
      /\ calm' \subseteq calm
  BY DEF Local, ProcStep
<1> SUFFICES ASSUME NEW q \in Procs, proc'[q].pc # "idle", proc'[q].room \in calm'
             PROVE  /\ proc'[q].pc \in NotYet => hosted'[proc'[q].room] = 0
                    /\ proc'[q].pc \in Placed => hosted'[proc'[q].room] = proc'[q].inst
                    /\ proc'[q].pc = "disable" => hosted'[proc'[q].room] # 0
  BY DEF HostedAsDue, Placed
<1>2. CASE q # p
  BY <1>1, <1>2 DEF HostedAsDue, Placed
<1>3. CASE q = p
  BY <1>1, <1>3, IdleOK DEF HostedAsDue, Placed
<1> QED
  BY <1>2, <1>3

LEMMA NewBuildKeeps ==
  ASSUME CoreInv, NEW p \in Procs, NewBuild(p)
  PROVE  CoreInv'
<1>1. /\ Local(p) /\ hosted' = hosted /\ proc[p].pc = "fetch" /\ proc'[p].pc = "allocate" /\ TypeInv'
  BY NewBuildEffect DEF CoreInv
<1>2. HostedAsDue'
  BY <1>1, LocalDue DEF CoreInv, NotYet, Placed
<1> QED
  BY <1>1, <1>2, LocalBoot, LocalApart, NewBuildIds DEF CoreInv

(* NewAllocate gives the object an id pair, or gives up.                   *)
LEMMA NewAllocateEffect ==
  ASSUME TypeInv, NEW p \in Procs, NewAllocate(p), NEW i, i = proc[p].inst
  PROVE
         /\ Local(p) /\ UNCHANGED <<db, hosted, refs, calm>> /\ proc[p].pc = "allocate"
         /\ i \in Built /\ Built' = Built
         /\ \A j \in Built : j # i => inst'[j] = inst[j]
         /\ inst'[i] \in Object
         /\ inst'[i].room = inst[i].room /\ inst'[i].ap = inst[i].ap /\ inst'[i].cfg = inst[i].cfg
         /\ inst'[i].sw = inst[i].sw /\ inst'[i].prob = inst[i].prob /\ inst'[i].deaths = inst[i].deaths
         /\ inst'[i].alt = inst[i].alt
         /\ handler' \in [Ids -> Built \cup {0}]
         /\ \/ /\ proc'[p] = Idle /\ ~inst'[i].polling /\ inst'[i].ids = <<0, 0>> /\ handler' = handler
               /\ failed' = failed \cup {proc[p].room}
            \/ /\ proc'[p].pc = "add" /\ proc'[p].inst = i /\ proc'[p].room = proc[p].room
               /\ proc'[p].row = proc[p].row /\ proc'[p].op = proc[p].op /\ failed' = failed
               /\ inst'[i].polling = inst[i].polling
               /\ inst'[i].ids[1] # inst'[i].ids[2]
               /\ IdsOf(i)' \subseteq Free
               /\ \A x \in Ids : handler'[x] = IF x \in IdsOf(i)' THEN i ELSE handler[x]
<1> DEFINE o == inst[i]
<1>1. /\ proc[p].pc = "allocate" /\ UNCHANGED <<db, hosted, refs, boot, calm, made>>
  BY DEF NewAllocate, At
<1>2. proc[p] \in Proc /\ FieldsOK(proc[p]) /\ InstOK(proc[p]) /\ proc[p].room \in Rooms
  BY <1>1, ProcTyped
<1>3. i \in Built /\ o \in Object
  BY <1>1, <1>2 DEF TypeInv, FieldsOK, InstOK
<1>4. /\ db \in [Rooms -> Stored] /\ calm \subseteq calm /\ failed \subseteq Rooms /\ made \in Made
      /\ handler \in [Ids -> Built \cup {0}]
  BY DEF TypeInv
<1>5. CASE /\ inst' = [inst EXCEPT ![i].polling = FALSE, ![i].ids = <<0, 0>>]
           /\ failed' = failed \cup {proc[p].room} /\ End(p) /\ UNCHANGED handler
  <2> DEFINE n == [o EXCEPT !.polling = FALSE, !.ids = <<0, 0>>]
  <2>1. inst' = [inst EXCEPT ![i] = n]
    BY <1>3, <1>5
  <2>2. /\ n \in Object /\ n.room = o.room /\ n.ap = o.ap /\ n.cfg = o.cfg /\ n.sw = o.sw
        /\ n.prob = o.prob /\ n.deaths = o.deaths /\ n.alt = o.alt /\ ~n.polling /\ n.ids = <<0, 0>>
    BY <1>3 DEF Object
  <2> HIDE DEF n
  <2>3. Built' = Built /\ inst'[i] = n /\ \A j \in Built : j # i => inst'[j] = inst[j]
    BY <1>3, <2>1 DEF Built
  <2>4. ProcStep(p) /\ proc'[p] = Idle
    BY <1>1, <1>5, EndingStep
  <2>5. Local(p)
    BY <1>1, <1>2, <1>4, <1>5, <2>4 DEF Local
  <2> QED
    BY <1>1, <1>3, <1>4, <1>5, <2>2, <2>3, <2>4, <2>5
<1>6. ASSUME NEW pair \in Pairs(inst[i].ids),
             handler' = [handler EXCEPT ![pair[1]] = i, ![pair[2]] = i],
             inst' = [inst EXCEPT ![i].ids = pair], Goto(p, "add"), UNCHANGED failed
      PROVE  /\ Local(p) /\ Built' = Built
             /\ \A j \in Built : j # i => inst'[j] = inst[j]
             /\ inst'[i] \in Object
             /\ inst'[i].room = inst[i].room /\ inst'[i].ap = inst[i].ap /\ inst'[i].cfg = inst[i].cfg
             /\ inst'[i].sw = inst[i].sw /\ inst'[i].prob = inst[i].prob /\ inst'[i].deaths = inst[i].deaths
             /\ inst'[i].alt = inst[i].alt
             /\ handler' \in [Ids -> Built \cup {0}]
             /\ proc'[p].pc = "add" /\ proc'[p].inst = i /\ proc'[p].room = proc[p].room
             /\ proc'[p].row = proc[p].row /\ proc'[p].op = proc[p].op /\ failed' = failed
             /\ inst'[i].polling = inst[i].polling
             /\ inst'[i].ids[1] # inst'[i].ids[2]
             /\ IdsOf(i)' \subseteq Free
             /\ \A x \in Ids : handler'[x] = IF x \in IdsOf(i)' THEN i ELSE handler[x]
  <2> DEFINE n == [o EXCEPT !.ids = pair]
  <2>1. pair \in Free \X Free /\ pair[1] # pair[2]
    BY DEF Pairs
  <2>2. Free \subseteq Ids
    BY DEF Free
  <2>3. pair \in (Ids \cup {0}) \X (Ids \cup {0}) /\ pair[1] \in Free /\ pair[2] \in Free
    BY <2>1, <2>2
  <2>4. inst' = [inst EXCEPT ![i] = n]
    BY <1>3, <1>6
  <2>5. /\ n \in Object /\ n.room = o.room /\ n.ap = o.ap /\ n.cfg = o.cfg /\ n.sw = o.sw
        /\ n.prob = o.prob /\ n.deaths = o.deaths /\ n.alt = o.alt /\ n.polling = o.polling /\ n.ids = pair
    BY <1>3, <2>3 DEF Object
  <2> HIDE DEF n
  <2>6. Built' = Built /\ inst'[i] = n /\ \A j \in Built : j # i => inst'[j] = inst[j]
    BY <1>3, <2>4 DEF Built
  <2>7. "add" \in Pcs
    BY DEF Pcs, NewPcs
  <2>8. FieldsOK(proc'[p])
    BY <1>1, <1>2, <1>6, <2>7, GoingFields DEF FieldsOK, NewPcs, StartPcs, EditPcs, DeletePcs
  <2>9. ProcStep(p) /\ proc'[p].pc = "add" /\ proc'[p].inst = i
    BY <1>1, <1>6, <2>7, <2>8, GoingStep
  <2>10. proc'[p].room = proc[p].room /\ proc'[p].row = proc[p].row /\ proc'[p].op = proc[p].op
    BY <1>6, <2>7, Going
  <2>11. Local(p)
    BY <1>1, <1>4, <1>6, <2>9 DEF Local
  <2>12. handler' \in [Ids -> Built \cup {0}]
    BY <1>3, <1>4, <1>6
  <2>13. IdsOf(i)' = {pair[1], pair[2]}
    BY <2>5, <2>6 DEF IdsOf
  <2>14. \A x \in Ids : handler'[x] = IF x \in IdsOf(i)' THEN i ELSE handler[x]
    BY <1>4, <1>6, <2>2, <2>3, <2>13
  <2> QED
    BY <1>6, <2>1, <2>3, <2>5, <2>6, <2>9, <2>10, <2>11, <2>12, <2>13, <2>14
<1>7. \/ /\ inst' = [inst EXCEPT ![i].polling = FALSE, ![i].ids = <<0, 0>>]
         /\ failed' = failed \cup {proc[p].room} /\ End(p) /\ UNCHANGED handler
      \/ \E pair \in Pairs(inst[i].ids) :
           /\ handler' = [handler EXCEPT ![pair[1]] = i, ![pair[2]] = i]
           /\ inst' = [inst EXCEPT ![i].ids = pair] /\ Goto(p, "add") /\ UNCHANGED failed
  BY DEF NewAllocate
<1> QED
  BY <1>1, <1>3, <1>5, <1>6, <1>7

LEMMA NewAllocateIds ==
  ASSUME TypeInv, IdsPart, NEW p \in Procs, NewAllocate(p)
  PROVE  IdsPart'
<1>0. PICK i : i = proc[p].inst
  OBVIOUS
<1>1. /\ Local(p) /\ hosted' = hosted /\ refs' = refs /\ calm' = calm /\ proc[p].pc = "allocate"
      /\ i \in Built /\ Built' = Built
      /\ \A j \in Built : j # i => inst'[j] = inst[j]
      /\ inst'[i].room = inst[i].room
      /\ \/ proc'[p] = Idle /\ ~inst'[i].polling /\ inst'[i].ids = <<0, 0>> /\ handler' = handler
         \/ /\ proc'[p].pc = "add" /\ proc'[p].inst = i
            /\ inst'[i].polling = inst[i].polling /\ inst'[i].ids[1] # inst'[i].ids[2]
            /\ IdsOf(i)' \subseteq Free
            /\ \A x \in Ids : handler'[x] = IF x \in IdsOf(i)' THEN i ELSE handler[x]
  BY <1>0, NewAllocateEffect
<1>2. \A q \in Procs \ {p} : proc'[q] = proc[q]
  BY <1>1 DEF Local, ProcStep
<1>3. /\ inst[i].polling /\ \A x \in Ids : handler[x] # i
      /\ \A r \in Rooms : hosted[r] # i
      /\ \A q \in Procs \ {p} : Nascent(q) => proc[q].inst # i
  BY <1>0, <1>1 DEF IdsPart, IdsInv, At, Nascent
<1>4. \A x \in Ids : x \in Free => handler[x] = 0
  BY DEF Free
<1>5. \A x \in Ids : handler'[x] # handler[x] =>
        handler[x] = 0 /\ handler'[x] = i /\ x \in IdsOf(i)' /\ inst'[i].polling
  BY <1>1, <1>3, <1>4
<1>6. \A q \in Procs : Nascent(q) => proc[q].inst \in Built
  BY DEF TypeInv, Nascent, InstOK, FieldsOK
<1>7. /\ \A r \in Rooms : hosted[r] # 0 => hosted[r] \in Built
      /\ \A x \in Ids : handler[x] # 0 => handler[x] \in Built
      /\ 0 \notin Built
  BY Numbered DEF TypeInv
<1>8. \A j \in Built : (j # i /\ Registered(j)) => Registered(j)'
  <2> SUFFICES ASSUME NEW j \in Built, j # i, Registered(j)
               PROVE  Registered(j)'
    OBVIOUS
  <2>1. inst'[j] = inst[j] /\ IdsOf(j)' = IdsOf(j)
    BY <1>1 DEF IdsOf
  <2>2. \A x \in IdsOf(j) : x \in Ids /\ handler[x] = j /\ handler'[x] = j
    BY <1>5, <1>7 DEF Registered
  <2> QED
    BY <2>1, <2>2 DEF Registered
<1>9. proc'[p].pc = "add" => Registered(i)'
  <2>1. proc'[p].pc # "add" \/ IdsOf(i)' \subseteq Free
    BY <1>1, IdleOK
  <2>2. Free \subseteq Ids
    BY DEF Free
  <2> QED
    BY <1>1, <1>3, <2>1, <2>2, IdleOK DEF Registered, IdsOf
<1>10. /\ \A q \in Procs \ {p} : Nascent(q)' <=> Nascent(q)
       /\ Nascent(p)' => proc'[p].pc = "add" /\ proc'[p].inst = i
       /\ Nascent(p) /\ proc[p].inst = i
  BY <1>0, <1>1, <1>2, IdleOK DEF Nascent
<1>11. (\A r \in Rooms : hosted[r] # 0 => inst[hosted[r]].room = r /\ Registered(hosted[r]))'
  BY <1>1, <1>3, <1>7, <1>8 DEF IdsPart, IdsInv
<1>12. (\A x \in Ids : handler[x] # 0 => x \in IdsOf(handler[x]) /\ inst[handler[x]].polling)'
  <2> SUFFICES ASSUME NEW x \in Ids, handler'[x] # 0
               PROVE  x \in {inst'[handler'[x]].ids[1], inst'[handler'[x]].ids[2]} /\ inst'[handler'[x]].polling
    BY DEF IdsOf
  <2>1. CASE handler'[x] # handler[x]
    BY <1>5, <2>1 DEF IdsOf
  <2>2. CASE handler'[x] = handler[x]
    BY <1>1, <1>3, <1>7, <2>2 DEF IdsPart, IdsInv, IdsOf
  <2> QED
    BY <2>1, <2>2
<1>13. (\A q \in Procs : At(q, "allocate") => /\ inst[proc[q].inst].polling
                                              /\ \A x \in Ids : handler[x] # proc[q].inst)'
  <2> SUFFICES ASSUME NEW q \in Procs, proc'[q].pc = "allocate"
               PROVE  inst'[proc'[q].inst].polling /\ \A x \in Ids : handler'[x] # proc'[q].inst
    BY DEF At
  <2>1. q # p /\ proc'[q] = proc[q] /\ Nascent(q) /\ proc[q].inst \in Built /\ proc[q].inst # i
    BY <1>1, <1>2, <1>3, <1>6, IdleOK DEF Nascent
  <2>2. inst[proc[q].inst].polling /\ \A x \in Ids : handler[x] # proc[q].inst
    BY <2>1 DEF IdsPart, IdsInv, At
  <2> QED
    BY <1>1, <1>5, <2>1, <2>2
<1>14. (\A q \in Procs : At(q, "add") => Registered(proc[q].inst))'
  <2> SUFFICES ASSUME NEW q \in Procs, proc'[q].pc = "add"
               PROVE  Registered(proc[q].inst)'
    BY DEF At
  <2>1. CASE q = p
    BY <1>9, <1>10, <2>1 DEF Nascent, Registered, IdsOf
  <2>2. CASE q # p
    <3>1. proc'[q] = proc[q] /\ Nascent(q) /\ proc[q].pc = "add"
      BY <1>2, <2>2 DEF Nascent
    <3>2. Registered(proc[q].inst) /\ proc[q].inst \in Built /\ proc[q].inst # i
      BY <1>3, <1>6, <2>2, <3>1 DEF IdsPart, IdsInv, At
    <3>3. inst'[proc[q].inst] = inst[proc[q].inst] /\ \A x \in Ids : handler[x] = proc[q].inst => handler'[x] = handler[x]
      BY <1>1, <1>5, <1>7, <3>2
    <3> QED
      BY <3>1, <3>2, <3>3 DEF Registered, IdsOf
  <2> QED
    BY <2>1, <2>2
<1>15. (\A q \in Procs : Nascent(q) =>
       /\ \A r \in Rooms : hosted[r] # proc[q].inst
       /\ \A u \in Procs \ {q} : Nascent(u) => proc[u].inst # proc[q].inst)'
  <2> SUFFICES ASSUME NEW q \in Procs, Nascent(q)'
               PROVE  /\ \A r \in Rooms : hosted'[r] # proc'[q].inst
                      /\ \A u \in Procs \ {q} : Nascent(u)' => proc'[u].inst # proc'[q].inst
    OBVIOUS
  <2>1. CASE q = p
    BY <1>1, <1>2, <1>3, <1>10, <2>1
  <2>2. CASE q # p
    BY <1>1, <1>2, <1>3, <1>10, <2>2 DEF IdsPart, IdsInv
  <2> QED
    BY <2>1, <2>2
<1>16. CalmLeftovers'
  <2> SUFFICES ASSUME NEW j \in Built', inst'[j].room \in calm', ~Starting(j)', hosted'[inst'[j].room] # j
               PROVE  ~inst'[j].polling
    BY DEF CalmLeftovers
  <2>1. CASE j = i
    BY <1>1, <2>1 DEF Starting
  <2>2. CASE j # i
    <3>1. ~Starting(j)
      BY <1>1, <1>2, <1>10, <2>2 DEF Starting
    <3> QED
      BY <1>1, <2>2, <3>1 DEF IdsPart, CalmLeftovers
  <2> QED
    BY <2>1, <2>2
<1>17. RefsExact'
  <2>1. Holding' = Holding
    BY <1>1, <1>3 DEF Holding
  <2> QED
    BY <1>1, <2>1 DEF IdsPart, RefsExact
<1> QED
  BY <1>11, <1>12, <1>13, <1>14, <1>15, <1>16, <1>17 DEF IdsPart, IdsInv

LEMMA NewAllocateKeeps ==
  ASSUME CoreInv, NEW p \in Procs, NewAllocate(p)
  PROVE  CoreInv'
<1>0. TypeInv
  BY DEF CoreInv
<1> DEFINE i == proc[p].inst
<1>1. /\ Local(p) /\ hosted' = hosted /\ proc[p].pc = "allocate" /\ i \in Built /\ Built' = Built
      /\ \A j \in Built : j # i => inst'[j] = inst[j]
      /\ inst'[i] \in Object /\ inst'[i].room = inst[i].room
      /\ handler' \in [Ids -> Built \cup {0}]
      /\ \/ proc'[p] = Idle
         \/ proc'[p].pc = "add" /\ proc'[p].inst = i /\ proc'[p].room = proc[p].room
  BY <1>0, NewAllocateEffect
<1>2. HostedAsDue'
  BY <1>1, LocalDue, IdleOK DEF CoreInv, NotYet, Placed
<1>3. InstOK(proc[p])
  BY <1>0, <1>1, ProcTyped
<1>4. TypeInv'
  <2>1. /\ Built \subseteq Built' /\ \E n \in 0 .. MaxInst : Built' = 1 .. n
        /\ \A j \in Built' : inst'[j] \in Object
    BY <1>0, <1>1 DEF TypeInv
  <2>2. \A j \in Built : inst'[j].room = inst[j].room
    BY <1>1
  <2>3. hosted' \in [Rooms -> Built' \cup {0}] /\ handler' \in [Ids -> Built' \cup {0}]
    BY <1>0, <1>1 DEF TypeInv
  <2>4. proc'[p].inst # 0 => proc'[p].inst \in Built' /\ inst'[proc'[p].inst].room = proc'[p].room
    BY <1>1, <1>3, IdleOK DEF InstOK
  <2> QED
    BY <1>0, <1>1, <2>1, <2>2, <2>3, <2>4, LocalTypes
<1> QED
  BY <1>1, <1>2, <1>4, LocalBoot, LocalApart, NewAllocateIds DEF CoreInv

(* Whoever does anything else than edit a calm room is alone on it.        *)
LEMMA Alone ==
  ASSUME TypeInv, Apart, NEW p \in Procs, NEW q \in Procs, p # q, proc[p].pc # "idle",
         proc[p].pc \notin EditPcs, proc[p].room \in calm, Active(q, proc[p].room)
  PROVE  FALSE
<1>1. proc[p].edit = None
  BY DEF TypeInv, FieldsOK
<1>2. Unrelated(proc[p].edit, proc[q].edit)
  BY DEF Apart, Active
<1> QED
  BY <1>1, <1>2 DEF Unrelated

(* NewAdd registers the room, or comes second.                             *)
LEMMA NewAddEffect ==
  ASSUME TypeInv, NEW p \in Procs, NewAdd(p), NEW i, i = proc[p].inst, NEW r, r = proc[p].room
  PROVE
         /\ Local(p) /\ UNCHANGED <<db, handler, inst, refs, calm>> /\ proc[p].pc = "add"
         /\ i \in Built /\ r \in Rooms /\ inst[i].room = r /\ i # 0
         /\ hosted' \in [Rooms -> Built \cup {0}]
         /\ \/ hosted[r] # 0 /\ proc'[p] = Idle /\ hosted' = hosted /\ failed' = failed
            \/ /\ hosted[r] = 0 /\ hosted'[r] = i /\ (\A q \in Rooms : q # r => hosted'[q] = hosted[q])
               /\ proc'[p].pc = "save" /\ proc'[p].inst = i /\ proc'[p].room = r
               /\ proc'[p].row = proc[p].row /\ proc'[p].op = proc[p].op /\ failed' = failed \ {r}
         /\ TypeInv'
<1>1. /\ proc[p].pc = "add" /\ UNCHANGED <<db, handler, inst, refs, boot, calm, made>>
  BY DEF NewAdd, At
<1>2. proc[p] \in Proc /\ FieldsOK(proc[p]) /\ InstOK(proc[p]) /\ r \in Rooms
  BY <1>1, ProcTyped
<1>3. i \in Built /\ i # 0 /\ inst[i].room = r
  BY <1>1, <1>2 DEF TypeInv, FieldsOK, InstOK
<1>4. /\ db \in [Rooms -> Stored] /\ calm \subseteq calm /\ failed \subseteq Rooms /\ made \in Made
      /\ hosted \in [Rooms -> Built \cup {0}]
  BY DEF TypeInv
<1>5. /\ Local(p)
      /\ hosted' \in [Rooms -> Built \cup {0}]
      /\ \/ hosted[r] # 0 /\ proc'[p] = Idle /\ hosted' = hosted /\ failed' = failed
         \/ /\ hosted[r] = 0 /\ hosted'[r] = i /\ (\A q \in Rooms : q # r => hosted'[q] = hosted[q])
            /\ proc'[p].pc = "save" /\ proc'[p].inst = i /\ proc'[p].room = r
            /\ proc'[p].row = proc[p].row /\ proc'[p].op = proc[p].op /\ failed' = failed \ {r}
  <2>1. CASE hosted[r] # 0
    <3>1. End(p) /\ UNCHANGED <<hosted, failed>>
      BY <2>1 DEF NewAdd
    <3>2. ProcStep(p) /\ proc'[p] = Idle
      BY <1>1, <3>1, EndingStep
    <3> QED
      BY <1>1, <1>4, <2>1, <3>1, <3>2 DEF Local
  <2>2. CASE hosted[r] = 0
    <3>1. hosted' = [hosted EXCEPT ![r] = i] /\ failed' = failed \ {r} /\ Goto(p, "save") /\ "save" \in Pcs
      BY <2>2 DEF NewAdd, Pcs, NewPcs
    <3>2. FieldsOK(proc'[p])
      BY <1>1, <1>2, <3>1, GoingFields DEF FieldsOK, NewPcs, StartPcs, EditPcs, DeletePcs
    <3>3. ProcStep(p) /\ proc'[p].pc = "save" /\ proc'[p].inst = i /\ proc'[p].row = proc[p].row
      BY <1>1, <3>1, <3>2, GoingStep
    <3>4. proc'[p].room = r /\ proc'[p].op = proc[p].op
      BY <3>1, Going
    <3>5. /\ hosted' \in [Rooms -> Built \cup {0}] /\ hosted'[r] = i
          /\ \A q \in Rooms : q # r => hosted'[q] = hosted[q]
      BY <1>2, <1>3, <1>4, <3>1
    <3>6. Local(p)
      BY <1>1, <1>4, <3>1, <3>3, <3>5 DEF Local
    <3> QED
      BY <2>2, <3>1, <3>3, <3>4, <3>5, <3>6
  <2> QED
    BY <2>1, <2>2
<1>6. TypeInv'
  <2>1. Built' = Built /\ inst' = inst /\ handler' = handler
    BY <1>1 DEF Built
  <2>2. /\ Built \subseteq Built' /\ \E n \in 0 .. MaxInst : Built' = 1 .. n
        /\ \A j \in Built' : inst'[j] \in Object
    BY <2>1 DEF TypeInv
  <2>3. \A j \in Built : inst'[j].room = inst[j].room
    BY <2>1
  <2>4. hosted' \in [Rooms -> Built' \cup {0}] /\ handler' \in [Ids -> Built' \cup {0}]
    BY <1>5, <2>1 DEF TypeInv
  <2>5. proc'[p].inst # 0 => proc'[p].inst \in Built' /\ inst'[proc'[p].inst].room = proc'[p].room
    BY <1>3, <1>5, <2>1, IdleOK
  <2> QED
    BY <1>5, <2>2, <2>3, <2>4, <2>5, LocalTypes
<1> QED
  BY <1>1, <1>2, <1>3, <1>5, <1>6

LEMMA NewAddIds ==
  ASSUME CoreInv, NEW p \in Procs, NewAdd(p)
  PROVE  IdsPart' /\ HostedAsDue'
<1>0. TypeInv /\ Apart /\ HostedAsDue /\ IdsPart
  BY DEF CoreInv
<1>i. PICK i : i = proc[p].inst
  OBVIOUS
<1>r. PICK r : r = proc[p].room
  OBVIOUS
<1>1. /\ Local(p) /\ UNCHANGED <<handler, inst, refs, calm>> /\ proc[p].pc = "add"
      /\ i \in Built /\ r \in Rooms /\ inst[i].room = r /\ i # 0
      /\ \/ hosted[r] # 0 /\ proc'[p] = Idle /\ hosted' = hosted
         \/ /\ hosted[r] = 0 /\ hosted'[r] = i /\ (\A q \in Rooms : q # r => hosted'[q] = hosted[q])
            /\ proc'[p].pc = "save" /\ proc'[p].inst = i /\ proc'[p].room = r
  BY <1>0, <1>i, <1>r, NewAddEffect
<1>2. \A q \in Procs \ {p} : proc'[q] = proc[q]
  BY <1>1 DEF Local, ProcStep
<1>3. Built' = Built /\ inst' = inst /\ handler' = handler /\ refs' = refs /\ calm' = calm
  BY <1>1 DEF Built
<1>4. /\ Registered(i) /\ \A q \in Rooms : hosted[q] # i
      /\ \A q \in Procs \ {p} : Nascent(q) => proc[q].inst # i
  BY <1>0, <1>1, <1>i DEF IdsPart, IdsInv, At, Nascent
<1>5. \A j : Registered(j)' <=> Registered(j)
  BY <1>3 DEF Registered, IdsOf
<1>6. /\ \A q \in Procs \ {p} : Nascent(q)' <=> Nascent(q)
      /\ ~Nascent(p)'
  BY <1>1, <1>2, IdleOK DEF Nascent
<1>7. \A q \in Rooms : hosted'[q] = hosted[q] \/ (q = r /\ hosted'[q] = i)
  BY <1>1
<1>8. (\A q \in Rooms : hosted[q] # 0 => inst[hosted[q]].room = q /\ Registered(hosted[q]))'
  <2> SUFFICES ASSUME NEW q \in Rooms, hosted'[q] # 0
               PROVE  inst'[hosted'[q]].room = q /\ Registered(hosted'[q])
    BY <1>3, <1>5 DEF Registered, IdsOf
  <2> QED
    BY <1>0, <1>1, <1>3, <1>4, <1>7 DEF IdsPart, IdsInv
<1>9. (\A x \in Ids : handler[x] # 0 => x \in IdsOf(handler[x]) /\ inst[handler[x]].polling)'
  BY <1>0, <1>3 DEF IdsPart, IdsInv, IdsOf
<1>10. (\A q \in Procs : At(q, "allocate") => /\ inst[proc[q].inst].polling
                                              /\ \A x \in Ids : handler[x] # proc[q].inst)'
  <2> SUFFICES ASSUME NEW q \in Procs, proc'[q].pc = "allocate"
               PROVE  inst'[proc'[q].inst].polling /\ \A x \in Ids : handler'[x] # proc'[q].inst
    BY DEF At
  <2>1. q # p /\ proc'[q] = proc[q]
    BY <1>1, <1>2, IdleOK
  <2> QED
    BY <1>0, <1>3, <2>1 DEF IdsPart, IdsInv, At
<1>11. (\A q \in Procs : At(q, "add") => Registered(proc[q].inst))'
  <2> SUFFICES ASSUME NEW q \in Procs, proc'[q].pc = "add"
               PROVE  Registered(proc'[q].inst)
    BY <1>3, <1>5 DEF At, Registered, IdsOf
  <2>1. q # p /\ proc'[q] = proc[q]
    BY <1>1, <1>2, IdleOK
  <2> QED
    BY <1>0, <2>1 DEF IdsPart, IdsInv, At
<1>12. (\A q \in Procs : Nascent(q) =>
       /\ \A s \in Rooms : hosted[s] # proc[q].inst
       /\ \A u \in Procs \ {q} : Nascent(u) => proc[u].inst # proc[q].inst)'
  BY <1>0, <1>2, <1>4, <1>6, <1>7 DEF IdsPart, IdsInv
<1>13. CalmLeftovers'
  <2> SUFFICES ASSUME NEW j \in Built, inst[j].room \in calm, ~Starting(j)', hosted'[inst[j].room] # j
               PROVE  ~inst[j].polling
    BY <1>3 DEF CalmLeftovers
  <2>1. CASE j = i
    <3>1. r \in calm /\ hosted[r] # 0
      BY <1>1, <2>1
    <3> QED
      BY <1>0, <1>1, <1>r, <3>1 DEF HostedAsDue, NotYet
  <2>2. CASE j # i
    <3>1. ~Starting(j)
      BY <1>1, <1>2, <1>i, <2>2 DEF Starting
    <3>2. hosted[inst[j].room] # j
      <4>1. inst[j].room \in Rooms /\ j # 0
        BY <1>0, ObjectFields, Numbered DEF TypeInv
      <4> QED
        BY <1>1, <4>1
    <3> QED
      BY <1>0, <3>1, <3>2 DEF IdsPart, CalmLeftovers
  <2> QED
    BY <2>1, <2>2
<1>14. RefsExact'
  <2>1. Holding' = Holding
    BY <1>3 DEF Holding
  <2> QED
    BY <1>0, <1>3, <2>1 DEF IdsPart, RefsExact
<1>15. HostedAsDue'
  <2> SUFFICES ASSUME NEW q \in Procs, proc'[q].pc # "idle", proc'[q].room \in calm
               PROVE  /\ proc'[q].pc \in NotYet => hosted'[proc'[q].room] = 0
                      /\ proc'[q].pc \in Placed => hosted'[proc'[q].room] = proc'[q].inst
                      /\ proc'[q].pc = "disable" => hosted'[proc'[q].room] # 0
    BY <1>3 DEF HostedAsDue, Placed
  <2>1. CASE q = p
    BY <1>1, <2>1, IdleOK DEF NotYet, Placed
  <2>2. CASE q # p
    <3>1. proc'[q] = proc[q]
      BY <1>2, <2>2
    <3>2. proc[q].room # r
      <4> SUFFICES ASSUME proc[q].room = r
                   PROVE  FALSE
        OBVIOUS
      <4>1. Active(q, proc[p].room) /\ proc[p].room \in calm
        BY <1>r, <3>1 DEF Active
      <4> QED
        BY <1>0, <1>1, <2>2, <4>1, Alone DEF EditPcs
    <3>3. proc[q].room \in Rooms
      BY <1>0, <3>1, ProcTyped
    <3> QED
      BY <1>0, <1>7, <3>1, <3>2, <3>3 DEF HostedAsDue, Placed
  <2> QED
    BY <2>1, <2>2
<1> QED
  BY <1>8, <1>9, <1>10, <1>11, <1>12, <1>13, <1>14, <1>15 DEF IdsPart, IdsInv

LEMMA NewAddKeeps ==
  ASSUME CoreInv, NEW p \in Procs, NewAdd(p)
  PROVE  CoreInv'
<1>1. TypeInv
  BY DEF CoreInv
<1>2. Local(p) /\ TypeInv'
  BY <1>1, NewAddEffect
<1> QED
  BY <1>2, LocalBoot, LocalApart, NewAddIds DEF CoreInv

(* RemoveRoom takes the room that is hosted now out of the registry.       *)
LEMMA RemoveEffect ==
  ASSUME TypeInv, IdsPart, NEW p \in Procs, RemoveRoom(p), NEW r, r = proc[p].room, NEW i, i = hosted[r], i # 0
  PROVE
         /\ Local(p) /\ UNCHANGED <<db, calm, failed>> /\ proc[p].pc = "remove" /\ proc'[p] = Idle
         /\ r \in Rooms /\ i \in Built /\ Built' = Built
         /\ \A j \in Built : j # i => inst'[j] = inst[j]
         /\ inst'[i] \in Object /\ inst'[i].room = inst[i].room /\ inst'[i].ids = inst[i].ids
         /\ ~inst'[i].polling
         /\ hosted'[r] = 0 /\ \A q \in Rooms : q # r => hosted'[q] = hosted[q]
         /\ \A x \in Ids : handler'[x] = IF x \in IdsOf(i) THEN 0 ELSE handler[x]
         /\ refs' = IF refs = 0 THEN 0 ELSE refs - 1
         /\ TypeInv'
<1> DEFINE o == inst[i]
           n == [o EXCEPT !.polling = FALSE]
<1>1. /\ proc[p].pc = "remove" /\ UNCHANGED <<db, boot, calm, failed, made>> /\ End(p)
      /\ inst' = [inst EXCEPT ![i].polling = FALSE]
      /\ refs' = (IF refs = 0 THEN 0 ELSE refs - 1)
      /\ handler' = [x \in Ids |-> IF x \in {inst[i].ids[1], inst[i].ids[2]} THEN 0 ELSE handler[x]]
      /\ hosted' = [hosted EXCEPT ![r] = 0]
  BY DEF RemoveRoom, At
<1>2. r \in Rooms /\ i \in Built \cup {0}
  BY <1>1, ProcTyped
<1>3. i \in Built /\ o \in Object
  BY <1>2 DEF TypeInv
<1>4. /\ db \in [Rooms -> Stored] /\ calm \subseteq calm /\ failed \subseteq Rooms /\ made \in Made
      /\ hosted \in [Rooms -> Built \cup {0}] /\ handler \in [Ids -> Built \cup {0}]
  BY DEF TypeInv
<1>5. inst' = [inst EXCEPT ![i] = n]
  BY <1>1, <1>3
<1>6. n \in Object /\ n.room = o.room /\ n.ids = o.ids /\ ~n.polling
  BY <1>3 DEF Object
<1> HIDE DEF n
<1>7. Built' = Built /\ inst'[i] = n /\ \A j \in Built : j # i => inst'[j] = inst[j]
  BY <1>3, <1>5 DEF Built
<1>8. ProcStep(p) /\ proc'[p] = Idle
  BY <1>1, EndingStep
<1>9. /\ hosted' \in [Rooms -> Built \cup {0}] /\ hosted'[r] = 0 /\ \A q \in Rooms : q # r => hosted'[q] = hosted[q]
  BY <1>1, <1>2, <1>4
<1>10. /\ handler' \in [Ids -> Built \cup {0}]
       /\ \A x \in Ids : handler'[x] = IF x \in IdsOf(i) THEN 0 ELSE handler[x]
  BY <1>1, <1>4 DEF IdsOf
<1>11. Local(p)
  BY <1>1, <1>4, <1>8, <1>9 DEF Local
<1>12. TypeInv'
  <2>1. /\ Built \subseteq Built' /\ \E k \in 0 .. MaxInst : Built' = 1 .. k
        /\ \A j \in Built' : inst'[j] \in Object
    BY <1>6, <1>7 DEF TypeInv
  <2>2. \A j \in Built : inst'[j].room = inst[j].room
    BY <1>6, <1>7
  <2>3. proc'[p].inst = 0
    BY <1>8, IdleOK
  <2> QED
    BY <1>7, <1>9, <1>10, <1>11, <2>1, <2>2, <2>3, LocalTypes
<1> QED
  BY <1>1, <1>2, <1>3, <1>6, <1>7, <1>8, <1>9, <1>10, <1>11, <1>12

LEMMA RemoveIds ==
  ASSUME CoreInv, NEW p \in Procs, RemoveRoom(p), hosted[proc[p].room] # 0
  PROVE  IdsPart' /\ HostedAsDue'
<1>0. TypeInv /\ Apart /\ HostedAsDue /\ IdsPart
  BY DEF CoreInv
<1>r. PICK r : r = proc[p].room
  OBVIOUS
<1>i. PICK i : i = hosted[r]
  OBVIOUS
<1>1. /\ Local(p) /\ UNCHANGED <<db, calm, failed>> /\ proc[p].pc = "remove" /\ proc'[p] = Idle
      /\ r \in Rooms /\ i \in Built /\ Built' = Built
      /\ \A j \in Built : j # i => inst'[j] = inst[j]
      /\ inst'[i] \in Object /\ inst'[i].room = inst[i].room /\ inst'[i].ids = inst[i].ids
      /\ ~inst'[i].polling
      /\ hosted'[r] = 0 /\ \A q \in Rooms : q # r => hosted'[q] = hosted[q]
      /\ \A x \in Ids : handler'[x] = IF x \in IdsOf(i) THEN 0 ELSE handler[x]
      /\ refs' = IF refs = 0 THEN 0 ELSE refs - 1
  BY <1>0, <1>i, <1>r, RemoveEffect
<1>2. \A q \in Procs \ {p} : proc'[q] = proc[q]
  BY <1>1 DEF Local, ProcStep
<1>3. calm' = calm /\ proc'[p].pc = "idle"
  BY <1>1, IdleOK
<1>4. Registered(i) /\ inst[i].room = r /\ i # 0
  BY <1>0, <1>1, <1>i, <1>r DEF IdsPart, IdsInv
<1>5. /\ \A q \in Rooms : hosted[q] = i => q = r
      /\ \A q \in Procs : Nascent(q) => proc[q].inst # i
  BY <1>0, <1>1, <1>4, <1>i DEF IdsPart, IdsInv
<1>6. \A x \in Ids : (handler[x] = i <=> x \in IdsOf(i)) /\ handler'[x] # i
  BY <1>0, <1>1, <1>4 DEF IdsPart, IdsInv, Registered
<1>7. /\ \A q \in Rooms : hosted[q] # 0 => hosted[q] \in Built
      /\ \A x \in Ids : handler[x] # 0 => handler[x] \in Built
      /\ \A q \in Procs : Nascent(q) => proc[q].inst \in Built
  BY <1>0 DEF TypeInv, Nascent, InstOK, FieldsOK
<1>8. \A j \in Built : (j # i /\ Registered(j)) => Registered(j)'
  <2> SUFFICES ASSUME NEW j \in Built, j # i, Registered(j)
               PROVE  Registered(j)'
    OBVIOUS
  <2>1. inst'[j] = inst[j] /\ IdsOf(j)' = IdsOf(j)
    BY <1>1 DEF IdsOf
  <2>2. \A x \in IdsOf(j) : x \in Ids /\ handler[x] = j /\ handler'[x] = j
    BY <1>1, <1>6 DEF Registered
  <2> QED
    BY <2>1, <2>2 DEF Registered
<1>9. \A q \in Procs : Nascent(q)' => q # p /\ Nascent(q) /\ proc'[q] = proc[q]
  BY <1>2, <1>3 DEF Nascent
<1>10. \A j : Starting(j)' <=> Starting(j)
  BY <1>1, <1>2, <1>3 DEF Starting
<1>11. (\A q \in Rooms : hosted[q] # 0 => inst[hosted[q]].room = q /\ Registered(hosted[q]))'
  <2> SUFFICES ASSUME NEW q \in Rooms, hosted'[q] # 0
               PROVE  (inst[hosted[q]].room = q /\ Registered(hosted[q]))'
    OBVIOUS
  <2>1. q # r /\ hosted'[q] = hosted[q] /\ hosted[q] \in Built /\ hosted[q] # i
    BY <1>1, <1>5, <1>7
  <2>2. PICK j : j = hosted[q]
    OBVIOUS
  <2>3. inst[j].room = q /\ Registered(j) /\ j \in Built /\ j # i
    BY <1>0, <2>1, <2>2 DEF IdsPart, IdsInv
  <2>4. inst'[j].room = q /\ Registered(j)'
    BY <1>1, <1>8, <2>3
  <2> QED
    BY <2>1, <2>2, <2>4 DEF Registered, IdsOf
<1>12. (\A x \in Ids : handler[x] # 0 => x \in IdsOf(handler[x]) /\ inst[handler[x]].polling)'
  <2> SUFFICES ASSUME NEW x \in Ids, handler'[x] # 0
               PROVE  x \in {inst'[handler'[x]].ids[1], inst'[handler'[x]].ids[2]} /\ inst'[handler'[x]].polling
    BY DEF IdsOf
  <2>1. handler'[x] = handler[x] /\ handler[x] \in Built /\ handler[x] # i
    BY <1>1, <1>6, <1>7
  <2> QED
    BY <1>0, <1>1, <2>1 DEF IdsPart, IdsInv, IdsOf
<1>13. (\A q \in Procs : At(q, "allocate") => /\ inst[proc[q].inst].polling
                                              /\ \A x \in Ids : handler[x] # proc[q].inst)'
  <2> SUFFICES ASSUME NEW q \in Procs, proc'[q].pc = "allocate"
               PROVE  inst'[proc'[q].inst].polling /\ \A x \in Ids : handler'[x] # proc'[q].inst
    BY DEF At
  <2>1. q # p /\ proc'[q] = proc[q] /\ Nascent(q) /\ proc[q].inst \in Built /\ proc[q].inst # i /\ proc[q].inst # 0
    BY <1>0, <1>2, <1>3, <1>5, <1>7, Numbered DEF Nascent
  <2>2. inst[proc[q].inst].polling /\ \A x \in Ids : handler[x] # proc[q].inst
    BY <1>0, <2>1 DEF IdsPart, IdsInv, At
  <2> QED
    BY <1>1, <2>1, <2>2
<1>14. (\A q \in Procs : At(q, "add") => Registered(proc[q].inst))'
  <2> SUFFICES ASSUME NEW q \in Procs, proc'[q].pc = "add"
               PROVE  Registered(proc[q].inst)'
    BY DEF At
  <2>1. q # p /\ proc'[q] = proc[q] /\ Nascent(q)
    BY <1>2, <1>3 DEF Nascent
  <2>2. PICK j : j = proc[q].inst
    OBVIOUS
  <2>3. Registered(j) /\ j \in Built /\ j # i
    BY <1>0, <1>5, <1>7, <2>1, <2>2 DEF IdsPart, IdsInv, At
  <2>4. Registered(j)'
    BY <1>8, <2>3
  <2> QED
    BY <2>1, <2>2, <2>4 DEF Registered, IdsOf
<1>15. (\A q \in Procs : Nascent(q) =>
       /\ \A s \in Rooms : hosted[s] # proc[q].inst
       /\ \A u \in Procs \ {q} : Nascent(u) => proc[u].inst # proc[q].inst)'
  <2> SUFFICES ASSUME NEW q \in Procs, Nascent(q)'
               PROVE  /\ \A s \in Rooms : hosted'[s] # proc'[q].inst
                      /\ \A u \in Procs \ {q} : Nascent(u)' => proc'[u].inst # proc'[q].inst
    OBVIOUS
  <2>1. Nascent(q) /\ proc'[q] = proc[q] /\ proc[q].inst # 0
    BY <1>0, <1>7, <1>9, Numbered
  <2> QED
    BY <1>0, <1>1, <1>9, <2>1 DEF IdsPart, IdsInv
<1>16. CalmLeftovers'
  <2> SUFFICES ASSUME NEW j \in Built, inst'[j].room \in calm, ~Starting(j)', hosted'[inst'[j].room] # j
               PROVE  ~inst'[j].polling
    BY <1>1, <1>3 DEF CalmLeftovers
  <2>1. CASE j = i
    BY <1>1, <2>1
  <2>2. CASE j # i
    <3>1. ~Starting(j) /\ inst'[j] = inst[j]
      BY <1>1, <1>10, <2>2
    <3>2. hosted[inst[j].room] # j
      <4>1. inst[j].room \in Rooms
        BY <1>0, ObjectFields DEF TypeInv
      <4> QED
        BY <1>1, <1>i, <2>2, <3>1, <4>1
    <3> QED
      BY <1>0, <3>1, <3>2 DEF IdsPart, CalmLeftovers
  <2> QED
    BY <2>1, <2>2
<1>17. RefsExact'
  <2>1. inst[i].polling /\ inst[i].ids[1] # inst[i].ids[2]
    BY <1>4 DEF Registered
  <2>2. inst[i].ids # <<0, 0>>
    BY <2>1
  <2>3. Holding' = Holding \ {i} /\ i \in Holding
    BY <1>1, <2>1, <2>2 DEF Holding
  <2>4. IsFiniteSet(Holding) /\ Cardinality(Holding) \in Nat
    BY <1>0, HoldingFinite
  <2>5. Cardinality(Holding \ {i}) = Cardinality(Holding) - 1
    BY <2>3, <2>4, FS_RemoveElement
  <2>6. Cardinality(Holding \ {i}) \in Nat
    BY <2>4, FS_RemoveElement, FS_CardinalityType, FS_Subset
  <2>7. refs = Cardinality(Holding)
    BY <1>0 DEF IdsPart, RefsExact
  <2>8. refs' = refs - 1
    BY <1>1, <2>4, <2>5, <2>6, <2>7
  <2> QED
    BY <2>3, <2>5, <2>7, <2>8 DEF RefsExact
<1>18. HostedAsDue'
  <2> SUFFICES ASSUME NEW q \in Procs, proc'[q].pc # "idle", proc'[q].room \in calm
               PROVE  /\ proc'[q].pc \in NotYet => hosted'[proc'[q].room] = 0
                      /\ proc'[q].pc \in Placed => hosted'[proc'[q].room] = proc'[q].inst
                      /\ proc'[q].pc = "disable" => hosted'[proc'[q].room] # 0
    BY <1>3 DEF HostedAsDue, Placed
  <2>1. q # p /\ proc'[q] = proc[q]
    BY <1>2, <1>3
  <2>2. proc[q].room # r
    <3> SUFFICES ASSUME proc[q].room = r
                 PROVE  FALSE
      OBVIOUS
    <3>1. Active(q, proc[p].room) /\ proc[p].room \in calm
      BY <1>r, <2>1 DEF Active
    <3> QED
      BY <1>0, <1>1, <2>1, <3>1, Alone DEF EditPcs
  <2>3. proc[q].room \in Rooms
    BY <1>0, <2>1, ProcTyped
  <2> QED
    BY <1>0, <1>1, <2>1, <2>2, <2>3 DEF HostedAsDue, Placed
<1> QED
  BY <1>11, <1>12, <1>13, <1>14, <1>15, <1>16, <1>17, <1>18 DEF IdsPart, IdsInv

(* If the room is not hosted any more nothing is removed.                  *)
LEMMA RemoveNothing ==
  ASSUME TypeInv, NEW p \in Procs, RemoveRoom(p), hosted[proc[p].room] = 0
  PROVE  Simple(p) /\ UNCHANGED <<db, inst, calm, failed>> /\ proc'[p] = Idle /\ proc[p].pc = "remove"
<1>1. /\ proc[p].pc = "remove" /\ End(p)
      /\ UNCHANGED <<db, hosted, handler, inst, refs, boot, calm, failed, made>>
  BY DEF RemoveRoom, At
<1>2. Quietly(p)
  BY <1>1, QuietlyLooking
<1> QED
  BY <1>1, <1>2, EndSimple

LEMMA RemoveKeeps ==
  ASSUME CoreInv, NEW p \in Procs, RemoveRoom(p)
  PROVE  CoreInv'
<1>0. TypeInv /\ IdsPart
  BY DEF CoreInv
<1>1. CASE hosted[proc[p].room] = 0
  BY <1>0, <1>1, RemoveNothing, SimpleKeeps
<1>2. CASE hosted[proc[p].room] # 0
  <2>1. Local(p) /\ TypeInv'
    BY <1>0, <1>2, RemoveEffect
  <2> QED
    BY <1>2, <2>1, LocalBoot, LocalApart, RemoveIds DEF CoreInv
<1> QED
  BY <1>1, <1>2

-----------------------------------------------------------------------------
(* The row of a hosted room                                                *)

RowStep(p) ==
  (proc[p].room \in calm' /\ hosted'[proc[p].room] # 0) =>
    \/ db'[proc[p].room].row # None
    \/ proc'[p].pc \in {"save", "remove"}
    \/ /\ db'[proc[p].room].row = db[proc[p].room].row /\ proc[p].pc \notin {"save", "remove"}
       /\ hosted'[proc[p].room] = hosted[proc[p].room]

LEMMA RowStepKeeps ==
  ASSUME TypeInv, RowKept, NEW p \in Procs, Local(p), RowStep(p)
  PROVE  RowKept'
<1>1. /\ \A q \in Procs \ {p} : proc'[q] = proc[q]
      /\ proc'[p] = Idle \/ (proc'[p].pc # "idle" /\ proc'[p].room = proc[p].room)
      /\ proc[p].pc # "idle" /\ calm' \subseteq calm
      /\ \A r \in Rooms : r # proc[p].room => db'[r] = db[r] /\ hosted'[r] = hosted[r]
  BY DEF Local, ProcStep
<1>2. calm \subseteq Rooms
  BY DEF TypeInv
<1> SUFFICES ASSUME NEW r \in calm', hosted'[r] # 0, db'[r].row = None
             PROVE  \E q \in Procs : Active(q, r)' /\ proc'[q].pc \in {"save", "remove"}
  BY DEF RowKept
<1>3. CASE r # proc[p].room
  <2>1. PICK q \in Procs : Active(q, r) /\ proc[q].pc \in {"save", "remove"}
    BY <1>1, <1>2, <1>3 DEF RowKept
  <2>2. q # p
    BY <1>3, <2>1 DEF Active
  <2> QED
    BY <1>1, <2>1, <2>2 DEF Active
<1>4. CASE r = proc[p].room
  <2>1. CASE proc'[p].pc \in {"save", "remove"}
    BY <1>1, <1>4, <2>1, IdleOK DEF Active
  <2>2. CASE db'[r].row = db[r].row /\ proc[p].pc \notin {"save", "remove"} /\ hosted[r] # 0
    <3>1. PICK q \in Procs : Active(q, r) /\ proc[q].pc \in {"save", "remove"}
      BY <1>1, <2>2 DEF RowKept
    <3> QED
      BY <1>1, <2>2, <3>1 DEF Active
  <2> QED
    BY <1>4, <2>1, <2>2 DEF RowStep
<1> QED
  BY <1>3, <1>4

(* Every step of a request leaves a hosted room's row there, unless it     *)
(* deletes it and goes on to remove the room.                              *)
LEMMA StepRows ==
  ASSUME TypeInv, IdsPart, NEW p \in Procs, Step(p)
  PROVE  RowStep(p)
<1> DEFINE r == proc[p].room
<1>1. CASE /\ UNCHANGED <<db, hosted>> /\ proc[p].pc \notin {"save", "remove"}
  BY <1>1 DEF RowStep
<1>2. CASE NewGet(p) \/ StartGet(p) \/ StartFind(p) \/ StartPort(p)
  BY <1>1, <1>2 DEF NewGet, StartGet, StartFind, StartPort, At
<1>3. CASE NewBuild(p) \/ NewAllocate(p) \/ Restore(p) \/ Upload(p) \/ EditMemory(p)
  BY <1>1, <1>3 DEF NewBuild, NewAllocate, Restore, Upload, EditMemory, At
<1>4. CASE Fails(p)
  BY <1>1, <1>4 DEF Fails, At
<1>5. CASE StoreFails(p) \/ UpdateFails(p) \/ RestoreFails(p)
  BY <1>5 DEF StoreFails, UpdateFails, RestoreFails, RowStep
<1>6. CASE NewAdd(p)
  <2>1. UNCHANGED db /\ proc[p].pc = "add" /\ (proc'[p].pc = "save" \/ hosted' = hosted)
    BY <1>6, NewAddEffect
  <2> QED
    BY <2>1 DEF RowStep
<1>7. CASE NewSave(p)
  <2>1. proc[p].pc = "save" /\ FieldsOK(proc[p]) /\ InstOK(proc[p]) /\ db[r] \in Stored
    BY <1>7, ProcTyped DEF NewSave, At
  <2>2. inst[proc[p].inst] \in Object /\ db[r].row \in Row \cup {None}
    BY <2>1, StoredFields DEF TypeInv, FieldsOK, InstOK
  <2>3. SavedRow(inst[proc[p].inst], db[r].row) \in Row
    BY <2>2, SavedRowOK
  <2>4. db'[r].row = SavedRow(inst[proc[p].inst], db[r].row)
    <3>1. db'[r] = [db[r] EXCEPT !.row = SavedRow(inst[proc[p].inst], db[r].row)]
      BY <1>7, NewSaveSimple
    <3> QED
      BY <2>1, <3>1 DEF Stored
  <2> QED
    BY <2>3, <2>4, NoneAssumption DEF RowStep
<1>8. CASE StartUpdate(p)
  <2>1. proc[p].pc = "update" /\ db[r] \in Stored /\ hosted' = hosted
    BY <1>8, ProcTyped DEF StartUpdate, At
  <2>2. KeptOver(db[r], proc[p].want, proc[p].row.cfg) \in [Switches -> SUBSET Slots]
    BY <2>1, StoredFields DEF KeptOver
  <2>3. db'[r] = [db[r] EXCEPT !.over = KeptOver(db[r], proc[p].want, proc[p].row.cfg)]
    BY <1>8, StartUpdateSimple
  <2>4. db'[r].row = db[r].row
    BY <2>1, <2>2, <2>3, StoredFields
  <2> QED
    BY <2>1, <2>4 DEF RowStep
<1>9. ASSUME NEW b \in BOOLEAN, SetDisabled(r, b), proc[p].pc \notin {"idle", "save", "remove"}, hosted' = hosted
      PROVE  RowStep(p)
  <2>1. db[r] \in Stored /\ r \in Rooms
    BY <1>9, ProcTyped
  <2>2. db' = [db EXCEPT ![r] = WithDisabled(db[r], b)] /\ WithDisabled(db[r], b) \in Stored
    BY <1>9, <2>1, SetDisabledOK
  <2>3. db'[r] = WithDisabled(db[r], b)
    BY <2>1, <2>2, RowsOf
  <2>4. CASE db[r].row = None
    <3>1. db'[r].row = None
      BY <2>1, <2>3, <2>4, StoredFields DEF WithDisabled
    <3> QED
      BY <1>9, <2>4, <3>1 DEF RowStep
  <2>5. CASE db[r].row # None
    <3>1. [db[r].row EXCEPT !.disabled = b] \in Row
      BY <1>9, <2>1, <2>5, StoredFields, RowFields
    <3>2. db'[r].row = [db[r].row EXCEPT !.disabled = b]
      BY <2>1, <2>3, <2>5, <3>1, StoredFields DEF WithDisabled
    <3> QED
      BY <3>1, <3>2, NoneAssumption DEF RowStep
  <2> QED
    BY <2>4, <2>5
<1>10. CASE StartEnable(p)
  <2>1. hosted' = hosted /\ proc[p].pc = "enable" /\ (SetDisabled(r, FALSE) \/ UNCHANGED db)
    BY <1>10 DEF StartEnable, At
  <2> QED
    BY <1>1, <1>9, <2>1
<1>11. CASE Disable(p)
  BY <1>9, <1>11 DEF Disable, At
<1>12. CASE DeleteRows(p)
  <2>1. hosted' = hosted /\ proc[p].pc \in DeletePcs /\ proc[p].pc \notin {"idle", "save", "remove"}
    BY <1>12, DeletePcsApart DEF DeleteRows
  <2>2. db'[r] = WithoutTable(db[r], proc[p].pc) /\ db[r] \in Stored
    BY <1>12, <2>1, DeleteRowsSimple, ProcTyped
  <2>3. db'[r].row = db[r].row
    <3>1. WithoutTable(db[r], proc[p].pc).row = db[r].row
      BY <2>2, WithoutTableOK
    <3> QED
      BY <2>2, <3>1
  <2> QED
    BY <2>1, <2>3 DEF RowStep
<1>13. CASE DeleteRow(p)
  BY <1>13, DeleteRowSimple DEF RowStep
<1>14. CASE RemoveRoom(p)
  <2>1. r \in Rooms
    BY <1>14, ProcTyped DEF RemoveRoom, At
  <2>2. hosted'[r] = 0
    BY <1>14, <2>1 DEF RemoveRoom, TypeInv
  <2> QED
    BY <2>2 DEF RowStep
<1>15. CASE EditStore(p)
  <2>1. hosted' = hosted /\ proc[p].pc = "store" /\ db[r].row \in Row \cup {None}
    BY <1>15, ProcTyped, StoredFields DEF EditStore, At
  <2>2. StoredAs(db'[r], db[r], inst[proc[p].inst], proc[p].edit) /\ proc[p].edit \in Edit
    BY <1>15, EditStoreSimple
  <2>3. db'[r].row = IF proc[p].edit.kind = "prob" /\ db[r].row # None
                     THEN [db[r].row EXCEPT !.prob = proc[p].edit.v] ELSE db[r].row
    BY <2>2 DEF StoredAs
  <2>4. CASE proc[p].edit.kind = "prob" /\ db[r].row # None
    <3>1. db[r].row \in Row /\ proc[p].edit.v \in {1, 2}
      BY <2>1, <2>2, <2>4, EditFields
    <3>2. [db[r].row EXCEPT !.prob = proc[p].edit.v] \in Row
      BY <3>1 DEF Row
    <3> QED
      BY <2>3, <2>4, <3>2, NoneAssumption DEF RowStep
  <2> QED
    BY <2>1, <2>3, <2>4 DEF RowStep
<1> QED
  BY <1>2, <1>3, <1>4, <1>5, <1>6, <1>7, <1>8, <1>10, <1>11, <1>12, <1>13, <1>14, <1>15 DEF Step

-----------------------------------------------------------------------------
(* New requests, crashes, and the whole next-state relation                *)

LEMMA UnrelatedSymmetric ==
  ASSUME NEW e, NEW f, Unrelated(e, f)
  PROVE  Unrelated(f, e)
BY DEF Unrelated

(* What the arrival of a request changes                                   *)
LEMMA BeginEffect ==
  ASSUME TypeInv, NEW p \in Procs, NEW r \in Rooms, NEW odd, NEW rec \in Proc,
         FieldsOK(rec), Begin(p, r, odd, rec)
  PROVE  /\ Serving /\ proc[p] = Idle /\ proc' \in [Procs -> Proc] /\ proc'[p] = rec
         /\ \A q \in Procs \ {p} : proc'[q] = proc[q]
         /\ made' \in Made /\ calm' \subseteq calm /\ \A s \in calm : s # r => s \in calm'
         /\ r \in calm' => ~odd /\ \A q \in Procs : Active(q, r) => Unrelated(proc[q].edit, rec.edit)
<1>1. /\ Serving /\ proc[p].pc = "idle" /\ made' = [made EXCEPT !.ops = @ + 1]
      /\ proc' = [proc EXCEPT ![p] = rec]
      /\ calm' = IF odd \/ \E q \in Busy(r) : ~Unrelated(proc[q].edit, rec.edit) THEN calm \ {r} ELSE calm
  BY DEF Begin, At
<1>2. proc[p] = Idle /\ proc \in [Procs -> Proc] /\ made \in Made
  BY <1>1 DEF TypeInv, FieldsOK
<1>3. made' \in Made
  BY <1>1, <1>2 DEF Made
<1>4. r \in calm' => ~odd /\ \A q \in Procs : Active(q, r) => Unrelated(proc[q].edit, rec.edit)
  BY <1>1 DEF Busy, Active
<1> QED
  BY <1>1, <1>2, <1>3, <1>4

Arrivals == {"start", "upload", "disable", "deleteFeed", "memory"}

LEMMA BeginKeeps ==
  ASSUME CoreInv, RowKept, NEW p \in Procs, p # "boot", NEW r \in Rooms, NEW odd, NEW rec \in Proc,
         FieldsOK(rec), Begin(p, r, odd, rec),
         UNCHANGED <<db, hosted, handler, inst, refs, boot, failed>>,
         rec.room = r, rec.pc \in Arrivals,
         rec.inst # 0 => rec.inst \in Built /\ inst[rec.inst].room = r,
         r \in calm' => /\ rec.pc = "upload" => hosted[r] = 0
                        /\ rec.pc = "memory" => hosted[r] = rec.inst
                        /\ rec.pc = "disable" => hosted[r] # 0
  PROVE  CoreInv' /\ RowKept'
<1>0. TypeInv /\ BootAlone /\ Apart /\ HostedAsDue /\ IdsPart
  BY DEF CoreInv
<1>1. /\ Serving /\ proc[p] = Idle /\ proc' \in [Procs -> Proc] /\ proc'[p] = rec
      /\ \A q \in Procs \ {p} : proc'[q] = proc[q]
      /\ made' \in Made /\ calm' \subseteq calm
      /\ r \in calm' => \A q \in Procs : Active(q, r) => Unrelated(proc[q].edit, rec.edit)
  BY <1>0, BeginEffect
<1>2. Built' = Built /\ inst' = inst /\ handler' = handler /\ hosted' = hosted /\ refs' = refs /\ db' = db
  BY DEF Built
<1>3. TypeInv'
  <2>1. \A q \in Procs : FieldsOK(proc'[q])
    BY <1>0, <1>1 DEF TypeInv
  <2>2. \A q \in Procs : proc'[q].inst # 0 => proc'[q].inst \in Built /\ inst[proc'[q].inst].room = proc'[q].room
    BY <1>0, <1>1 DEF TypeInv, InstOK
  <2>3. \A q \in Procs : FieldsOK(proc[q])' /\ InstOK(proc[q])'
    BY <1>2, <2>1, <2>2 DEF InstOK, FieldsOK
  <2> QED
    BY <1>0, <1>1, <1>2, <2>3 DEF TypeInv
<1>4. BootAlone'
  <2>1. "boot" \in Procs /\ proc'["boot"] = proc["boot"] /\ Serving'
    BY <1>1 DEF Procs, Serving
  <2> QED
    BY <1>0, <1>1, <2>1 DEF BootAlone
<1>5. Apart'
  <2> SUFFICES ASSUME NEW s \in calm', NEW u \in Procs, NEW v \in Procs, u # v, Active(u, s)', Active(v, s)'
               PROVE  Unrelated(proc'[u].edit, proc'[v].edit)
    BY DEF Apart, Unrelated
  <2>1. CASE u # p /\ v # p
    <3>1. proc'[u] = proc[u] /\ proc'[v] = proc[v] /\ Active(u, s) /\ Active(v, s)
      BY <1>1, <2>1 DEF Active
    <3> QED
      BY <1>0, <1>1, <3>1 DEF Apart
  <2>2. CASE u = p
    <3>1. s = r /\ proc'[v] = proc[v] /\ Active(v, r)
      BY <1>1, <2>2 DEF Active
    <3> QED
      BY <1>1, <2>2, <3>1, UnrelatedSymmetric
  <2>3. CASE v = p
    <3>1. s = r /\ proc'[u] = proc[u] /\ Active(u, r)
      BY <1>1, <2>3 DEF Active
    <3> QED
      BY <1>1, <2>3, <3>1
  <2> QED
    BY <2>1, <2>2, <2>3
<1>6. HostedAsDue'
  <2> SUFFICES ASSUME NEW q \in Procs, proc'[q].pc # "idle", proc'[q].room \in calm'
               PROVE  /\ proc'[q].pc \in NotYet => hosted[proc'[q].room] = 0
                      /\ proc'[q].pc \in Placed => hosted[proc'[q].room] = proc'[q].inst
                      /\ proc'[q].pc = "disable" => hosted[proc'[q].room] # 0
    BY <1>2 DEF HostedAsDue, Placed
  <2>1. CASE q = p
    BY <1>1, <2>1 DEF Arrivals, NotYet, Placed
  <2>2. CASE q # p
    BY <1>0, <1>1, <2>2 DEF HostedAsDue, Placed
  <2> QED
    BY <2>1, <2>2
<1>7. /\ \A q \in Procs : Nascent(q)' <=> Nascent(q)
      /\ \A q \in Procs : Nascent(q) => proc'[q] = proc[q]
      /\ \A i : Starting(i)' <=> Starting(i)
      /\ \A i : Registered(i)' <=> Registered(i)
  <2>1. proc[p].pc \notin {"allocate", "add"} /\ proc'[p].pc \notin {"allocate", "add"}
    BY <1>1, IdleOK DEF Arrivals
  <2> QED
    BY <1>1, <1>2, <2>1 DEF Nascent, Starting, Registered, IdsOf
<1>8. IdsPart'
  <2>1. CalmLeftovers'
    BY <1>0, <1>1, <1>2, <1>7 DEF IdsPart, CalmLeftovers
  <2>2. RefsExact'
    <3>1. Holding' = Holding
      BY <1>2 DEF Holding
    <3> QED
      BY <1>0, <1>2, <3>1 DEF IdsPart, RefsExact
  <2>3. (\A q \in Rooms : hosted[q] # 0 => inst[hosted[q]].room = q /\ Registered(hosted[q]))'
    BY <1>0, <1>2 DEF IdsPart, IdsInv, Registered, IdsOf
  <2>4. (\A x \in Ids : handler[x] # 0 => x \in IdsOf(handler[x]) /\ inst[handler[x]].polling)'
    BY <1>0, <1>2 DEF IdsPart, IdsInv, IdsOf
  <2>5. (\A q \in Procs : At(q, "allocate") => /\ inst[proc[q].inst].polling
                                               /\ \A x \in Ids : handler[x] # proc[q].inst)'
    BY <1>0, <1>2, <1>7 DEF IdsPart, IdsInv, At, Nascent
  <2>6. (\A q \in Procs : At(q, "add") => Registered(proc[q].inst))'
    <3> SUFFICES ASSUME NEW q \in Procs, proc'[q].pc = "add"
                 PROVE  Registered(proc'[q].inst)
      BY <1>2 DEF At, Registered, IdsOf
    <3> QED
      BY <1>0, <1>7 DEF IdsPart, IdsInv, At, Nascent
  <2>7. (\A q \in Procs : Nascent(q) =>
         /\ \A s \in Rooms : hosted[s] # proc[q].inst
         /\ \A u \in Procs \ {q} : Nascent(u) => proc[u].inst # proc[q].inst)'
    BY <1>0, <1>2, <1>7 DEF IdsPart, IdsInv
  <2> QED
    BY <2>1, <2>2, <2>3, <2>4, <2>5, <2>6, <2>7 DEF IdsPart, IdsInv
<1>9. RowKept'
  <2> SUFFICES ASSUME NEW s \in calm', hosted[s] # 0, db[s].row = None
               PROVE  \E q \in Procs : Active(q, s)' /\ proc'[q].pc \in {"save", "remove"}
    BY <1>2 DEF RowKept
  <2>1. PICK q \in Procs : Active(q, s) /\ proc[q].pc \in {"save", "remove"}
    BY <1>1 DEF RowKept
  <2> QED
    BY <1>1, <2>1, IdleOK DEF Active
<1> QED
  BY <1>3, <1>4, <1>5, <1>6, <1>8, <1>9 DEF CoreInv

(* The requests that may arrive                                            *)
HostRequest(op, r, want) == [Idle EXCEPT !.pc = op, !.op = op, !.room = r, !.want = want]
DisableRequest(op, r) == [Idle EXCEPT !.pc = "disable", !.op = op, !.room = r]
DeleteRequest(r) == [Idle EXCEPT !.pc = "deleteFeed", !.op = "delete", !.room = r]
EditRequest(r, i, e) ==
  [Idle EXCEPT !.pc = "memory", !.op = "edit", !.room = r, !.inst = i, !.edit = e]

LEMMA HostRequestOK ==
  ASSUME NEW r \in Rooms, NEW want \in Config, NEW op \in {"start", "upload"}
  PROVE  LET t == HostRequest(op, r, want) IN t \in Proc /\ FieldsOK(t) /\ t.pc = op /\ t.op = op /\ t.room = r /\ t.inst = 0 /\ t.edit = None /\ t.want = want
<1> DEFINE t == HostRequest(op, r, want)
<1>0. /\ Idle \in Proc /\ Idle.pc = "idle" /\ Idle.inst = 0 /\ Idle.room = None
      /\ Idle.edit = None /\ Idle.row = None /\ Idle.op = "none"
  BY IdleOK
<1>1. t \in Proc /\ t.pc = op /\ t.op = op /\ t.room = r /\ t.inst = 0 /\ t.edit = None /\ t.want = want
  BY <1>0 DEF Proc, Pcs, StartPcs, HostRequest
<1> HIDE DEF t
<1>3. FieldsOK(t)
  BY <1>0, <1>1 DEF FieldsOK, NewPcs, StartPcs, EditPcs, DeletePcs
<1> QED
  BY <1>1, <1>3 DEF t

LEMMA DisableRequestOK ==
  ASSUME NEW r \in Rooms, NEW op \in {"stop", "kill"}
  PROVE  LET t == DisableRequest(op, r) IN t \in Proc /\ FieldsOK(t) /\ t.pc = "disable" /\ t.op = op /\ t.room = r /\ t.inst = 0 /\ t.edit = None
<1> DEFINE t == DisableRequest(op, r)
<1>0. /\ Idle \in Proc /\ Idle.pc = "idle" /\ Idle.inst = 0 /\ Idle.room = None
      /\ Idle.edit = None /\ Idle.row = None /\ Idle.op = "none"
  BY IdleOK
<1>1. t \in Proc /\ t.pc = "disable" /\ t.op = op /\ t.room = r /\ t.inst = 0 /\ t.edit = None
  BY <1>0 DEF Proc, Pcs, DisableRequest
<1> HIDE DEF t
<1>3. FieldsOK(t)
  BY <1>0, <1>1 DEF FieldsOK, NewPcs, StartPcs, EditPcs, DeletePcs
<1> QED
  BY <1>1, <1>3 DEF t

LEMMA DeleteRequestOK ==
  ASSUME NEW r \in Rooms
  PROVE  LET t == DeleteRequest(r) IN t \in Proc /\ FieldsOK(t) /\ t.pc = "deleteFeed" /\ t.op = "delete" /\ t.room = r /\ t.inst = 0 /\ t.edit = None
<1> DEFINE t == DeleteRequest(r)
<1>0. /\ Idle \in Proc /\ Idle.pc = "idle" /\ Idle.inst = 0 /\ Idle.room = None
      /\ Idle.edit = None /\ Idle.row = None /\ Idle.op = "none"
  BY IdleOK
<1>1. t \in Proc /\ t.pc = "deleteFeed" /\ t.op = "delete" /\ t.room = r /\ t.inst = 0 /\ t.edit = None
  BY <1>0 DEF Proc, Pcs, DeleteRequest, DeletePcs
<1> HIDE DEF t
<1>3. FieldsOK(t)
  BY <1>0, <1>1 DEF FieldsOK, NewPcs, StartPcs, EditPcs
<1> QED
  BY <1>1, <1>3 DEF t

LEMMA EditRequestOK ==
  ASSUME NEW r \in Rooms, NEW i \in Insts, NEW e \in Edit
  PROVE  LET t == EditRequest(r, i, e) IN t \in Proc /\ FieldsOK(t) /\ t.pc = "memory" /\ t.op = "edit" /\ t.room = r /\ t.inst = i /\ t.edit = e
<1> DEFINE t == EditRequest(r, i, e)
<1>0. /\ Idle \in Proc /\ Idle.pc = "idle" /\ Idle.inst = 0 /\ Idle.room = None
      /\ Idle.edit = None /\ Idle.row = None /\ Idle.op = "none"
  BY IdleOK
<1>1. t \in Proc /\ t.pc = "memory" /\ t.op = "edit" /\ t.room = r /\ t.inst = i /\ t.edit = e
  BY <1>0 DEF Proc, Pcs, EditPcs, EditRequest
<1> HIDE DEF t
<1>2. i # 0 /\ e # None
  BY NoneAssumption, BoundsAssumption DEF Insts
<1>3. FieldsOK(t)
  BY <1>0, <1>1, <1>2 DEF FieldsOK, NewPcs, StartPcs, EditPcs, DeletePcs
<1> QED
  BY <1>1, <1>3 DEF t

LEMMA HostKeeps ==
  ASSUME CoreInv, RowKept, NEW p \in Requests, NEW r \in Rooms, NEW want \in Config, Host(p, r, want)
  PROVE  CoreInv' /\ RowKept'
<1>0. TypeInv /\ p \in Procs /\ p # "boot"
  BY ProcsAssumption DEF CoreInv, Procs
<1>1. PICK there \in FetchApxRoomInfo(r) :
        Begin(p, r, there # RoomStatus(r), HostRequest(IF there THEN "start" ELSE "upload", r, want))
  BY DEF Host, HostRequest
<1> DEFINE op == IF there THEN "start" ELSE "upload"
           rec == HostRequest(op, r, want)
           odd == there # RoomStatus(r)
<1>2. rec \in Proc /\ FieldsOK(rec) /\ rec.pc = op /\ rec.room = r /\ rec.inst = 0 /\ rec.edit = None
  BY HostRequestOK
<1>3. UNCHANGED <<db, hosted, handler, inst, refs, boot, failed>>
  BY DEF Host
<1>4. Begin(p, r, odd, rec)
  BY <1>1
<1> HIDE DEF rec, odd
<1>5. r \in calm' => ~odd /\ \A q \in Procs : Active(q, r) => Unrelated(proc[q].edit, rec.edit)
  BY <1>0, <1>2, <1>4, BeginEffect
<1>6. calm' \subseteq calm
  BY <1>0, <1>2, <1>4, BeginEffect
<1>7. r \in calm' => (rec.pc = "upload" => hosted[r] = 0)
  <2> SUFFICES ASSUME r \in calm', rec.pc = "upload"
               PROVE  hosted[r] = 0
    OBVIOUS
  <2>1. ~there
    BY <1>2
  <2>2. db[r].row = None
    BY <1>1, <1>5, <2>1 DEF odd, RoomStatus, FetchApxRoomInfo
  <2>3. \A q \in Procs : ~Active(q, r)
    BY <1>2, <1>5 DEF Unrelated
  <2> QED
    BY <1>6, <2>2, <2>3 DEF RowKept
<1>8. rec.pc \in Arrivals /\ rec.pc \notin {"memory", "disable"}
  BY <1>2 DEF Arrivals
<1> QED
  BY <1>0, <1>2, <1>3, <1>4, <1>7, <1>8, BeginKeeps

LEMMA StopKeeps ==
  ASSUME CoreInv, RowKept, NEW p \in Procs \ {"boot"}, NEW r \in Rooms, NEW op \in {"stop", "kill"},
         hosted[r] # 0, Begin(p, r, FALSE, DisableRequest(op, r)),
         UNCHANGED <<db, hosted, handler, inst, refs, boot, failed>>
  PROVE  CoreInv' /\ RowKept'
<1> DEFINE rec == DisableRequest(op, r)
<1>1. rec \in Proc /\ FieldsOK(rec) /\ rec.pc = "disable" /\ rec.room = r /\ rec.inst = 0
  BY DisableRequestOK
<1> HIDE DEF rec
<1>2. rec.pc \in Arrivals
  BY <1>1 DEF Arrivals
<1> QED
  BY <1>1, <1>2, BeginKeeps DEF rec

LEMMA DeleteKeeps ==
  ASSUME CoreInv, RowKept, NEW p \in Procs \ {"boot"}, NEW r \in Rooms, Delete(p, r)
  PROVE  CoreInv' /\ RowKept'
<1> DEFINE rec == DeleteRequest(r)
<1>1. rec \in Proc /\ FieldsOK(rec) /\ rec.pc = "deleteFeed" /\ rec.room = r /\ rec.inst = 0
  BY DeleteRequestOK
<1>2. Begin(p, r, FALSE, rec) /\ UNCHANGED <<db, hosted, handler, inst, refs, boot, failed>>
  BY DEF Delete, DeleteRequest
<1> HIDE DEF rec
<1>3. rec.pc \in Arrivals
  BY <1>1 DEF Arrivals
<1> QED
  BY <1>1, <1>2, <1>3, BeginKeeps

LEMMA EditKeeps ==
  ASSUME CoreInv, RowKept, NEW p \in Procs \ {"boot"}, NEW i \in Built, NEW e \in Edit, NEW odd,
         NEW r \in Rooms, r = inst[i].room, hosted[r] # i => odd, Begin(p, r, odd, EditRequest(r, i, e)),
         UNCHANGED <<db, hosted, handler, inst, refs, boot, failed>>
  PROVE  CoreInv' /\ RowKept'
<1> DEFINE rec == EditRequest(r, i, e)
<1>0. TypeInv
  BY DEF CoreInv
<1>1. i \in Insts
  BY <1>0, BoundsAssumption DEF TypeInv, Insts
<1>2. rec \in Proc /\ FieldsOK(rec) /\ rec.pc = "memory" /\ rec.room = r /\ rec.inst = i
  BY <1>1, EditRequestOK
<1> HIDE DEF rec
<1>3. rec.pc \in Arrivals
  BY <1>2 DEF Arrivals
<1>4. Begin(p, r, odd, rec)
  BY DEF rec
<1>5. r \in calm' => ~odd
  BY <1>0, <1>2, <1>4, BeginEffect
<1> QED
  BY <1>2, <1>3, <1>4, <1>5, BeginKeeps

LEMMA EditRoomBegins ==
  ASSUME CoreInv, NEW p \in Procs, NEW r \in Rooms, NEW e \in Edit, EditRoom(p, r, e)
  PROVE  /\ hosted[r] \in Built /\ inst[hosted[r]].room = r
         /\ Begin(p, r, FALSE, EditRequest(r, hosted[r], e))
         /\ UNCHANGED <<db, hosted, handler, inst, refs, boot, failed>>
<1>1. hosted[r] # 0 /\ Begin(p, r, FALSE, EditRequest(r, hosted[r], e))
      /\ UNCHANGED <<db, hosted, handler, inst, refs, boot, failed>>
  BY DEF EditRoom, EditRequest
<1>2. hosted[r] \in Built /\ inst[hosted[r]].room = r
  BY <1>1 DEF CoreInv, TypeInv, IdsPart, IdsInv
<1> QED
  BY <1>1, <1>2

LEMMA DeathBegins ==
  ASSUME CoreInv, NEW p \in Procs, NEW i \in Built, Death(p, i), NEW r, r = inst[i].room
  PROVE  /\ r \in Rooms /\ [kind |-> "death"] \in Edit
         /\ Begin(p, r, hosted[r] # i, EditRequest(r, i, [kind |-> "death"]))
         /\ UNCHANGED <<db, hosted, handler, inst, refs, boot, failed>>
<1>1. /\ "death" \in Edits
      /\ Begin(p, r, hosted[r] # i, EditRequest(r, i, [kind |-> "death"]))
      /\ UNCHANGED <<db, hosted, handler, inst, refs, boot, failed>>
  BY DEF Death, EditRequest
<1>2. r \in Rooms
  BY ObjectFields DEF CoreInv, TypeInv
<1>3. [kind |-> "death"] \in Edit
  BY <1>1 DEF Edit
<1> QED
  BY <1>1, <1>2, <1>3

(* When apx starts nothing is hosted and nothing runs.                     *)
LEMMA InitCore == Init => CoreInv /\ RowKept
<1> SUFFICES ASSUME Init
             PROVE  CoreInv /\ RowKept
  OBVIOUS
<1>1. /\ db = [r \in Rooms |-> NothingStored] /\ hosted = [r \in Rooms |-> 0]
      /\ handler = [x \in Ids |-> 0] /\ inst = << >> /\ refs = 0
      /\ proc = [p \in Procs |-> Idle] /\ boot = None /\ calm = Rooms /\ failed = {}
  BY DEF Init
<1>2. Built = {} /\ Built = 1 .. 0
  BY <1>1 DEF Built
<1>3. \A p \in Procs : /\ proc[p] = Idle /\ proc[p].pc = "idle" /\ FieldsOK(proc[p]) /\ InstOK(proc[p])
  BY <1>1, IdleOK DEF InstOK
<1>4. made \in Made
  <2>1. PICK t \in Taken : made = [ap |-> 0, ops |-> 0, crashes |-> 0, taken |-> t]
    BY DEF Init
  <2>2. t \in SUBSET Ids
    BY IdsAssumption DEF Ids
  <2> QED
    BY <2>1, <2>2 DEF Made
<1>5. TypeInv
  <2>1. 0 \in 0 .. MaxInst
    BY BoundsAssumption
  <2>2. proc \in [Procs -> Proc]
    BY <1>1, IdleOK
  <2>3. db \in [Rooms -> Stored]
    BY <1>1, NothingStoredOK
  <2> QED
    BY <1>1, <1>2, <1>3, <1>4, <2>1, <2>2, <2>3 DEF TypeInv
<1>6. BootAlone
  BY <1>1, <1>3, IdleOK DEF BootAlone, Serving, Procs
<1>7. Apart /\ HostedAsDue
  BY <1>3 DEF Apart, HostedAsDue, Active
<1>8. IdsInv /\ CalmLeftovers
  BY <1>1, <1>2, <1>3 DEF IdsInv, CalmLeftovers, At, Nascent
<1>9. RefsExact
  <2>1. Holding = {}
    BY <1>2 DEF Holding
  <2> QED
    BY <1>1, <2>1, FS_EmptySet DEF RefsExact
<1>10. RowKept
  BY <1>1 DEF RowKept
<1> QED
  BY <1>5, <1>6, <1>7, <1>8, <1>9, <1>10 DEF CoreInv, IdsPart

LEMMA CrashKeeps ==
  ASSUME TypeInv, Crash
  PROVE  CoreInv' /\ RowKept'
<1>1. /\ hosted' = [r \in Rooms |-> 0] /\ handler' = [x \in Ids |-> 0] /\ inst' = << >> /\ refs' = 0
      /\ proc' = [p \in Procs |-> Idle]
      /\ boot' = {r \in Rooms : db[r].row # None /\ ~db[r].row.disabled}
      /\ UNCHANGED <<db, calm, failed>> /\ made' = [made EXCEPT !.crashes = @ + 1]
  BY DEF Crash
<1>2. Built' = {} /\ Built' = 1 .. 0
  BY <1>1 DEF Built
<1>3. \A p \in Procs : proc'[p] = Idle /\ proc'[p].pc = "idle" /\ FieldsOK(proc[p])' /\ InstOK(proc[p])'
  BY <1>1, IdleOK DEF InstOK, FieldsOK
<1>4. made' \in Made
  BY <1>1 DEF Made, TypeInv
<1>5. TypeInv'
  <2>1. 0 \in 0 .. MaxInst
    BY BoundsAssumption
  <2>2. proc' \in [Procs -> Proc]
    BY <1>1, IdleOK
  <2>3. boot' \in (SUBSET Rooms) \cup {None}
    BY <1>1
  <2>4. hosted' \in [Rooms -> Built' \cup {0}] /\ handler' \in [Ids -> Built' \cup {0}]
    BY <1>1
  <2>5. \A i \in Built' : inst'[i] \in Object
    BY <1>2
  <2>6. db' \in [Rooms -> Stored] /\ calm' \subseteq Rooms /\ failed' \subseteq Rooms
    BY <1>1 DEF TypeInv
  <2> QED
    BY <1>2, <1>3, <1>4, <2>1, <2>2, <2>3, <2>4, <2>5, <2>6 DEF TypeInv
<1>6. BootAlone'
  <2>1. boot' # None
    BY <1>1, NoneAssumption
  <2>2. "boot" \in Procs
    BY DEF Procs
  <2> QED
    BY <1>1, <1>3, <2>1, <2>2, IdleOK DEF BootAlone, Serving
<1>7. Apart' /\ HostedAsDue'
  BY <1>3 DEF Apart, HostedAsDue, Active
<1>8. IdsInv' /\ CalmLeftovers'
  BY <1>1, <1>2, <1>3 DEF IdsInv, CalmLeftovers, At, Nascent
<1>9. RefsExact'
  <2>1. Holding' = {}
    BY <1>2 DEF Holding
  <2> QED
    BY <1>1, <2>1, FS_EmptySet DEF RefsExact
<1>10. RowKept'
  BY <1>1 DEF RowKept, TypeInv
<1> QED
  BY <1>5, <1>6, <1>7, <1>8, <1>9, <1>10 DEF CoreInv, IdsPart

(* The start of apx begins the start of one of the rooms it loaded.        *)
BootRequest(r, row) == [Idle EXCEPT !.pc = "new", !.op = "boot", !.room = r, !.row = row]

LEMMA BootRequestOK ==
  ASSUME NEW r \in Rooms, NEW row \in Row
  PROVE  LET t == BootRequest(r, row) IN
         t \in Proc /\ FieldsOK(t) /\ t.pc = "new" /\ t.op = "boot" /\ t.room = r /\ t.inst = 0 /\ t.edit = None /\ t.row = row
<1> DEFINE t == BootRequest(r, row)
<1>0. /\ Idle \in Proc /\ Idle.pc = "idle" /\ Idle.inst = 0 /\ Idle.room = None
      /\ Idle.edit = None /\ Idle.row = None /\ Idle.op = "none"
  BY IdleOK
<1>1. t \in Proc /\ t.pc = "new" /\ t.op = "boot" /\ t.room = r /\ t.inst = 0 /\ t.edit = None /\ t.row = row
  BY <1>0 DEF Proc, Pcs, NewPcs, BootRequest
<1> HIDE DEF t
<1>3. FieldsOK(t)
  BY <1>0, <1>1 DEF FieldsOK, NewPcs, StartPcs, EditPcs, DeletePcs
<1> QED
  BY <1>1, <1>3 DEF t

LEMMA BootEffect ==
  ASSUME TypeInv, BootAlone, Boot
  PROVE  /\ UNCHANGED <<db, hosted, handler, inst, refs, calm, failed, made>> /\ ~Serving
         /\ proc["boot"] = Idle /\ "boot" \in Procs /\ boot \subseteq Rooms
         /\ \/ boot = {} /\ boot' = None /\ proc' = proc
            \/ \E r \in boot : /\ boot' = boot \ {r} /\ boot' # None
                               /\ proc' = [proc EXCEPT !["boot"] = BootRequest(r, db[r].row)]
                               /\ db[r].row \in Row
<1>1. /\ UNCHANGED <<db, hosted, handler, inst, refs, calm, failed, made>> /\ ~Serving
      /\ proc["boot"].pc = "idle"
      /\ \/ boot = {} /\ boot' = None /\ proc' = proc
         \/ \E r \in boot : /\ boot' = boot \ {r}
                            /\ proc' = [proc EXCEPT !["boot"] = BootRequest(r, db[r].row)]
  BY DEF Boot, At, BootRequest
<1>2. "boot" \in Procs /\ boot \subseteq Rooms
  BY <1>1 DEF Procs, TypeInv, Serving
<1>3. proc["boot"] = Idle
  BY <1>1, <1>2 DEF TypeInv, FieldsOK
<1>4. \A r \in boot : db[r].row \in Row
  <2>1. \A r \in boot : db[r].row # None
    BY <1>1 DEF BootAlone
  <2>2. \A r \in boot : db[r] \in Stored
    BY <1>2 DEF TypeInv
  <2> QED
    BY <2>1, <2>2, StoredFields
<1>5. \A r \in boot : boot \ {r} # None
  BY <1>2, NoneAssumption
<1> QED
  BY <1>1, <1>2, <1>3, <1>4, <1>5

LEMMA BootKeeps ==
  ASSUME CoreInv, RowKept, Boot
  PROVE  CoreInv' /\ RowKept'
<1>0. TypeInv /\ BootAlone /\ Apart /\ HostedAsDue /\ IdsPart
  BY DEF CoreInv
<1>1. /\ UNCHANGED <<db, hosted, handler, inst, refs, calm, failed, made>> /\ ~Serving
      /\ proc["boot"] = Idle /\ "boot" \in Procs /\ boot \subseteq Rooms
      /\ \/ boot = {} /\ boot' = None /\ proc' = proc
         \/ \E r \in boot : /\ boot' = boot \ {r} /\ boot' # None
                            /\ proc' = [proc EXCEPT !["boot"] = BootRequest(r, db[r].row)]
                            /\ db[r].row \in Row
  BY <1>0, BootEffect
<1>2. Built' = Built /\ inst' = inst /\ handler' = handler /\ hosted' = hosted /\ refs' = refs
      /\ db' = db /\ calm' = calm /\ failed' = failed /\ made' = made
  BY <1>1 DEF Built
<1>3. \A q \in Procs \ {"boot"} : proc[q] = Idle
  BY <1>0, <1>1 DEF BootAlone
<1>4. /\ proc' \in [Procs -> Proc] /\ \A q \in Procs \ {"boot"} : proc'[q] = proc[q]
      /\ FieldsOK(proc'["boot"]) /\ proc'["boot"].pc \in {"idle", "new"} /\ proc'["boot"].inst = 0
      /\ \/ proc'["boot"] = Idle /\ boot' = None
         \/ /\ proc'["boot"].pc = "new" /\ proc'["boot"].op = "boot"
            /\ \E r \in boot : proc'["boot"].room = r /\ boot' = boot \ {r} /\ boot' # None
  <2>1. proc \in [Procs -> Proc]
    BY <1>0 DEF TypeInv
  <2>2. CASE boot = {} /\ boot' = None /\ proc' = proc
    BY <1>1, <2>1, <2>2, IdleOK
  <2>3. ASSUME NEW r \in boot, boot' = boot \ {r}, boot' # None, db[r].row \in Row,
               proc' = [proc EXCEPT !["boot"] = BootRequest(r, db[r].row)]
        PROVE  /\ proc' \in [Procs -> Proc] /\ \A q \in Procs \ {"boot"} : proc'[q] = proc[q]
               /\ FieldsOK(proc'["boot"]) /\ proc'["boot"].pc = "new" /\ proc'["boot"].inst = 0
               /\ proc'["boot"].op = "boot" /\ proc'["boot"].room = r
    <3> DEFINE t == BootRequest(r, db[r].row)
    <3>1. t \in Proc /\ FieldsOK(t) /\ t.pc = "new" /\ t.op = "boot" /\ t.room = r /\ t.inst = 0
      BY <1>1, <2>3, BootRequestOK
    <3>2. proc' \in [Procs -> Proc] /\ proc'["boot"] = t /\ \A q \in Procs \ {"boot"} : proc'[q] = proc[q]
      <4> HIDE DEF t
      <4>1. proc' = [proc EXCEPT !["boot"] = t]
        BY <2>3 DEF t
      <4> QED
        BY <1>1, <2>1, <3>1, <4>1
    <3> QED
      BY <3>1, <3>2
  <2> QED
    BY <1>1, <2>2, <2>3
<1>5. TypeInv'
  <2>1. \A q \in Procs : FieldsOK(proc'[q])
    BY <1>0, <1>4 DEF TypeInv
  <2>2. \A q \in Procs : proc'[q].inst # 0 => proc'[q].inst \in Built /\ inst[proc'[q].inst].room = proc'[q].room
    BY <1>0, <1>4 DEF TypeInv, InstOK
  <2>3. \A q \in Procs : FieldsOK(proc[q])' /\ InstOK(proc[q])'
    BY <1>2, <2>1, <2>2 DEF InstOK, FieldsOK
  <2>4. boot' \in (SUBSET Rooms) \cup {None}
    BY <1>1
  <2> QED
    BY <1>0, <1>2, <1>4, <2>3, <2>4 DEF TypeInv
<1>6. BootAlone'
  <2>1. \A q \in Procs \ {"boot"} : proc'[q] = Idle
    BY <1>3, <1>4
  <2>2. Serving' => proc'["boot"] = Idle
    BY <1>4 DEF Serving
  <2>3. proc'["boot"].op \in {"none", "boot"}
    BY <1>4, IdleOK
  <2>4. (~Serving)' => \A r \in boot' : /\ db'[r].row # None /\ ~db'[r].row.disabled /\ hosted'[r] = 0
                                        /\ proc'["boot"].pc # "idle" => proc'["boot"].room # r
    BY <1>0, <1>1, <1>2, <1>4 DEF Serving, BootAlone
  <2> QED
    BY <2>1, <2>2, <2>3, <2>4 DEF BootAlone
<1>7. \A q \in Procs : proc'[q].pc # "idle" => q = "boot" /\ proc'[q].pc = "new" /\ proc'[q].room \in boot
  BY <1>3, <1>4, IdleOK
<1>8. Apart'
  BY <1>7 DEF Apart, Active
<1>9. HostedAsDue'
  <2>1. \A q \in Procs : proc'[q].pc # "idle" => proc'[q].pc = "new" /\ hosted[proc'[q].room] = 0
    BY <1>0, <1>1, <1>7 DEF BootAlone
  <2> QED
    BY <1>2, <2>1 DEF HostedAsDue
<1>10. /\ \A q \in Procs : ~Nascent(q)' /\ ~Nascent(q)
       /\ \A i : ~Starting(i)' /\ ~Starting(i)
  BY <1>1, <1>3, <1>4, <1>7, IdleOK DEF Nascent, Starting
<1>11. IdsPart'
  <2>1. CalmLeftovers'
    BY <1>0, <1>2, <1>10 DEF IdsPart, CalmLeftovers
  <2>2. RefsExact'
    <3>1. Holding' = Holding
      BY <1>2 DEF Holding
    <3> QED
      BY <1>0, <1>2, <3>1 DEF IdsPart, RefsExact
  <2>3. (\A q \in Rooms : hosted[q] # 0 => inst[hosted[q]].room = q /\ Registered(hosted[q]))'
    BY <1>0, <1>2 DEF IdsPart, IdsInv, Registered, IdsOf
  <2>4. (\A x \in Ids : handler[x] # 0 => x \in IdsOf(handler[x]) /\ inst[handler[x]].polling)'
    BY <1>0, <1>2 DEF IdsPart, IdsInv, IdsOf
  <2> QED
    BY <1>10, <2>1, <2>2, <2>3, <2>4 DEF IdsPart, IdsInv, At, Nascent
<1>12. RowKept'
  <2>1. \A q \in Procs : proc[q].pc = "idle"
    BY <1>1, <1>3, IdleOK
  <2> QED
    BY <1>2, <2>1 DEF RowKept, Active
<1> QED
  BY <1>5, <1>6, <1>8, <1>9, <1>11, <1>12 DEF CoreInv

(* Every step of a request                                                 *)
LEMMA StepKeeps ==
  ASSUME CoreInv, RowKept, NEW p \in Procs, Step(p)
  PROVE  CoreInv' /\ RowKept' /\ Local(p)
<1>0. TypeInv /\ IdsPart
  BY DEF CoreInv
<1>1. RowStep(p)
  BY <1>0, StepRows
<1> SUFFICES CoreInv' /\ Local(p)
  BY <1>0, <1>1, RowStepKeeps
<1>2. ASSUME Simple(p)
      PROVE  CoreInv' /\ Local(p)
  BY <1>2, SimpleKeeps DEF Simple
<1>3. CASE NewBuild(p)
  <2>1. CoreInv'
    BY <1>3, NewBuildKeeps
  <2>2. Local(p)
    BY <1>0, <1>3, NewBuildEffect
  <2> QED
    BY <2>1, <2>2
<1>4. CASE NewAllocate(p)
  <2>1. CoreInv'
    BY <1>4, NewAllocateKeeps
  <2>2. Local(p)
    BY <1>0, <1>4, NewAllocateEffect
  <2> QED
    BY <2>1, <2>2
<1>5. CASE NewAdd(p)
  <2>1. CoreInv'
    BY <1>5, NewAddKeeps
  <2>2. Local(p)
    BY <1>0, <1>5, NewAddEffect
  <2> QED
    BY <2>1, <2>2
<1>6. CASE RemoveRoom(p)
  <2>1. CASE hosted[proc[p].room] = 0
    <3>1. Simple(p)
      BY <1>0, <1>6, <2>1, RemoveNothing
    <3> QED
      BY <1>2, <3>1
  <2>2. CASE hosted[proc[p].room] # 0
    <3>1. CoreInv'
      BY <1>6, RemoveKeeps
    <3>2. Local(p)
      BY <1>0, <1>6, <2>2, RemoveEffect
    <3> QED
      BY <3>1, <3>2
  <2> QED
    BY <2>1, <2>2
<1>7. ASSUME NewGet(p) \/ StartGet(p) \/ StartFind(p) \/ StartPort(p) \/ StartUpdate(p) \/ StartEnable(p) \/ NewSave(p) \/ Restore(p)
             \/ Upload(p) \/ Disable(p) \/ DeleteRows(p) \/ DeleteRow(p) \/ EditMemory(p) \/ EditStore(p) \/ Fails(p) \/ StoreFails(p)
             \/ UpdateFails(p) \/ RestoreFails(p)
      PROVE  Simple(p)
  <2>1. CASE NewGet(p)
    BY <1>0, <2>1, NewGetSimple
  <2>2. CASE StartGet(p)
    BY <1>0, <2>2, StartGetSimple
  <2>3. CASE StartFind(p)
    BY <1>0, <2>3, StartFindSimple
  <2>4. CASE StartPort(p)
    BY <1>0, <2>4, StartPortSimple
  <2>5. CASE StartUpdate(p)
    BY <1>0, <2>5, StartUpdateSimple
  <2>6. CASE StartEnable(p)
    BY <1>0, <2>6, StartEnableSimple
  <2>7. CASE NewSave(p)
    BY <1>0, <2>7, NewSaveSimple
  <2>8. CASE Restore(p)
    BY <1>0, <2>8, RestoreSimple
  <2>9. CASE Upload(p)
    BY <1>0, <2>9, UploadSimple
  <2>10. CASE Disable(p)
    BY <1>0, <2>10, DisableSimple
  <2>11. CASE DeleteRows(p)
    BY <1>0, <2>11, DeleteRowsSimple
  <2>12. CASE DeleteRow(p)
    BY <1>0, <2>12, DeleteRowSimple
  <2>13. CASE EditMemory(p)
    BY <1>0, <2>13, EditMemorySimple
  <2>14. CASE EditStore(p)
    BY <1>0, <2>14, EditStoreSimple
  <2>15. CASE Fails(p)
    BY <1>0, <2>15, FailsSimple
  <2>16. CASE StoreFails(p)
    BY <1>0, <2>16, StoreFailsSimple
  <2>17. CASE UpdateFails(p) \/ RestoreFails(p)
    BY <1>0, <2>17, UpdateFailsSimple, RestoreFailsSimple
  <2> QED
    BY <1>7, <2>1, <2>2, <2>3, <2>4, <2>5, <2>6, <2>7, <2>8, <2>9, <2>10, <2>11, <2>12, <2>13, <2>14, <2>15, <2>16, <2>17
<1> QED
  BY <1>2, <1>3, <1>4, <1>5, <1>6, <1>7 DEF Step

LEMMA CoreStutters ==
  ASSUME CoreInv, RowKept, UNCHANGED vars
  PROVE  CoreInv' /\ RowKept'
BY DEF CoreInv, RowKept, vars, TypeInv, FieldsOK, InstOK, Built, BootAlone, Serving, Apart, Active,
       HostedAsDue, IdsPart, IdsInv, IdsOf, Registered, Nascent, At, CalmLeftovers, Starting, Holding, RefsExact

LEMMA NextCore ==
  ASSUME CoreInv, RowKept, [Next]_vars
  PROVE  CoreInv' /\ RowKept'
<1>0. TypeInv
  BY DEF CoreInv
<1>1. CASE UNCHANGED vars
  BY <1>1, CoreStutters
<1>2. ASSUME NEW p \in Procs, Step(p)
      PROVE  CoreInv' /\ RowKept'
  BY <1>2, StepKeeps
<1>3. \A p \in Requests : p \in Procs \ {"boot"}
  BY ProcsAssumption DEF Procs
<1>4. ASSUME NEW p \in Requests, NEW r \in Rooms,
             \/ \E want \in Config : Host(p, r, want)
             \/ Stop(p, r)
             \/ Delete(p, r)
             \/ \E e \in Edit : EditRoom(p, r, e)
      PROVE  CoreInv' /\ RowKept'
  <2>1. CASE \E want \in Config : Host(p, r, want)
    BY <2>1, HostKeeps
  <2>2. CASE Stop(p, r)
    <3>1. /\ hosted[r] # 0 /\ Begin(p, r, FALSE, DisableRequest("stop", r))
          /\ UNCHANGED <<db, hosted, handler, inst, refs, boot, failed>>
      BY <2>2 DEF Stop, DisableRequest
    <3> QED
      BY <1>3, <3>1, StopKeeps
  <2>3. CASE Delete(p, r)
    BY <1>3, <2>3, DeleteKeeps
  <2>4. ASSUME NEW e \in Edit, EditRoom(p, r, e)
        PROVE  CoreInv' /\ RowKept'
    <3>1. PICK i : i = hosted[r]
      OBVIOUS
    <3>2. /\ i \in Built /\ inst[i].room = r
          /\ Begin(p, r, FALSE, EditRequest(r, i, e))
          /\ UNCHANGED <<db, hosted, handler, inst, refs, boot, failed>>
      BY <1>3, <2>4, <3>1, EditRoomBegins
    <3> QED
      BY <1>3, <3>1, <3>2, EditKeeps
  <2> QED
    BY <1>4, <2>1, <2>2, <2>3, <2>4
<1>5. ASSUME NEW r \in Rooms, Kill(r)
      PROVE  CoreInv' /\ RowKept'
  <2>1. /\ hosted[r] # 0 /\ Begin("killer", r, FALSE, DisableRequest("kill", r))
        /\ UNCHANGED <<db, hosted, handler, inst, refs, boot, failed>>
    BY <1>5 DEF Kill, DisableRequest
  <2>2. "killer" \in Procs \ {"boot"}
    BY DEF Procs
  <2> QED
    BY <2>1, <2>2, StopKeeps
<1>6. ASSUME NEW p \in Requests, NEW i \in Built, Death(p, i)
      PROVE  CoreInv' /\ RowKept'
  <2>1. PICK r : r = inst[i].room
    OBVIOUS
  <2>2. /\ r \in Rooms /\ [kind |-> "death"] \in Edit
        /\ Begin(p, r, hosted[r] # i, EditRequest(r, i, [kind |-> "death"]))
        /\ UNCHANGED <<db, hosted, handler, inst, refs, boot, failed>>
    BY <1>3, <1>6, <2>1, DeathBegins
  <2> QED
    BY <1>3, <2>1, <2>2, EditKeeps
<1>7. CASE Crash
  BY <1>0, <1>7, CrashKeeps
<1>8. CASE Boot
  BY <1>8, BootKeeps
<1> QED
  BY <1>1, <1>2, <1>4, <1>5, <1>6, <1>7, <1>8 DEF Next

(* The registry's invariants say that the ids lead to the rooms.           *)
LEMMA CoreIds ==
  ASSUME CoreInv
  PROVE  IdsLeadToTheRoom
<1>0. TypeInv /\ IdsInv /\ CalmLeftovers /\ RefsExact
  BY DEF CoreInv, IdsPart
<1>1. \A r \in Rooms : hosted[r] # 0 =>
        LET o == inst[hosted[r]]
        IN  /\ o.room = r /\ o.polling
            /\ o.ids[1] # o.ids[2]
            /\ handler[o.ids[1]] = hosted[r] /\ handler[o.ids[2]] = hosted[r]
  BY <1>0 DEF IdsInv, Registered, IdsOf
<1>2. \A x \in Ids : handler[x] # 0 => inst[handler[x]].polling
  BY <1>0 DEF IdsInv
<1>3. \A i \in Built :
        (inst[i].room \in calm /\ ~Starting(i) /\ hosted[inst[i].room] # i) =>
          ~inst[i].polling /\ \A x \in Ids : handler[x] # i
  <2>1. 0 \notin Built
    BY <1>0, Numbered
  <2> QED
    BY <1>0, <1>2, <2>1 DEF CalmLeftovers
<1>4. Holding = {i \in Built : \/ hosted[inst[i].room] = i
                               \/ Starting(i)
                               \/ Abandoned(i)}
  <2>1. \A i \in Built : hosted[inst[i].room] = i => inst[i].polling
    <3>1. 0 \notin Built /\ \A i \in Built : inst[i].room \in Rooms
      BY <1>0, Numbered, ObjectFields DEF TypeInv
    <3> QED
      BY <1>1, <3>1
  <2>2. \A i \in Built : Starting(i) => inst[i].polling
    BY <1>0 DEF Starting, IdsInv, At, Registered
  <2> QED
    BY <2>1, <2>2 DEF Holding, Abandoned
<1> QED
  BY <1>0, <1>1, <1>2, <1>3, <1>4 DEF IdsLeadToTheRoom, RefsExact

(* AllocateAndRegisterHandlerPair, startNewHostedRoom, Remove, the start   *)
(* of apx and its crashes, for every number of rooms, ids, requests and    *)
(* objects: whatever requests overlap, the two ids of a hosted room lead   *)
(* to it, no id leads to a removed room, an object that is neither hosted  *)
(* nor being started is polled by nobody unless requests on its room       *)
(* overlapped, and the data packages taken are counted exactly.            *)
THEOREM HostedIdsLead == Spec => []IdsLeadToTheRoom
<1>1. Init => CoreInv /\ RowKept
  BY InitCore
<1>2. (CoreInv /\ RowKept) /\ [Next]_vars => (CoreInv /\ RowKept)'
  BY NextCore
<1>3. CoreInv /\ RowKept => IdsLeadToTheRoom
  BY CoreIds
<1> QED
  BY <1>1, <1>2, <1>3, PTL DEF Spec

-----------------------------------------------------------------------------
(* The store tells the rooms                                               *)

(* A slot's switch as the store has it under a configuration               *)
StoredOn(s, cfg, k, slot) == IF cfg[k] THEN slot \notin s.over[k] ELSE slot \in s.over[k]

SameRow(o, row) == row # None /\ ~row.disabled /\ row.ap = o.ap /\ row.ids = o.ids /\ row.cfg = o.cfg

(* What the store has of a room is what the room has in memory, but for    *)
(* the edits E that are between their two steps.                           *)
Agree(o, s, E) ==
  /\ SameRow(o, s.row)
  /\ \A k \in Switches, slot \in Slots :
       (\A e \in E : e.kind = "switch" => e.k # k \/ e.slot # slot) =>
         (slot \in o.sw[k] <=> StoredOn(s, o.cfg, k, slot))
  /\ (\A e \in E : e.kind # "prob") => s.row.prob = o.prob
  /\ (\A e \in E : e.kind # "alt") => s.alt = IF o.alt = None THEN {} ELSE {o.alt}
  /\ (\A e \in E : e.kind # "death") => s.deaths = o.deaths

PendingEdits(r) == {e \in Edit : \E p \in Procs : At(p, "store") /\ proc[p].room = r /\ proc[p].edit = e}

(* An edit under way                                                       *)
EditOK(pc, e, o, s) ==
  /\ pc = "store" =>
       /\ e.kind = "switch" => (e.slot \in o.sw[e.k] <=> e.on)
       /\ e.kind = "prob" => o.prob = e.v
       /\ e.kind = "alt" => o.alt = e.slot /\ (e.slot # None => s.alt = {})
       /\ e.kind = "death" => s.deaths < MaxDeaths /\ o.deaths = s.deaths + 1
  /\ pc = "memory" =>
       /\ (e.kind = "alt" /\ e.slot # None) => o.alt = None
       /\ e.kind = "death" => o.deaths < MaxDeaths

(* The object a start has built, before it is restored                     *)
Fresh(o, row) ==
  /\ o.ap = row.ap /\ o.cfg = row.cfg /\ o.prob = row.prob
  /\ o.sw = [k \in Switches |-> IF row.cfg[k] THEN Slots ELSE {}]
  /\ o.deaths = 0 /\ o.alt = None

(* What the store has of a room that is being started                      *)
StoreAwaits(op, s, prob) ==
  IF op = "upload" THEN s = NothingStored /\ prob = 1
  ELSE s.row # None /\ ~s.row.disabled /\ s.row.prob = prob

(* A deletion that is under way has emptied the tables before its own.     *)
Emptied(pc, s) ==
  /\ pc \in {"deleteOwn", "deleteTags", "deleteNames", "deleteDeaths", "deleteRow"} =>
       \A k \in Switches : k = "full_feed" => s.over[k] = {}
  /\ pc \in {"deleteTags", "deleteNames", "deleteDeaths", "deleteRow"} =>
       \A k \in Switches : k = "own_slot" => s.over[k] = {}
  /\ pc \in {"deleteNames", "deleteDeaths", "deleteRow"} =>
       \A k \in Switches : k = "DeathLink" => s.over[k] = {}
  /\ pc \in {"deleteDeaths", "deleteRow"} => s.alt = {}
  /\ pc = "deleteRow" => s.deaths = 0

(* A request t on a calm room at each of its steps, with the room's rows s *)
(* and the request's object o                                              *)
StepOK(t, s, o) ==
  /\ t.pc \in {"start", "find", "update", "enable", "deleteRow", "disable"} \cup DeletePcs => s.row # None
  /\ t.pc \in {"update", "enable"} => /\ t.row.ap = s.row.ap /\ t.row.ids = s.row.ids
                                      /\ t.row.prob = s.row.prob /\ t.row.disabled = s.row.disabled
  /\ t.pc \in {"port", "new", "fetch"} => StoreAwaits(t.op, s, t.row.prob)
  /\ t.pc = "upload" => s = NothingStored
  /\ t.pc \in {"allocate", "add", "save"} => Fresh(o, t.row) /\ StoreAwaits(t.op, s, o.prob)
  /\ t.pc = "restore" => Fresh(o, t.row) /\ SameRow(o, s.row) /\ s.row.prob = o.prob
  /\ t.pc = "remove" => IF t.op = "delete" THEN s = NothingStored
                        ELSE s.row # None /\ s.row.disabled
  /\ Emptied(t.pc, s)
  /\ t.pc \in EditPcs => EditOK(t.pc, t.edit, o, s)

(* The steps at which a hosted room and its rows agree, and those at which *)
(* a room that is not hosted is not enabled                                *)
Loose == {"start", "disable", "memory", "store"}
Early == {"start", "find", "update", "enable"}
AllIn(r, pcs) == \A p \in Procs : Active(p, r) => proc[p].pc \in pcs

ObjectOf(p) == IF proc[p].inst = 0 THEN None ELSE inst[proc[p].inst]
Awaited(r) == ~Serving /\ r \in boot
NotEnabled(r) == db[r].row = None \/ db[r].row.disabled \/ r \in failed

(* Without a row there are no others, and a room has one alternative name. *)
NoStray(s) ==
  /\ s.row = None => s = NothingStored
  /\ \A x, y \in s.alt : x = y

RoomView(r) ==
  /\ \A p \in Procs : Active(p, r) => StepOK(proc[p], db[r], ObjectOf(p))
  /\ (hosted[r] # 0 /\ AllIn(r, Loose)) => Agree(inst[hosted[r]], db[r], PendingEdits(r))
  /\ (hosted[r] = 0 /\ ~Awaited(r) /\ AllIn(r, Early)) => NotEnabled(r)
  /\ NoStray(db[r])

StoreInv == \A r \in calm : RoomView(r)

RoomsInv == CoreInv /\ RowKept /\ StoreInv

(* Fewer edits under way leave less open.                                  *)
LEMMA AgreeMore ==
  ASSUME NEW o, NEW s, NEW E, NEW F, Agree(o, s, E), \A e \in E : e \in F
  PROVE  Agree(o, s, F)
BY DEF Agree

(* The first step of an edit leaves it open.                               *)
LEMMA AgreeEdited ==
  ASSUME NEW o \in Object, NEW n \in Object, NEW s \in Stored, NEW E, NEW e \in Edit,
         Agree(o, s, E), EditedAs(n, o, e)
  PROVE  Agree(n, s, E \cup {e})
<1> DEFINE F == E \cup {e}
<1>1. e \in F /\ \A f \in E : f \in F
  OBVIOUS
<1> HIDE DEF F
<1>2. SameRow(n, s.row)
  BY DEF Agree, SameRow, EditedAs
<1>3. ASSUME NEW k \in Switches, NEW slot \in Slots,
             \A f \in F : f.kind = "switch" => f.k # k \/ f.slot # slot
      PROVE  slot \in n.sw[k] <=> StoredOn(s, n.cfg, k, slot)
  <2>1. slot \in o.sw[k] <=> StoredOn(s, o.cfg, k, slot)
    BY <1>1, <1>3 DEF Agree
  <2>2. slot \in n.sw[k] <=> slot \in o.sw[k]
    BY <1>1, <1>3 DEF EditedAs
  <2> QED
    BY <2>1, <2>2 DEF EditedAs
<1>4. (\A f \in F : f.kind # "prob") => s.row.prob = n.prob
  BY <1>1 DEF Agree, EditedAs
<1>5. (\A f \in F : f.kind # "alt") => s.alt = IF n.alt = None THEN {} ELSE {n.alt}
  BY <1>1 DEF Agree, EditedAs
<1>6. (\A f \in F : f.kind # "death") => s.deaths = n.deaths
  BY <1>1 DEF Agree, EditedAs
<1>7. Agree(n, s, F)
  BY <1>2, <1>3, <1>4, <1>5, <1>6 DEF Agree
<1> QED
  BY <1>7 DEF F

(* The row after the store's step of an edit                               *)
LEMMA StoredRow ==
  ASSUME NEW s \in Stored, NEW n, NEW o, NEW e \in Edit, StoredAs(n, s, o, e), s.row # None
  PROVE  /\ n.row # None /\ n.row.disabled = s.row.disabled /\ n.row.ap = s.row.ap
         /\ n.row.ids = s.row.ids /\ n.row.cfg = s.row.cfg
         /\ n.row.prob = IF e.kind = "prob" THEN e.v ELSE s.row.prob
<1>1. s.row \in Row
  BY StoredFields
<1>2. CASE e.kind = "prob"
  <2> DEFINE x == [s.row EXCEPT !.prob = e.v]
  <2>1. n.row = x /\ e.v \in {1, 2}
    BY <1>2, EditFields DEF StoredAs
  <2>2. /\ x \in Row /\ x.disabled = s.row.disabled /\ x.ap = s.row.ap
        /\ x.ids = s.row.ids /\ x.cfg = s.row.cfg /\ x.prob = e.v
    BY <1>1, <2>1 DEF Row
  <2> HIDE DEF x
  <2> QED
    BY <1>2, <2>1, <2>2, NoneAssumption
<1>3. CASE e.kind # "prob"
  BY <1>3 DEF StoredAs
<1> QED
  BY <1>2, <1>3

(* The second step of an edit closes what the first left open.             *)
LEMMA AgreeStored ==
  ASSUME NEW o \in Object, NEW s \in Stored, NEW n, NEW E, NEW e \in Edit, NEW F,
         Agree(o, s, E), StoredAs(n, s, o, e), EditOK("store", e, o, s),
         \A f \in E : f # e => f \in F
  PROVE  Agree(o, n, F)
<1>1. s.row # None
  BY DEF Agree, SameRow
<1>2. SameRow(o, n.row)
  BY <1>1, StoredRow DEF Agree, SameRow
<1>0. o.cfg \in [Switches -> BOOLEAN]
  BY ObjectFields DEF Config
<1>3. ASSUME NEW k \in Switches, NEW slot \in Slots,
             \A f \in F : f.kind = "switch" => f.k # k \/ f.slot # slot
      PROVE  slot \in o.sw[k] <=> StoredOn(n, o.cfg, k, slot)
  <2>1. CASE e.kind = "switch" /\ e.k = k /\ e.slot = slot
    <3>1. (slot \in o.sw[k] <=> e.on) /\ (slot \in n.over[k] <=> e.on # o.cfg[k]) /\ e.on \in BOOLEAN
          /\ o.cfg[k] \in BOOLEAN
      BY <1>0, <2>1, EditFields DEF EditOK, StoredAs
    <3> QED
      BY <3>1 DEF StoredOn
  <2>2. CASE ~(e.kind = "switch" /\ e.k = k /\ e.slot = slot)
    <3>1. \A f \in E : f.kind = "switch" => f.k # k \/ f.slot # slot
      BY <1>3, <2>2
    <3>2. slot \in n.over[k] <=> slot \in s.over[k]
      BY <2>2 DEF StoredAs
    <3>3. slot \in o.sw[k] <=> StoredOn(s, o.cfg, k, slot)
      BY <3>1 DEF Agree
    <3> QED
      BY <3>2, <3>3 DEF StoredOn
  <2> QED
    BY <2>1, <2>2
<1>4. (\A f \in F : f.kind # "prob") => n.row.prob = o.prob
  BY <1>1, StoredRow DEF Agree, EditOK
<1>5. (\A f \in F : f.kind # "alt") => n.alt = IF o.alt = None THEN {} ELSE {o.alt}
  BY DEF Agree, EditOK, StoredAs
<1>6. (\A f \in F : f.kind # "death") => n.deaths = o.deaths
  BY DEF Agree, EditOK, StoredAs
<1> QED
  BY <1>2, <1>3, <1>4, <1>5, <1>6 DEF Agree

(* An edit does not disturb another one of something else.                 *)
LEMMA EditOKEdited ==
  ASSUME NEW o \in Object, NEW n \in Object, NEW s, NEW e \in Edit, NEW f \in Edit, NEW pc,
         EditOK(pc, f, o, s), EditedAs(n, o, e), Unrelated(e, f)
  PROVE  EditOK(pc, f, n, s)
<1>1. f.kind = "switch" => f.k \in Switches /\ f.slot \in Slots
  BY EditFields
<1>2. f.kind = "switch" => (f.slot \in n.sw[f.k] <=> f.slot \in o.sw[f.k])
  BY <1>1 DEF Unrelated, EditedAs
<1>3. f.kind = "prob" => n.prob = o.prob
  BY DEF Unrelated, EditedAs
<1>4. f.kind = "alt" => n.alt = o.alt
  BY DEF Unrelated, EditedAs
<1>5. f.kind = "death" => n.deaths = o.deaths
  BY DEF Unrelated, EditedAs
<1> QED
  BY <1>2, <1>3, <1>4, <1>5 DEF EditOK

LEMMA EditOKStored ==
  ASSUME NEW o, NEW n, NEW s, NEW e \in Edit, NEW f \in Edit, NEW pc,
         EditOK(pc, f, o, s), StoredAs(n, s, o, e), Unrelated(e, f)
  PROVE  EditOK(pc, f, o, n)
<1>1. f.kind = "alt" => n.alt = s.alt
  BY DEF Unrelated, StoredAs
<1>2. f.kind = "death" => n.deaths = s.deaths
  BY DEF Unrelated, StoredAs
<1> QED
  BY <1>1, <1>2 DEF EditOK

(* What the first step of an edit leaves for the second                    *)
LEMMA EditOpens ==
  ASSUME NEW o \in Object, NEW n \in Object, NEW s, NEW e \in Edit, NEW E,
         Agree(o, s, E), EditOK("memory", e, o, s), EditedAs(n, o, e), \A f \in E : Unrelated(e, f)
  PROVE  EditOK("store", e, n, s)
<1>1. e.kind = "switch" => (e.slot \in n.sw[e.k] <=> e.on)
  BY EditFields DEF EditedAs
<1>2. e.kind = "prob" => n.prob = e.v
  BY DEF EditedAs
<1>3. e.kind = "alt" => n.alt = e.slot /\ (e.slot # None => s.alt = {})
  BY DEF EditedAs, Agree, EditOK, Unrelated
<1>4. e.kind = "death" => s.deaths < MaxDeaths /\ n.deaths = s.deaths + 1
  BY DEF EditedAs, Agree, EditOK, Unrelated
<1> QED
  BY <1>1, <1>2, <1>3, <1>4 DEF EditOK

(* The row that is saved of a room is the room's.                          *)
Saving(s, o) == [s EXCEPT !.row = SavedRow(o, s.row)]

LEMMA SavedSame ==
  ASSUME NEW o \in Object, NEW s \in Stored, NEW n, n = Saving(s, o),
         s.row # None => ~s.row.disabled
  PROVE  /\ SameRow(o, n.row) /\ n.row.prob = IF s.row = None THEN 1 ELSE s.row.prob
         /\ n.over = s.over /\ n.alt = s.alt /\ n.deaths = s.deaths /\ n.row # None
<1> DEFINE x == SavedRow(o, s.row)
<1>1. s.row \in Row \cup {None}
  BY StoredFields
<1>2. /\ x \in Row /\ x.ap = o.ap /\ x.ids = o.ids /\ x.cfg = o.cfg
      /\ x.disabled = (IF s.row = None THEN FALSE ELSE s.row.disabled)
      /\ x.prob = (IF s.row = None THEN 1 ELSE s.row.prob)
  BY <1>1, SavedRowOK
<1> HIDE DEF x
<1>3. n = [s EXCEPT !.row = x]
  BY DEF x, Saving
<1>4. n.row = x /\ n.over = s.over /\ n.alt = s.alt /\ n.deaths = s.deaths
  BY <1>2, <1>3 DEF Stored
<1> QED
  BY <1>2, <1>4, NoneAssumption DEF SameRow

(* A room that was uploaded is stored as it is.                            *)
LEMMA UploadAgrees ==
  ASSUME NEW o \in Object, NEW row, NEW s, NEW n, Fresh(o, row), o.prob = 1,
         s = NothingStored, n = Saving(s, o)
  PROVE  Agree(o, n, {})
<1>1. s \in Stored /\ s.row = None /\ s.alt = {} /\ s.deaths = 0 /\ s.over = [k \in Switches |-> {}]
  BY NothingStoredOK
<1>2. SameRow(o, n.row) /\ n.row.prob = 1 /\ n.over = s.over /\ n.alt = {} /\ n.deaths = 0
  BY <1>1, SavedSame
<1>3. ASSUME NEW k \in Switches, NEW slot \in Slots
      PROVE  slot \in o.sw[k] <=> StoredOn(n, o.cfg, k, slot)
  <2>1. slot \notin n.over[k]
    BY <1>1, <1>2
  <2>2. o.sw[k] = IF o.cfg[k] THEN Slots ELSE {}
    BY DEF Fresh
  <2> QED
    BY <2>1, <2>2 DEF StoredOn
<1> QED
  BY <1>2, <1>3 DEF Agree, Fresh

(* A room that was restored is as it is stored.                            *)
LEMMA RestoredAgrees ==
  ASSUME NEW o \in Object, NEW row, NEW n \in Object, NEW s \in Stored, Fresh(o, row), SameRow(o, s.row),
         s.row.prob = o.prob, RestoredAs(n, o, s), NoStray(s)
  PROVE  Agree(n, s, {})
<1>1. SameRow(n, s.row)
  BY DEF SameRow, RestoredAs
<1>2. s.row.prob = n.prob
  BY DEF RestoredAs
<1>3. ASSUME NEW k \in Switches, NEW slot \in Slots
      PROVE  slot \in n.sw[k] <=> StoredOn(s, n.cfg, k, slot)
  <2>1. n.sw[k] = RestoredSwitch(o, s, k) /\ n.cfg = o.cfg
    BY DEF RestoredAs
  <2>2. o.sw[k] = IF o.cfg[k] THEN Slots ELSE {}
    BY DEF Fresh
  <2> QED
    BY <2>1, <2>2 DEF StoredOn, RestoredSwitch
<1>4. s.alt = IF n.alt = None THEN {} ELSE {n.alt}
  <2>1. s.alt \subseteq Slots /\ None \notin s.alt
    BY StoredFields, BoundsAssumption
  <2> QED
    BY <2>1 DEF NoStray, RestoredAs, Fresh
<1>5. s.deaths = n.deaths
  BY DEF RestoredAs, Fresh
<1> QED
  BY <1>1, <1>2, <1>3, <1>4, <1>5 DEF Agree

-----------------------------------------------------------------------------
(* A room that a step is not about                                         *)

(* Edits stay under way unless their requests move.                        *)
LEMMA PendingStays ==
  ASSUME NEW r, NEW e \in PendingEdits(r), \A q \in Procs : (Active(q, r) /\ proc[q].edit = e) => proc'[q] = proc[q]
  PROVE  e \in PendingEdits(r)'
BY DEF PendingEdits, At, Active

LEMMA OtherRoom ==
  ASSUME TypeInv, IdsInv, NEW r \in Rooms, RoomView(r),
         \A q \in Procs : Active(q, r) => proc'[q] = proc[q],
         \A q \in Procs : Active(q, r)' => proc'[q] = proc[q],
         db'[r] = db[r], hosted'[r] = hosted[r], \A j \in Built : inst[j].room = r => inst'[j] = inst[j],
         Awaited(r) => Awaited(r)', r \in failed => r \in failed'
  PROVE  RoomView(r)'
<1>1. ASSUME NEW q \in Procs, Active(q, r)'
      PROVE  StepOK(proc[q], db[r], ObjectOf(q))'
  <2>1. proc'[q] = proc[q] /\ Active(q, r)
    BY <1>1 DEF Active
  <2>2. StepOK(proc[q], db[r], ObjectOf(q))
    BY <2>1 DEF RoomView
  <2>3. proc[q].inst # 0 => proc[q].inst \in Built /\ inst[proc[q].inst].room = r
    BY <2>1 DEF TypeInv, InstOK, Active
  <2>4. ObjectOf(q)' = ObjectOf(q)
    BY <2>1, <2>3 DEF ObjectOf
  <2> QED
    BY <2>1, <2>2, <2>4
<1>2. ASSUME hosted'[r] # 0, AllIn(r, Loose)'
      PROVE  Agree(inst[hosted[r]], db[r], PendingEdits(r))'
  <2>1. hosted[r] # 0 /\ AllIn(r, Loose)
    BY <1>2 DEF AllIn, Active
  <2>2. Agree(inst[hosted[r]], db[r], PendingEdits(r))
    BY <2>1 DEF RoomView
  <2>3. hosted[r] \in Built /\ inst[hosted[r]].room = r
    BY <2>1 DEF TypeInv, IdsInv
  <2>4. inst'[hosted'[r]] = inst[hosted[r]]
    BY <2>3
  <2>5. \A e \in PendingEdits(r) : e \in PendingEdits(r)'
    BY PendingStays
  <2> QED
    BY <2>2, <2>4, <2>5, AgreeMore
<1>3. ASSUME hosted'[r] = 0, ~Awaited(r)', AllIn(r, Early)'
      PROVE  NotEnabled(r)'
  <2>1. hosted[r] = 0 /\ AllIn(r, Early) /\ ~Awaited(r)
    BY <1>3 DEF AllIn, Active
  <2>2. NotEnabled(r)
    BY <2>1 DEF RoomView
  <2> QED
    BY <2>2 DEF NotEnabled
<1>4. NoStray(db[r])'
  BY DEF RoomView
<1> QED
  BY <1>1, <1>2, <1>3, <1>4 DEF RoomView

(* A request's step is about its own room only.                            *)
LEMMA StepElsewhere ==
  ASSUME CoreInv, StoreInv, NEW p \in Procs, Local(p), NEW r \in calm', r # proc[p].room,
         \A j \in Built : inst[j].room = r => inst'[j] = inst[j], r \in failed => r \in failed'
  PROVE  RoomView(r)'
<1>1. r \in calm /\ r \in Rooms
  BY DEF Local, CoreInv, TypeInv
<1>2. RoomView(r)
  BY <1>1 DEF StoreInv
<1>3. ASSUME NEW q \in Procs, Active(q, r) \/ Active(q, r)'
      PROVE  proc'[q] = proc[q]
  <2>1. q # p
    BY <1>3, IdleOK DEF Active, Local, ProcStep
  <2> QED
    BY <2>1 DEF Local, ProcStep
<1>4. Awaited(r) => Awaited(r)'
  BY DEF Awaited, Serving, Local
<1> QED
  BY <1>1, <1>2, <1>3, <1>4, OtherRoom DEF CoreInv, IdsPart, Local

(* What holds of a calm room that a request other than an edit is about    *)
LEMMA OwnRoom ==
  ASSUME CoreInv, StoreInv, NEW p \in Procs, proc[p].pc # "idle", proc[p].pc \notin EditPcs,
         NEW r \in calm, r = proc[p].room
  PROVE  /\ r \in Rooms /\ StepOK(proc[p], db[r], ObjectOf(p))
         /\ (hosted[r] # 0 /\ proc[p].pc \in Loose) => Agree(inst[hosted[r]], db[r], {})
         /\ (hosted[r] = 0 /\ proc[p].pc \in Early) => NotEnabled(r)
         /\ NoStray(db[r]) /\ ~Awaited(r) /\ db[r] \in Stored
<1>1. r \in Rooms /\ RoomView(r) /\ Active(p, r) /\ db[r] \in Stored
  BY DEF CoreInv, TypeInv, StoreInv, Active
<1>2. \A q \in Procs : Active(q, r) => q = p
  BY Alone DEF CoreInv
<1>3. PendingEdits(r) = {}
  BY <1>2 DEF PendingEdits, At, Active, EditPcs
<1>4. ~Awaited(r)
  BY <1>1, IdleOK DEF Awaited, CoreInv, BootAlone, Active
<1>5. \A S : proc[p].pc \in S => AllIn(r, S)
  BY <1>2 DEF AllIn
<1> QED
  BY <1>1, <1>3, <1>4, <1>5 DEF RoomView

(* What is to be shown of it after the request's step                      *)
LEMMA OwnRoomAfter ==
  ASSUME CoreInv, NEW p \in Procs, Local(p), proc[p].pc \notin EditPcs,
         NEW r \in calm, r = proc[p].room,
         proc'[p] # Idle => StepOK(proc'[p], db'[r], ObjectOf(p)'),
         (hosted'[r] # 0 /\ proc'[p].pc \in Loose \cup {"idle"}) => Agree(inst'[hosted'[r]], db'[r], {}),
         (hosted'[r] = 0 /\ proc'[p].pc \in Early \cup {"idle"}) => NotEnabled(r)',
         NoStray(db'[r])
  PROVE  RoomView(r)'
<1>1. ASSUME NEW q \in Procs, Active(q, r)'
      PROVE  q = p
  <2>1. q # p => proc'[q] = proc[q]
    BY DEF Local, ProcStep
  <2>2. q # p => Active(q, r)
    BY <1>1, <2>1 DEF Active
  <2> QED
    BY <2>2, Alone DEF CoreInv, Local, ProcStep
<1>2. \A q \in Procs : Active(q, r)' => StepOK(proc[q], db[r], ObjectOf(q))'
  BY <1>1, IdleOK DEF Active
<1>3. ASSUME NEW S, AllIn(r, S)'
      PROVE  proc'[p].pc \in S \cup {"idle"}
  <2>1. CASE proc'[p] = Idle
    BY <2>1, IdleOK
  <2>2. CASE proc'[p] # Idle
    <3>1. Active(p, r)'
      BY <2>2 DEF Active, Local, ProcStep
    <3> QED
      BY <3>1, <1>3 DEF AllIn
  <2> QED
    BY <2>1, <2>2
<1>4. (hosted'[r] # 0 /\ AllIn(r, Loose)') => Agree(inst[hosted[r]], db[r], PendingEdits(r))'
  BY <1>3, AgreeMore
<1>5. (hosted'[r] = 0 /\ AllIn(r, Early)') => NotEnabled(r)'
  BY <1>3
<1> QED
  BY <1>2, <1>4, <1>5 DEF RoomView

-----------------------------------------------------------------------------
(* The steps of a request keep what the store tells                        *)

LEMMA StepStore ==
  ASSUME CoreInv, StoreInv, NEW p \in Procs, Local(p), NEW r, r = proc[p].room,
         \A j \in Built : inst[j].room # r => inst'[j] = inst[j],
         \A q \in failed : q # r => q \in failed',
         r \in calm' => RoomView(r)'
  PROVE  StoreInv'
<1> SUFFICES ASSUME NEW q \in calm', q # r PROVE RoomView(q)'
  BY DEF StoreInv
<1> QED
  BY StepElsewhere

(* A step of a request that is not an edit                                 *)
OwnAfter(p, r) ==
  /\ proc'[p] # Idle => StepOK(proc'[p], db'[r], ObjectOf(p)')
  /\ (hosted'[r] # 0 /\ proc'[p].pc \in Loose \cup {"idle"}) => Agree(inst'[hosted'[r]], db'[r], {})
  /\ (hosted'[r] = 0 /\ proc'[p].pc \in Early \cup {"idle"}) =>
       db'[r].row = None \/ db'[r].row.disabled \/ r \in failed'
  /\ NoStray(db'[r])

LEMMA PlainStep ==
  ASSUME CoreInv, StoreInv, NEW p \in Procs, Local(p), proc[p].pc \notin EditPcs, NEW r, r = proc[p].room,
         \A j \in Built : inst[j].room # r => inst'[j] = inst[j],
         \A q \in failed : q # r => q \in failed',
         r \in calm' => OwnAfter(p, r)
  PROVE  StoreInv'
<1>1. ASSUME r \in calm' PROVE RoomView(r)'
  <2>1. r \in calm
    BY <1>1 DEF Local
  <2> QED
    BY <1>1, <2>1, OwnRoomAfter DEF OwnAfter, NotEnabled
<1> QED
  BY <1>1, StepStore

(* A step that only looks                                                  *)
LEMMA LookingStep ==
  ASSUME CoreInv, StoreInv, NEW p \in Procs, Simple(p), proc[p].pc \notin EditPcs, NEW r, r = proc[p].room,
         UNCHANGED <<db, inst, failed>>,
         r \in calm' =>
           /\ proc'[p] # Idle => StepOK(proc'[p], db[r], ObjectOf(p)')
           /\ (hosted[r] # 0 /\ proc'[p].pc \in Loose \cup {"idle"}) => proc[p].pc \in Loose
           /\ (hosted[r] = 0 /\ proc'[p].pc \in Early \cup {"idle"}) => proc[p].pc \in Early
  PROVE  StoreInv'
<1>1. ASSUME r \in calm' PROVE OwnAfter(p, r)
  <2>1. r \in calm /\ proc[p].pc # "idle" /\ hosted' = hosted
    BY <1>1 DEF Simple, Local, ProcStep
  <2>2. /\ (hosted[r] # 0 /\ proc[p].pc \in Loose) => Agree(inst[hosted[r]], db[r], {})
        /\ (hosted[r] = 0 /\ proc[p].pc \in Early) => NotEnabled(r)
        /\ NoStray(db[r])
    BY <2>1, OwnRoom
  <2> QED
    BY <1>1, <2>1, <2>2 DEF OwnAfter, NotEnabled
<1> QED
  BY <1>1, PlainStep DEF Simple

LEMMA NewGetStore ==
  ASSUME CoreInv, StoreInv, NEW p \in Procs, NewGet(p)
  PROVE  StoreInv'
<1> DEFINE r == proc[p].room
<1>1. TypeInv /\ proc[p].pc = "new" /\ UNCHANGED <<db, hosted, inst, calm, failed>> /\ Simple(p)
  BY NewGetSimple DEF NewGet, At, CoreInv
<1>2. ASSUME r \in calm'
      PROVE  /\ StepOK(proc'[p], db[r], ObjectOf(p)')
             /\ proc'[p].pc \notin Loose \cup Early \cup {"idle"}
  <2>1. hosted[r] = 0
    BY <1>1, <1>2 DEF CoreInv, HostedAsDue, NotYet
  <2>2. Goto(p, "fetch") /\ "fetch" \in Pcs
    BY <2>1 DEF NewGet, Pcs, NewPcs
  <2>3. proc'[p].pc = "fetch" /\ proc'[p].op = proc[p].op /\ proc'[p].row = proc[p].row
    BY <1>1, <2>2, Going
  <2>4. StepOK(proc[p], db[r], ObjectOf(p))
    BY <1>1, <1>2, OwnRoom DEF EditPcs
  <2>5. StoreAwaits(proc'[p].op, db[r], proc'[p].row.prob)
    BY <1>1, <2>3, <2>4 DEF StepOK
  <2> QED
    BY <2>3, <2>5 DEF StepOK, Loose, Early, EditPcs, DeletePcs, Emptied
<1> QED
  BY <1>1, <1>2, LookingStep DEF EditPcs

LEMMA StartGetStore ==
  ASSUME CoreInv, StoreInv, NEW p \in Procs, StartGet(p)
  PROVE  StoreInv'
<1> DEFINE r == proc[p].room
<1>1. TypeInv /\ proc[p].pc = "start" /\ UNCHANGED <<db, hosted, inst, calm, failed>> /\ Simple(p)
  BY StartGetSimple DEF StartGet, At, CoreInv
<1>2. ASSUME r \in calm', proc'[p] # Idle
      PROVE  StepOK(proc'[p], db[r], ObjectOf(p)')
  <2>1. Goto(p, "find") /\ "find" \in Pcs
    BY <1>1, <1>2, EndingStep DEF StartGet, Pcs, StartPcs
  <2>2. proc'[p].pc = "find"
    BY <1>1, <2>1, Going
  <2>3. StepOK(proc[p], db[r], ObjectOf(p))
    BY <1>1, <1>2, OwnRoom DEF EditPcs
  <2> QED
    BY <1>1, <2>2, <2>3 DEF StepOK, EditPcs, DeletePcs, Emptied
<1> QED
  BY <1>1, <1>2, LookingStep DEF EditPcs, Loose, Early

LEMMA StartFindStore ==
  ASSUME CoreInv, StoreInv, NEW p \in Procs, StartFind(p)
  PROVE  StoreInv'
<1> DEFINE r == proc[p].room
<1>1. TypeInv /\ proc[p].pc = "find" /\ UNCHANGED <<db, hosted, inst, calm, failed>> /\ Simple(p)
  BY StartFindSimple DEF StartFind, At, CoreInv
<1>2. ASSUME r \in calm'
      PROVE  /\ StepOK(proc'[p], db[r], ObjectOf(p)')
             /\ hosted[r] = 0
  <2>1. hosted[r] = 0
    BY <1>1, <1>2 DEF CoreInv, HostedAsDue, NotYet
  <2>2. StepOK(proc[p], db[r], ObjectOf(p))
    BY <1>1, <1>2, OwnRoom DEF EditPcs
  <2>3. db[r].row # None
    BY <1>1, <2>2 DEF StepOK
  <2>4. proc'[p].row = db[r].row /\ proc'[p].pc = "update"
    BY <1>1, <2>3, ProcTyped DEF StartFind, TypeInv, Proc
  <2> QED
    BY <2>1, <2>3, <2>4 DEF StepOK, EditPcs, DeletePcs, Emptied
<1> QED
  BY <1>1, <1>2, LookingStep DEF EditPcs, Early

LEMMA StartPortStore ==
  ASSUME CoreInv, StoreInv, NEW p \in Procs, StartPort(p)
  PROVE  StoreInv'
<1> DEFINE r == proc[p].room
<1>1. TypeInv /\ proc[p].pc = "port" /\ UNCHANGED <<db, hosted, inst, calm, failed>> /\ Simple(p)
  BY StartPortSimple DEF StartPort, At, CoreInv
<1>2. Goto(p, "new") /\ "new" \in Pcs
  BY DEF StartPort, Pcs, NewPcs
<1>3. proc'[p].pc = "new" /\ proc'[p].op = proc[p].op /\ proc'[p].row = proc[p].row
  BY <1>1, <1>2, Going
<1>4. ASSUME r \in calm'
      PROVE  StepOK(proc'[p], db[r], ObjectOf(p)')
  <2>1. StepOK(proc[p], db[r], ObjectOf(p))
    BY <1>1, <1>4, OwnRoom DEF EditPcs
  <2>2. StoreAwaits(proc'[p].op, db[r], proc'[p].row.prob)
    BY <1>1, <1>3, <2>1 DEF StepOK
  <2> QED
    BY <1>3, <2>2 DEF StepOK, EditPcs, DeletePcs, Emptied
<1> QED
  BY <1>1, <1>3, <1>4, LookingStep DEF EditPcs, Loose, Early

LEMMA UploadStore ==
  ASSUME CoreInv, StoreInv, NEW p \in Procs, Upload(p)
  PROVE  StoreInv'
<1> DEFINE r == proc[p].room
<1>1. /\ TypeInv /\ proc[p].pc = "upload" /\ UNCHANGED <<db, hosted, inst, calm, failed>> /\ Simple(p)
      /\ proc'[p].pc = "new" /\ proc'[p].row.prob = 1
  BY UploadSimple DEF Upload, CoreInv
<1>2. proc'[p].op = "upload"
  <2>1. proc[p].op = "upload"
    BY <1>1, ProcTyped DEF FieldsOK
  <2> QED
    BY <1>1, <2>1, IdleOK DEF Simple, Local, ProcStep
<1>3. ASSUME r \in calm'
      PROVE  StepOK(proc'[p], db[r], ObjectOf(p)')
  <2>1. StepOK(proc[p], db[r], ObjectOf(p))
    BY <1>1, <1>3, OwnRoom DEF EditPcs
  <2>2. StoreAwaits(proc'[p].op, db[r], proc'[p].row.prob)
    BY <1>1, <1>2, <2>1 DEF StepOK, StoreAwaits
  <2> QED
    BY <1>1, <2>2 DEF StepOK, EditPcs, DeletePcs, Emptied
<1> QED
  BY <1>1, <1>3, LookingStep DEF EditPcs, Loose, Early

LEMMA StartUpdateStore ==
  ASSUME CoreInv, StoreInv, NEW p \in Procs, StartUpdate(p)
  PROVE  StoreInv'
<1> DEFINE r == proc[p].room
<1>1. /\ TypeInv /\ proc[p].pc = "update" /\ UNCHANGED <<hosted, inst, calm, failed>> /\ Simple(p)
      /\ proc'[p].pc = "enable" /\ proc'[p].row = [proc[p].row EXCEPT !.cfg = proc[p].want]
      /\ db'[r] = [db[r] EXCEPT !.over = KeptOver(db[r], proc[p].want, proc[p].row.cfg)]
  BY StartUpdateSimple DEF StartUpdate, At, CoreInv
<1>2. proc[p].row \in Row /\ db[r] \in Stored
  BY <1>1, ProcTyped DEF FieldsOK
<1>3. /\ proc'[p].row.ap = proc[p].row.ap /\ proc'[p].row.ids = proc[p].row.ids
      /\ proc'[p].row.prob = proc[p].row.prob /\ proc'[p].row.disabled = proc[p].row.disabled
  BY <1>1, <1>2 DEF Row
<1>4. db'[r].row = db[r].row /\ db'[r].alt = db[r].alt
  BY <1>1, <1>2 DEF Stored
<1>5. ASSUME r \in calm' PROVE OwnAfter(p, r)
  <2>1. /\ StepOK(proc[p], db[r], ObjectOf(p)) /\ NoStray(db[r])
        /\ hosted[r] = 0 => NotEnabled(r)
    BY <1>1, <1>5, OwnRoom DEF EditPcs, Early
  <2>2. db[r].row # None
    BY <1>1, <2>1 DEF StepOK
  <2>3. StepOK(proc'[p], db'[r], ObjectOf(p)')
    BY <1>1, <1>3, <1>4, <2>1, <2>2 DEF StepOK, EditPcs, DeletePcs, Emptied
  <2>4. NoStray(db'[r])
    BY <1>4, <2>1, <2>2 DEF NoStray
  <2>5. hosted'[r] = 0 => db'[r].row = None \/ db'[r].row.disabled \/ r \in failed'
    BY <1>1, <1>4, <2>1 DEF NotEnabled
  <2> QED
    BY <1>1, <2>3, <2>4, <2>5 DEF OwnAfter, Loose
<1> QED
  BY <1>1, <1>5, PlainStep DEF EditPcs, Simple

(* SetDisabled leaves the other columns and tables alone.                  *)
LEMMA DisabledFields ==
  ASSUME NEW s \in Stored, NEW b \in BOOLEAN, s.row # None, NEW n, n = WithDisabled(s, b)
  PROVE  /\ n.row # None /\ n.row.disabled = b /\ n.row.prob = s.row.prob
         /\ n.alt = s.alt
<1> DEFINE x == [s.row EXCEPT !.disabled = b]
<1>1. s.row \in Row
  BY StoredFields
<1>2. x \in Row /\ x.disabled = b /\ x.prob = s.row.prob
  BY <1>1 DEF Row
<1>3. n = [s EXCEPT !.row = x]
  BY DEF WithDisabled
<1> HIDE DEF x
<1>4. n.row = x /\ n.alt = s.alt
  BY <1>3 DEF Stored
<1> QED
  BY <1>2, <1>4, NoneAssumption

LEMMA StartEnableStore ==
  ASSUME CoreInv, StoreInv, NEW p \in Procs, StartEnable(p)
  PROVE  StoreInv'
<1> DEFINE r == proc[p].room
<1>1. TypeInv /\ proc[p].pc = "enable" /\ UNCHANGED <<hosted, inst, calm, failed>> /\ Simple(p)
  BY StartEnableSimple DEF StartEnable, At, CoreInv
<1>2. proc[p].row \in Row /\ proc[p].op = "start" /\ db[r] \in Stored /\ r \in Rooms
  BY <1>1, ProcTyped DEF FieldsOK, StartPcs
<1>3. ASSUME r \in calm' PROVE OwnAfter(p, r)
  <2>1. hosted[r] = 0
    BY <1>1, <1>3 DEF CoreInv, HostedAsDue, NotYet
  <2>2. StepOK(proc[p], db[r], ObjectOf(p)) /\ NoStray(db[r])
    BY <1>1, <1>3, OwnRoom DEF EditPcs
  <2>3. /\ db[r].row # None /\ proc[p].row.prob = db[r].row.prob
        /\ proc[p].row.disabled = db[r].row.disabled
    BY <1>1, <2>2 DEF StepOK
  <2>4. Goto(p, "port") /\ "port" \in Pcs
    BY <2>1 DEF StartEnable, Pcs, StartPcs
  <2>5. proc'[p].pc = "port" /\ proc'[p].op = "start" /\ proc'[p].row = proc[p].row
    BY <1>1, <1>2, <2>4, Going
  <2>6. /\ db'[r].row # None /\ ~db'[r].row.disabled /\ db'[r].row.prob = db[r].row.prob
        /\ NoStray(db'[r])
    <3>1. CASE proc[p].row.disabled
      <4>1. SetDisabled(r, FALSE)
        BY <3>1 DEF StartEnable
      <4>2. db'[r] = WithDisabled(db[r], FALSE)
        BY <1>1, <1>2, <4>1, SetDisabledOK DEF TypeInv
      <4>3. /\ db'[r].row # None /\ db'[r].row.disabled = FALSE
            /\ db'[r].row.prob = db[r].row.prob /\ db'[r].alt = db[r].alt
        <5> DEFINE n == db'[r]
                   b == FALSE
        <5>1. n = WithDisabled(db[r], b) /\ b \in BOOLEAN
          BY <4>2
        <5> HIDE DEF n, b
        <5>2. n.row # None /\ n.row.disabled = b /\ n.row.prob = db[r].row.prob /\ n.alt = db[r].alt
          BY <1>2, <2>3, <5>1, DisabledFields
        <5> QED
          BY <5>2 DEF n, b
      <4> QED
        BY <2>2, <4>3 DEF NoStray
    <3>2. CASE ~proc[p].row.disabled
      <4>1. db' = db
        BY <3>2 DEF StartEnable
      <4> QED
        BY <2>2, <2>3, <3>2, <4>1
    <3> QED
      BY <3>1, <3>2
  <2>7. StoreAwaits(proc'[p].op, db'[r], proc'[p].row.prob)
    BY <2>3, <2>5, <2>6 DEF StoreAwaits
  <2>8. StepOK(proc'[p], db'[r], ObjectOf(p)')
    BY <2>5, <2>7 DEF StepOK, EditPcs, DeletePcs, Emptied
  <2> QED
    BY <2>5, <2>6, <2>8 DEF OwnAfter, Loose, Early
<1> QED
  BY <1>1, <1>3, PlainStep DEF EditPcs, Simple

LEMMA DisableStore ==
  ASSUME CoreInv, StoreInv, NEW p \in Procs, Disable(p)
  PROVE  StoreInv'
<1> DEFINE r == proc[p].room
<1>1. /\ TypeInv /\ proc[p].pc = "disable" /\ UNCHANGED <<inst, calm, failed>> /\ Simple(p)
      /\ proc'[p].pc = "remove" /\ db'[r] = WithDisabled(db[r], TRUE)
  BY DisableSimple DEF CoreInv
<1>2. proc[p].op \in {"stop", "kill"} /\ proc'[p].op = proc[p].op
  BY <1>1, ProcTyped, IdleOK DEF FieldsOK, Simple, Local, ProcStep
<1>3. ASSUME r \in calm' PROVE OwnAfter(p, r)
  <2>1. StepOK(proc[p], db[r], ObjectOf(p)) /\ NoStray(db[r]) /\ db[r] \in Stored
    BY <1>1, <1>3, OwnRoom DEF EditPcs
  <2>2. db[r].row # None
    BY <1>1, <2>1 DEF StepOK
  <2>3. db'[r].row # None /\ db'[r].row.disabled /\ NoStray(db'[r])
    BY <1>1, <2>1, <2>2, DisabledFields DEF NoStray
  <2>4. StepOK(proc'[p], db'[r], ObjectOf(p)')
    BY <1>1, <1>2, <2>3 DEF StepOK, EditPcs, DeletePcs, Emptied
  <2> QED
    BY <1>1, <2>3, <2>4 DEF OwnAfter, Loose, Early
<1> QED
  BY <1>1, <1>3, PlainStep DEF EditPcs, Simple

(* What is left when the tables are empty, and when the row is deleted     *)
LEMMA OnlyRow ==
  ASSUME NEW s \in Stored, Emptied("deleteRow", s)
  PROVE  [s EXCEPT !.row = None] = NothingStored
<1> DEFINE v == [k \in Switches |-> {}]
<1>1. s.over \in [Switches -> SUBSET Slots] /\ \A k \in Switches : s.over[k] = {}
  BY StoredFields, SwitchesAssumption DEF Emptied
<1>2. s.over = v
  BY <1>1
<1>3. s.deaths = 0 /\ s.alt = {}
  BY DEF Emptied
<1> HIDE DEF v
<1>4. [s EXCEPT !.row = None] = [row |-> None, over |-> v, deaths |-> 0, alt |-> {}]
  BY <1>2, <1>3 DEF Stored
<1> QED
  BY <1>4 DEF NothingStored, v

(* Each deletion empties one more table.                                   *)
LEMMA EmptiesOneMore ==
  ASSUME NEW s \in Stored, NEW c \in DeletePcs, Emptied(c, s)
  PROVE  Emptied(AfterDelete[c], WithoutTable(s, c))
<1>1. /\ WithoutTable(s, c).over = [k \in Switches |-> IF <<c, k>> \in SwitchTables THEN {} ELSE s.over[k]]
      /\ WithoutTable(s, c).deaths = (IF c = "deleteDeaths" THEN 0 ELSE s.deaths)
      /\ WithoutTable(s, c).alt = (IF c = "deleteNames" THEN {} ELSE s.alt)
  BY WithoutTableOK
<1>2. \A k \in Switches : WithoutTable(s, c).over[k] = IF <<c, k>> \in SwitchTables THEN {} ELSE s.over[k]
  BY <1>1
<1>3. CASE c = "deleteFeed"
  BY <1>2, <1>3 DEF Emptied, AfterDelete, SwitchTables
<1>4. CASE c = "deleteOwn"
  BY <1>2, <1>4 DEF Emptied, AfterDelete, SwitchTables
<1>5. CASE c = "deleteTags"
  BY <1>2, <1>5 DEF Emptied, AfterDelete, SwitchTables
<1>6. CASE c = "deleteNames"
  BY <1>1, <1>2, <1>6 DEF Emptied, AfterDelete, SwitchTables
<1>7. CASE c = "deleteDeaths"
  BY <1>1, <1>2, <1>7 DEF Emptied, AfterDelete, SwitchTables
<1> QED
  BY <1>3, <1>4, <1>5, <1>6, <1>7 DEF DeletePcs

LEMMA DeleteRowsStore ==
  ASSUME CoreInv, StoreInv, NEW p \in Procs, DeleteRows(p)
  PROVE  StoreInv'
<1>0. PICK r, c, d : r = proc[p].room /\ c = proc[p].pc /\ d = AfterDelete[c]
  OBVIOUS
<1>1. /\ TypeInv /\ c \in DeletePcs /\ UNCHANGED <<inst, calm, failed>> /\ Simple(p)
      /\ proc'[p].pc = d /\ db'[r] = WithoutTable(db[r], c)
  BY <1>0, DeleteRowsSimple DEF CoreInv
<1>2. /\ c \notin EditPcs /\ c # "idle" /\ d \in {"deleteOwn", "deleteTags", "deleteNames", "deleteDeaths", "deleteRow"}
  BY <1>0, <1>1, AfterDeleteOK, DeletePcsApart
<1>3. ASSUME r \in calm' PROVE OwnAfter(p, r)
  <2>1. StepOK(proc[p], db[r], ObjectOf(p)) /\ NoStray(db[r]) /\ db[r] \in Stored
    BY <1>0, <1>1, <1>2, <1>3, OwnRoom
  <2>2. db[r].row # None /\ Emptied(c, db[r])
    BY <1>0, <1>1, <2>1 DEF StepOK
  <2>3. db'[r].row = db[r].row /\ \A x \in db'[r].alt : x \in db[r].alt
    <3>1. /\ WithoutTable(db[r], c).row = db[r].row
          /\ WithoutTable(db[r], c).alt = (IF c = "deleteNames" THEN {} ELSE db[r].alt)
      BY <2>1, WithoutTableOK
    <3> QED
      BY <1>1, <3>1
  <2>4. Emptied(d, db'[r])
    BY <1>0, <1>1, <2>1, <2>2, EmptiesOneMore
  <2>5. StepOK(proc'[p], db'[r], ObjectOf(p)')
    BY <1>1, <1>2, <2>2, <2>3, <2>4 DEF StepOK, EditPcs
  <2>6. NoStray(db'[r])
    BY <2>1, <2>2, <2>3 DEF NoStray
  <2> QED
    BY <1>1, <1>2, <2>5, <2>6 DEF OwnAfter, Loose, Early
<1> QED
  BY <1>0, <1>1, <1>2, <1>3, PlainStep DEF Simple

LEMMA DeleteRowStore ==
  ASSUME CoreInv, StoreInv, NEW p \in Procs, DeleteRow(p)
  PROVE  StoreInv'
<1> DEFINE r == proc[p].room
<1>1. /\ TypeInv /\ proc[p].pc = "deleteRow" /\ UNCHANGED <<inst, calm, failed>> /\ Simple(p)
      /\ proc'[p].pc = "remove" /\ db'[r] = [db[r] EXCEPT !.row = None]
  BY DeleteRowSimple DEF CoreInv
<1>2. proc'[p].op = "delete"
  BY <1>1, ProcTyped, IdleOK DEF FieldsOK, Simple, Local, ProcStep
<1>3. ASSUME r \in calm' PROVE OwnAfter(p, r)
  <2>1. StepOK(proc[p], db[r], ObjectOf(p)) /\ db[r] \in Stored
    BY <1>1, <1>3, OwnRoom DEF EditPcs
  <2>2. Emptied("deleteRow", db[r])
    BY <1>1, <2>1 DEF StepOK
  <2>3. db'[r] = NothingStored
    BY <1>1, <2>1, <2>2, OnlyRow
  <2>4. StepOK(proc'[p], db'[r], ObjectOf(p)')
    BY <1>1, <1>2, <2>3 DEF StepOK, EditPcs, DeletePcs, Emptied
  <2> QED
    BY <1>1, <2>3, <2>4, NothingStoredOK DEF OwnAfter, Loose, Early, NoStray
<1> QED
  BY <1>1, <1>3, PlainStep DEF EditPcs, Simple

LEMMA RemoveStore ==
  ASSUME CoreInv, StoreInv, NEW p \in Procs, RemoveRoom(p)
  PROVE  StoreInv'
<1>0. PICK r : r = proc[p].room
  OBVIOUS
<1>1. /\ Local(p) /\ UNCHANGED <<db, calm, failed>> /\ proc[p].pc = "remove" /\ proc'[p] = Idle
      /\ hosted'[r] = 0 /\ \A j \in Built : inst[j].room # r => inst'[j] = inst[j]
  <2>1. CASE hosted[r] = 0
    BY <1>0, <2>1, RemoveNothing DEF CoreInv, Simple
  <2>2. CASE hosted[r] # 0
    <3>1. PICK i : i = hosted[r]
      OBVIOUS
    <3>2. /\ Local(p) /\ UNCHANGED <<db, calm, failed>> /\ proc[p].pc = "remove" /\ proc'[p] = Idle
          /\ hosted'[r] = 0 /\ r \in Rooms /\ \A j \in Built : j # i => inst'[j] = inst[j]
      BY <1>0, <2>2, <3>1, RemoveEffect DEF CoreInv
    <3>3. inst[i].room = r
      BY <2>2, <3>1, <3>2 DEF CoreInv, IdsPart, IdsInv
    <3> QED
      BY <3>2, <3>3
  <2> QED
    BY <2>1, <2>2
<1>2. ASSUME r \in calm' PROVE OwnAfter(p, r)
  <2>1. StepOK(proc[p], db[r], ObjectOf(p)) /\ NoStray(db[r])
    BY <1>0, <1>1, <1>2, OwnRoom DEF EditPcs
  <2>2. db[r].row = None \/ db[r].row.disabled
    BY <1>1, <2>1, NothingStoredOK DEF StepOK
  <2> QED
    BY <1>1, <2>1, <2>2 DEF OwnAfter
<1> QED
  BY <1>0, <1>1, <1>2, PlainStep DEF EditPcs

LEMMA FailsStore ==
  ASSUME CoreInv, StoreInv, NEW p \in Procs, Fails(p)
  PROVE  StoreInv'
<1> DEFINE r == proc[p].room
<1>1. /\ TypeInv /\ Simple(p) /\ UNCHANGED <<db, inst, hosted>> /\ proc'[p] = Idle /\ proc'[p].pc = "idle"
      /\ proc[p].pc \in {"find", "enable", "port", "fetch", "upload", "deleteRow", "disable"}
      /\ failed' = IF proc[p].pc \in {"port", "fetch"} THEN failed \cup {r} ELSE failed
      /\ calm' = IF proc[p].pc = "deleteRow" THEN calm \ {r} ELSE calm
  BY FailsSimple, IdleOK DEF CoreInv, Fails, At
<1>2. ASSUME r \in calm' PROVE OwnAfter(p, r)
  <2>1. r \in calm /\ proc[p].pc # "deleteRow"
    BY <1>1, <1>2
  <2>2. /\ StepOK(proc[p], db[r], ObjectOf(p)) /\ NoStray(db[r])
        /\ (hosted[r] # 0 /\ proc[p].pc \in Loose) => Agree(inst[hosted[r]], db[r], {})
        /\ (hosted[r] = 0 /\ proc[p].pc \in Early) => NotEnabled(r)
    BY <1>1, <2>1, OwnRoom DEF EditPcs
  <2>3. IF proc[p].pc = "disable" THEN hosted[r] # 0 ELSE hosted[r] = 0
    BY <1>1, <2>1 DEF CoreInv, HostedAsDue, NotYet
  <2>4. hosted[r] # 0 => Agree(inst[hosted[r]], db[r], {})
    BY <2>2, <2>3 DEF Loose
  <2>5. hosted[r] = 0 => db[r].row = None \/ db[r].row.disabled \/ r \in failed'
    <3>1. CASE proc[p].pc \in {"find", "enable"}
      BY <1>1, <2>2, <3>1 DEF Early, NotEnabled
    <3>2. CASE proc[p].pc \in {"port", "fetch"}
      BY <1>1, <3>2
    <3>3. CASE proc[p].pc = "upload"
      BY <2>2, <3>3, NothingStoredOK DEF StepOK
    <3> QED
      BY <1>1, <2>1, <2>3, <3>1, <3>2, <3>3
  <2> QED
    BY <1>1, <2>2, <2>4, <2>5 DEF OwnAfter
<1> QED
  BY <1>1, <1>2, PlainStep DEF EditPcs, Simple

LEMMA StoreFailsStore ==
  ASSUME CoreInv, StoreInv, NEW p \in Procs, StoreFails(p)
  PROVE  StoreInv'
<1>1. Simple(p) /\ UNCHANGED <<db, inst, failed>> /\ calm' = calm \ {proc[p].room}
  BY StoreFailsSimple DEF CoreInv
<1>2. PICK r : r = proc[p].room
  OBVIOUS
<1> QED
  BY <1>1, <1>2, StepStore DEF Simple

LEMMA ConfigFailsStore ==
  ASSUME CoreInv, StoreInv, NEW p \in Procs, UpdateFails(p) \/ RestoreFails(p)
  PROVE  StoreInv'
<1>1. PICK r : r = proc[p].room
  OBVIOUS
<1>2. /\ Simple(p) /\ failed' = failed /\ calm' = calm \ {r}
      /\ \A j \in Built : inst[j].room # r => inst'[j] = inst[j]
  <2>1. CASE UpdateFails(p)
    BY <1>1, <2>1, UpdateFailsSimple DEF CoreInv
  <2>2. CASE RestoreFails(p)
    BY <1>1, <2>2, RestoreFailsSimple DEF CoreInv
  <2> QED
    BY <2>1, <2>2
<1> QED
  BY <1>1, <1>2, StepStore DEF Simple

LEMMA NewBuildStore ==
  ASSUME CoreInv, StoreInv, NEW p \in Procs, NewBuild(p)
  PROVE  StoreInv'
<1>0. PICK r, m : r = proc[p].room /\ m = Cardinality(Built) + 1
  OBVIOUS
<1>1. /\ Local(p) /\ UNCHANGED <<db, hosted, calm, failed>>
      /\ m \in Insts /\ m \notin Built /\ \A i \in Built : inst'[i] = inst[i]
      /\ inst'[m] = NewObject(p)
      /\ proc[p].pc = "fetch" /\ proc'[p].pc = "allocate" /\ proc'[p].inst = m
      /\ proc'[p].row = proc[p].row /\ proc'[p].op = proc[p].op
  BY <1>0, NewBuildEffect DEF CoreInv
<1>2. ASSUME r \in calm' PROVE OwnAfter(p, r)
  <2>1. StepOK(proc[p], db[r], ObjectOf(p)) /\ NoStray(db[r])
    BY <1>0, <1>1, <1>2, OwnRoom DEF EditPcs
  <2>2. StoreAwaits(proc[p].op, db[r], proc[p].row.prob)
    BY <1>1, <2>1 DEF StepOK
  <2>3. m # 0
    BY <1>1 DEF Insts
  <2>4. ObjectOf(p)' = NewObject(p)
    BY <1>1, <2>3 DEF ObjectOf
  <2>5. Fresh(NewObject(p), proc[p].row) /\ NewObject(p).prob = proc[p].row.prob
    BY <1>1, NewObjectOK DEF Fresh, CoreInv
  <2>6. StepOK(proc'[p], db'[r], ObjectOf(p)')
    BY <1>1, <2>2, <2>4, <2>5 DEF StepOK, EditPcs, DeletePcs, Emptied
  <2> QED
    BY <1>1, <2>1, <2>6 DEF OwnAfter, Loose, Early
<1> QED
  BY <1>0, <1>1, <1>2, PlainStep DEF EditPcs

LEMMA NewAllocateStore ==
  ASSUME CoreInv, StoreInv, NEW p \in Procs, NewAllocate(p)
  PROVE  StoreInv'
<1>0. PICK r, i : r = proc[p].room /\ i = proc[p].inst
  OBVIOUS
<1>1. /\ Local(p) /\ UNCHANGED <<db, hosted, calm>> /\ proc[p].pc = "allocate"
      /\ i \in Built /\ \A j \in Built : j # i => inst'[j] = inst[j]
      /\ inst'[i].ap = inst[i].ap /\ inst'[i].cfg = inst[i].cfg
      /\ inst'[i].sw = inst[i].sw /\ inst'[i].prob = inst[i].prob /\ inst'[i].deaths = inst[i].deaths
      /\ inst'[i].alt = inst[i].alt
      /\ \/ proc'[p] = Idle /\ failed' = failed \cup {r}
         \/ /\ proc'[p].pc = "add" /\ proc'[p].inst = i
            /\ proc'[p].row = proc[p].row /\ proc'[p].op = proc[p].op /\ failed' = failed
  BY <1>0, NewAllocateEffect DEF CoreInv
<1>2. inst[i].room = r /\ i # 0
  BY <1>0, <1>1, ProcTyped DEF CoreInv, FieldsOK, InstOK
<1>3. ASSUME r \in calm' PROVE OwnAfter(p, r)
  <2>1. StepOK(proc[p], db[r], ObjectOf(p)) /\ NoStray(db[r])
    BY <1>0, <1>1, <1>3, OwnRoom DEF EditPcs
  <2>2. hosted[r] = 0
    BY <1>0, <1>1, <1>3 DEF CoreInv, HostedAsDue, NotYet
  <2>3. CASE proc'[p] = Idle /\ failed' = failed \cup {r}
    BY <1>1, <2>1, <2>2, <2>3 DEF OwnAfter
  <2>4. CASE /\ proc'[p].pc = "add" /\ proc'[p].inst = i
             /\ proc'[p].row = proc[p].row /\ proc'[p].op = proc[p].op
    <3>1. ObjectOf(p) = inst[i] /\ ObjectOf(p)' = inst'[i]
      BY <1>0, <1>2, <2>4 DEF ObjectOf
    <3>2. Fresh(inst[i], proc[p].row) /\ StoreAwaits(proc[p].op, db[r], inst[i].prob)
      BY <1>1, <2>1, <3>1 DEF StepOK
    <3>3. Fresh(inst'[i], proc[p].row)
      BY <1>1, <3>2 DEF Fresh
    <3>4. StepOK(proc'[p], db'[r], ObjectOf(p)')
      BY <1>1, <2>4, <3>1, <3>2, <3>3 DEF StepOK, EditPcs, DeletePcs, Emptied
    <3> QED
      BY <1>1, <2>1, <2>4, <3>4 DEF OwnAfter, Loose, Early
  <2> QED
    BY <1>1, <2>3, <2>4
<1> QED
  BY <1>0, <1>1, <1>2, <1>3, PlainStep DEF EditPcs

LEMMA NewAddStore ==
  ASSUME CoreInv, StoreInv, NEW p \in Procs, NewAdd(p)
  PROVE  StoreInv'
<1>0. PICK r, i : r = proc[p].room /\ i = proc[p].inst
  OBVIOUS
<1>1. /\ Local(p) /\ UNCHANGED <<db, inst, calm>> /\ proc[p].pc = "add"
      /\ i \in Built /\ i # 0
      /\ \/ hosted[r] # 0 /\ failed' = failed
         \/ /\ hosted[r] = 0 /\ hosted'[r] = i
            /\ proc'[p].pc = "save" /\ proc'[p].inst = i
            /\ proc'[p].row = proc[p].row /\ proc'[p].op = proc[p].op /\ failed' = failed \ {r}
  BY <1>0, NewAddEffect DEF CoreInv
<1>2. ASSUME r \in calm' PROVE OwnAfter(p, r)
  <2>1. StepOK(proc[p], db[r], ObjectOf(p)) /\ NoStray(db[r])
    BY <1>0, <1>1, <1>2, OwnRoom DEF EditPcs
  <2>2. hosted[r] = 0
    BY <1>0, <1>1, <1>2 DEF CoreInv, HostedAsDue, NotYet
  <2>3. /\ hosted'[r] = i /\ proc'[p].pc = "save" /\ proc'[p].inst = i
        /\ proc'[p].row = proc[p].row /\ proc'[p].op = proc[p].op
    BY <1>1, <2>2
  <2>4. ObjectOf(p)' = ObjectOf(p)
    BY <1>0, <1>1, <2>3 DEF ObjectOf
  <2>5. StepOK(proc'[p], db'[r], ObjectOf(p)')
    BY <1>1, <2>1, <2>3, <2>4 DEF StepOK, EditPcs, DeletePcs, Emptied
  <2> QED
    BY <1>1, <2>1, <2>3, <2>5 DEF OwnAfter, Loose, Early
<1> QED
  BY <1>0, <1>1, <1>2, PlainStep DEF EditPcs

LEMMA NewSaveStore ==
  ASSUME CoreInv, StoreInv, NEW p \in Procs, NewSave(p)
  PROVE  StoreInv'
<1>0. PICK r, i : r = proc[p].room /\ i = proc[p].inst
  OBVIOUS
<1>1. /\ TypeInv /\ Simple(p) /\ UNCHANGED <<inst, calm, failed, hosted>> /\ proc[p].pc = "save"
      /\ IF proc[p].op = "upload" THEN proc'[p] = Idle
         ELSE proc'[p].pc = "restore" /\ proc'[p].inst = i /\ proc'[p].row = proc[p].row
      /\ db'[r] = Saving(db[r], inst[i])
  BY <1>0, NewSaveSimple DEF CoreInv, Simple, Saving
<1>2. i \in Built /\ i # 0 /\ inst[i] \in Object
  BY <1>0, <1>1, ProcTyped DEF TypeInv, FieldsOK, InstOK
<1>3. ASSUME r \in calm' PROVE OwnAfter(p, r)
  <2>1. StepOK(proc[p], db[r], ObjectOf(p)) /\ NoStray(db[r]) /\ db[r] \in Stored
    BY <1>0, <1>1, <1>3, OwnRoom DEF EditPcs
  <2>2. hosted[r] = i
    BY <1>0, <1>1, <1>3 DEF CoreInv, HostedAsDue
  <2>3. ObjectOf(p) = inst[i]
    BY <1>0, <1>2 DEF ObjectOf
  <2>4. Fresh(inst[i], proc[p].row) /\ StoreAwaits(proc[p].op, db[r], inst[i].prob)
    BY <1>1, <2>1, <2>3 DEF StepOK
  <2>5. CASE proc[p].op = "upload"
    <3>1. db[r] = NothingStored /\ inst[i].prob = 1
      BY <2>4, <2>5 DEF StoreAwaits
    <3>2. Agree(inst[i], db'[r], {})
      BY <1>1, <1>2, <2>4, <3>1, UploadAgrees
    <3>3. NoStray(db'[r])
      BY <1>1, <1>2, <2>1, <3>1, SavedSame, NothingStoredOK DEF NoStray
    <3> QED
      BY <1>1, <1>2, <2>2, <2>5, <3>2, <3>3 DEF OwnAfter
  <2>6. CASE proc[p].op # "upload"
    <3>1. db[r].row # None /\ ~db[r].row.disabled /\ db[r].row.prob = inst[i].prob
      BY <2>4, <2>6 DEF StoreAwaits
    <3>2. SameRow(inst[i], db'[r].row) /\ db'[r].row.prob = inst[i].prob /\ NoStray(db'[r])
      BY <1>1, <1>2, <2>1, <3>1, SavedSame DEF NoStray
    <3>3. ObjectOf(p)' = inst[i] /\ proc'[p].pc = "restore" /\ proc'[p].row = proc[p].row
      BY <1>1, <1>2, <2>6 DEF ObjectOf
    <3>4. StepOK(proc'[p], db'[r], ObjectOf(p)')
      BY <2>4, <3>2, <3>3 DEF StepOK, EditPcs, DeletePcs, Emptied
    <3> QED
      BY <3>2, <3>3, <3>4 DEF OwnAfter, Loose, Early
  <2> QED
    BY <2>5, <2>6
<1> QED
  BY <1>0, <1>1, <1>3, PlainStep DEF EditPcs, Simple

LEMMA RestoreStore ==
  ASSUME CoreInv, StoreInv, NEW p \in Procs, Restore(p)
  PROVE  StoreInv'
<1>0. PICK r, i : r = proc[p].room /\ i = proc[p].inst
  OBVIOUS
<1>1. /\ TypeInv /\ Simple(p) /\ UNCHANGED <<db, calm, failed, hosted>> /\ proc[p].pc = "restore"
      /\ proc'[p] = Idle /\ RestoredAs(inst'[i], inst[i], db[r])
      /\ \A j \in Built : j # i => inst'[j] = inst[j]
  BY <1>0, RestoreSimple DEF CoreInv, Simple
<1>2. i \in Built /\ i # 0 /\ inst[i] \in Object /\ inst[i].room = r
  BY <1>0, <1>1, ProcTyped DEF TypeInv, FieldsOK, InstOK
<1>3. ASSUME r \in calm' PROVE OwnAfter(p, r)
  <2>1. StepOK(proc[p], db[r], ObjectOf(p)) /\ NoStray(db[r]) /\ db[r] \in Stored
    BY <1>0, <1>1, <1>3, OwnRoom DEF EditPcs
  <2>2. hosted[r] = i
    BY <1>0, <1>1, <1>3 DEF CoreInv, HostedAsDue
  <2>3. ObjectOf(p) = inst[i]
    BY <1>0, <1>2 DEF ObjectOf
  <2>4. Fresh(inst[i], proc[p].row) /\ SameRow(inst[i], db[r].row) /\ db[r].row.prob = inst[i].prob
    BY <1>1, <2>1, <2>3 DEF StepOK
  <2>5. inst'[i] \in Object
    BY <1>1 DEF RestoredAs
  <2>6. Agree(inst'[i], db[r], {})
    BY <1>1, <1>2, <2>1, <2>4, <2>5, RestoredAgrees
  <2> QED
    BY <1>1, <1>2, <2>1, <2>2, <2>6 DEF OwnAfter
<1> QED
  BY <1>0, <1>1, <1>2, <1>3, PlainStep DEF EditPcs, Simple

(* What holds of a calm room that is edited: all requests on it are edits  *)
(* of different things.                                                    *)
EditsOnly(p, r, i, e) ==
  \A q \in Procs : (q # p /\ Active(q, r)) =>
    /\ proc[q].pc \in EditPcs /\ proc[q].inst = i /\ proc[q].edit \in Edit
    /\ Unrelated(e, proc[q].edit) /\ EditOK(proc[q].pc, proc[q].edit, inst[i], db[r])

LEMMA EditedRoom ==
  ASSUME CoreInv, StoreInv, NEW p \in Procs, proc[p].pc \in EditPcs, NEW r \in calm, r = proc[p].room,
         NEW i, i = proc[p].inst, NEW e, e = proc[p].edit
  PROVE  /\ r \in Rooms /\ i \in Built /\ i # 0 /\ inst[i] \in Object /\ hosted[r] = i
         /\ db[r] \in Stored /\ e \in Edit /\ NoStray(db[r])
         /\ EditOK(proc[p].pc, e, inst[i], db[r])
         /\ Agree(inst[i], db[r], PendingEdits(r))
         /\ EditsOnly(p, r, i, e)
<1>1. /\ TypeInv /\ proc[p].pc # "idle" /\ RoomView(r) /\ Active(p, r)
  BY DEF CoreInv, StoreInv, EditPcs, Active
<1>2. r \in Rooms /\ i \in Built /\ i # 0 /\ inst[i] \in Object /\ db[r] \in Stored /\ e \in Edit
  BY <1>1, ProcTyped, ProcFields DEF TypeInv, FieldsOK, InstOK, EditPcs
<1>3. hosted[r] = i
  BY <1>1 DEF CoreInv, HostedAsDue, EditPcs
<1>4. ASSUME NEW q \in Procs, Active(q, r)
      PROVE  /\ proc[q].pc \in EditPcs /\ proc[q].inst = i /\ proc[q].edit \in Edit
             /\ q # p => Unrelated(e, proc[q].edit)
             /\ EditOK(proc[q].pc, proc[q].edit, inst[i], db[r])
  <2>1. q # p => Unrelated(e, proc[q].edit)
    BY <1>1, <1>4 DEF CoreInv, Apart
  <2>2. proc[q].edit # None
    BY <1>2, <2>1, NoneAssumption DEF Unrelated
  <2>3. proc[q].pc \in EditPcs /\ proc[q].edit \in Edit
    BY <1>1, <1>4, <2>2, ProcTyped, ProcFields DEF FieldsOK, Active
  <2>4. proc[q].inst = i
    BY <1>3, <1>4, <2>3 DEF CoreInv, HostedAsDue, EditPcs, Active
  <2>5. StepOK(proc[q], db[r], ObjectOf(q)) /\ ObjectOf(q) = inst[i]
    BY <1>1, <1>2, <1>4, <2>4 DEF RoomView, ObjectOf
  <2> QED
    BY <2>1, <2>3, <2>4, <2>5 DEF StepOK
<1>5. AllIn(r, Loose)
  BY <1>4 DEF AllIn, Loose, EditPcs
<1>6. Agree(inst[i], db[r], PendingEdits(r)) /\ NoStray(db[r])
  BY <1>1, <1>2, <1>3, <1>5 DEF RoomView
<1> QED
  BY <1>1, <1>2, <1>3, <1>4, <1>6 DEF EditsOnly

(* What is to be shown after an edit's step                                *)
LEMMA EditedRoomAfter ==
  ASSUME CoreInv, NEW p \in Procs, Local(p), NEW r \in calm, r = proc[p].room,
         NEW i, i = proc[p].inst, i # 0, NEW e, hosted'[r] = i, EditsOnly(p, r, i, e),
         \A q \in Procs : (q # p /\ Active(q, r)) => EditOK(proc[q].pc, proc[q].edit, inst'[i], db'[r]),
         proc'[p] # Idle => /\ proc'[p].pc \in EditPcs /\ proc'[p].inst = i
                            /\ EditOK(proc'[p].pc, proc'[p].edit, inst'[i], db'[r]),
         Agree(inst'[i], db'[r], PendingEdits(r)'), NoStray(db'[r])
  PROVE  RoomView(r)'
<1>1. ASSUME NEW q \in Procs, Active(q, r)'
      PROVE  StepOK(proc[q], db[r], ObjectOf(q))'
  <2>1. proc'[q].pc \in EditPcs /\ proc'[q].inst = i /\ EditOK(proc'[q].pc, proc'[q].edit, inst'[i], db'[r])
    <3>1. CASE q = p
      BY <1>1, <3>1, IdleOK DEF Active
    <3>2. CASE q # p
      <4>1. proc'[q] = proc[q]
        BY <3>2 DEF Local, ProcStep
      <4>2. Active(q, r)
        BY <1>1, <4>1 DEF Active
      <4> QED
        BY <3>2, <4>1, <4>2 DEF EditsOnly
    <3> QED
      BY <3>1, <3>2
  <2>2. ObjectOf(q)' = inst'[i]
    BY <2>1 DEF ObjectOf
  <2> QED
    BY <2>1, <2>2 DEF StepOK, EditPcs, DeletePcs, Emptied
<1> QED
  BY <1>1 DEF RoomView

LEMMA EditMemoryStore ==
  ASSUME CoreInv, StoreInv, NEW p \in Procs, EditMemory(p)
  PROVE  StoreInv'
<1>0. PICK r, i, e : r = proc[p].room /\ i = proc[p].inst /\ e = proc[p].edit
  OBVIOUS
<1>1. /\ TypeInv /\ Simple(p) /\ UNCHANGED <<db, calm, failed, hosted>> /\ proc[p].pc = "memory" /\ proc'[p].pc = "store"
      /\ proc'[p].inst = i /\ EditedAs(inst'[i], inst[i], e) /\ Local(p)
      /\ \A j \in Built : j # i => inst'[j] = inst[j]
  BY <1>0, EditMemorySimple DEF CoreInv, Simple
<1>2. inst[i].room = r /\ proc'[p].edit = e /\ proc'[p].room = r
  BY <1>0, <1>1, ProcTyped, IdleOK DEF FieldsOK, InstOK, Local, ProcStep
<1>3. ASSUME r \in calm' PROVE RoomView(r)'
  <2>1. /\ r \in Rooms /\ i \in Built /\ i # 0 /\ inst[i] \in Object /\ hosted[r] = i
        /\ db[r] \in Stored /\ e \in Edit /\ NoStray(db[r])
        /\ EditOK("memory", e, inst[i], db[r])
        /\ Agree(inst[i], db[r], PendingEdits(r))
        /\ EditsOnly(p, r, i, e)
    BY <1>0, <1>1, <1>3, EditedRoom DEF EditPcs
  <2>2. inst'[i] \in Object
    BY <1>1 DEF EditedAs
  <2>3. \A q \in Procs : (q # p /\ Active(q, r)) => EditOK(proc[q].pc, proc[q].edit, inst'[i], db'[r])
    BY <1>1, <2>1, <2>2, EditOKEdited DEF EditsOnly
  <2>4. \A f \in PendingEdits(r) : Unrelated(e, f)
    BY <1>1, <2>1 DEF PendingEdits, EditsOnly, Active, At
  <2>5. EditOK("store", e, inst'[i], db'[r])
    BY <1>1, <2>1, <2>2, <2>4, EditOpens
  <2>6. Agree(inst'[i], db[r], PendingEdits(r) \cup {e})
    BY <1>1, <2>1, <2>2, AgreeEdited
  <2>7. \A f \in PendingEdits(r) : f \in PendingEdits(r)'
    <3>1. ASSUME NEW f \in PendingEdits(r), NEW q \in Procs, Active(q, r), proc[q].edit = f
          PROVE  proc'[q] = proc[q]
      <4>1. q # p
        BY <1>0, <2>4, <3>1 DEF Unrelated
      <4> QED
        BY <1>1, <4>1 DEF Local, ProcStep
    <3> QED
      BY <3>1, PendingStays
  <2>8. e \in PendingEdits(r)'
    BY <1>1, <1>2, <2>1 DEF PendingEdits, At
  <2>9. Agree(inst'[i], db'[r], PendingEdits(r)')
    BY <1>1, <2>6, <2>7, <2>8, AgreeMore
  <2> QED
    BY <1>0, <1>1, <1>2, <1>3, <2>1, <2>3, <2>5, <2>9, EditedRoomAfter DEF EditPcs
<1> QED
  BY <1>0, <1>1, <1>2, <1>3, StepStore

LEMMA EditStoreStore ==
  ASSUME CoreInv, StoreInv, NEW p \in Procs, EditStore(p)
  PROVE  StoreInv'
<1>0. PICK r, i, e : r = proc[p].room /\ i = proc[p].inst /\ e = proc[p].edit
  OBVIOUS
<1>1. /\ TypeInv /\ Local(p) /\ UNCHANGED <<inst, calm, failed, hosted>> /\ proc[p].pc = "store" /\ proc'[p] = Idle
      /\ StoredAs(db'[r], db[r], inst[i], e)
  BY <1>0, EditStoreSimple DEF CoreInv, Simple
<1>2. ASSUME r \in calm' PROVE RoomView(r)'
  <2>1. /\ r \in Rooms /\ i \in Built /\ i # 0 /\ inst[i] \in Object /\ hosted[r] = i
        /\ db[r] \in Stored /\ e \in Edit /\ NoStray(db[r])
        /\ EditOK("store", e, inst[i], db[r])
        /\ Agree(inst[i], db[r], PendingEdits(r))
        /\ EditsOnly(p, r, i, e)
    BY <1>0, <1>1, <1>2, EditedRoom DEF EditPcs
  <2>2. \A q \in Procs : (q # p /\ Active(q, r)) => EditOK(proc[q].pc, proc[q].edit, inst'[i], db'[r])
    BY <1>1, <2>1, EditOKStored DEF EditsOnly
  <2>3. \A f \in PendingEdits(r) : f # e => f \in PendingEdits(r)'
    <3>1. ASSUME NEW f \in PendingEdits(r), f # e, NEW q \in Procs, Active(q, r), proc[q].edit = f
          PROVE  proc'[q] = proc[q]
      BY <1>0, <1>1, <3>1 DEF Local, ProcStep
    <3> QED
      BY <3>1, PendingStays
  <2>4. Agree(inst'[i], db'[r], PendingEdits(r)')
    BY <1>1, <2>1, <2>3, AgreeStored
  <2>5. db'[r].row # None
    BY <2>4 DEF Agree, SameRow
  <2>6. \A x, y \in db'[r].alt : x = y
    BY <1>1, <2>1 DEF StoredAs, EditOK, NoStray
  <2>7. NoStray(db'[r])
    BY <2>5, <2>6 DEF NoStray
  <2> QED
    BY <1>0, <1>1, <1>2, <2>1, <2>2, <2>4, <2>7, EditedRoomAfter
<1> QED
  BY <1>0, <1>1, <1>2, StepStore

-----------------------------------------------------------------------------
(* New requests, the stop of apx and its start                             *)

LEMMA BeginStore ==
  ASSUME CoreInv, StoreInv, NEW p \in Procs, NEW r \in Rooms, NEW odd, NEW rec \in Proc,
         FieldsOK(rec), Begin(p, r, odd, rec),
         UNCHANGED <<db, hosted, handler, inst, refs, boot, failed>>, rec.room = r,
         r \in calm' => StepOK(rec, db[r], IF rec.inst = 0 THEN None ELSE inst[rec.inst])
  PROVE  StoreInv'
<1>0. TypeInv /\ IdsInv
  BY DEF CoreInv, IdsPart
<1>1. /\ proc[p] = Idle /\ proc'[p] = rec /\ \A q \in Procs \ {p} : proc'[q] = proc[q]
      /\ calm' \subseteq calm
  BY <1>0, BeginEffect
<1>2. proc[p].pc = "idle"
  BY <1>1, IdleOK
<1>3. ASSUME NEW u \in calm', u # r PROVE RoomView(u)'
  <2>1. u \in Rooms /\ RoomView(u)
    BY <1>0, <1>1 DEF TypeInv, StoreInv
  <2>2. \A q \in Procs : Active(q, u) => proc'[q] = proc[q]
    BY <1>1, <1>2 DEF Active
  <2>3. \A q \in Procs : Active(q, u)' => proc'[q] = proc[q]
    BY <1>1, <1>3 DEF Active
  <2>4. Awaited(u) => Awaited(u)'
    BY DEF Awaited, Serving
  <2> QED
    BY <1>0, <2>1, <2>2, <2>3, <2>4, OtherRoom
<1>4. ASSUME r \in calm' PROVE RoomView(r)'
  <2>1. RoomView(r)
    BY <1>1, <1>4 DEF StoreInv
  <2>2. \A q \in Procs : Active(q, r) => proc'[q] = proc[q] /\ Active(q, r)'
    BY <1>1, <1>2 DEF Active
  <2>3. ASSUME NEW q \in Procs, Active(q, r)'
        PROVE  StepOK(proc[q], db[r], ObjectOf(q))'
    <3>1. CASE q = p
      BY <1>1, <1>4, <3>1 DEF ObjectOf
    <3>2. CASE q # p
      <4>1. proc'[q] = proc[q] /\ Active(q, r)
        BY <1>1, <2>3, <3>2 DEF Active
      <4>2. StepOK(proc[q], db[r], ObjectOf(q)) /\ ObjectOf(q)' = ObjectOf(q)
        BY <2>1, <4>1 DEF RoomView, ObjectOf
      <4> QED
        BY <4>1, <4>2
    <3> QED
      BY <3>1, <3>2
  <2>4. ASSUME NEW S, AllIn(r, S)' PROVE AllIn(r, S)
    BY <2>2, <2>4 DEF AllIn
  <2>5. ASSUME hosted'[r] # 0, AllIn(r, Loose)'
        PROVE  Agree(inst[hosted[r]], db[r], PendingEdits(r))'
    <3>1. Agree(inst[hosted[r]], db[r], PendingEdits(r))
      BY <2>1, <2>4, <2>5 DEF RoomView
    <3>2. \A e \in PendingEdits(r) : e \in PendingEdits(r)'
      BY <2>2, PendingStays
    <3> QED
      BY <3>1, <3>2, AgreeMore
  <2>6. ASSUME hosted'[r] = 0, ~Awaited(r)', AllIn(r, Early)'
        PROVE  NotEnabled(r)'
    <3>1. NotEnabled(r)
      BY <2>1, <2>4, <2>6 DEF RoomView, Awaited, Serving
    <3> QED
      BY <3>1 DEF NotEnabled
  <2>7. NoStray(db[r])'
    BY <2>1 DEF RoomView
  <2> QED
    BY <2>3, <2>5, <2>6, <2>7 DEF RoomView
<1> QED
  BY <1>3, <1>4 DEF StoreInv

LEMMA HostStore ==
  ASSUME CoreInv, StoreInv, NEW p \in Procs, NEW r \in Rooms, NEW want \in Config, Host(p, r, want)
  PROVE  StoreInv'
<1>0. TypeInv
  BY DEF CoreInv
<1>1. PICK there \in FetchApxRoomInfo(r) :
        Begin(p, r, there # RoomStatus(r), HostRequest(IF there THEN "start" ELSE "upload", r, want))
  BY DEF Host, HostRequest
<1> DEFINE op == IF there THEN "start" ELSE "upload"
           rec == HostRequest(op, r, want)
           odd == there # RoomStatus(r)
<1>2. rec \in Proc /\ FieldsOK(rec) /\ rec.pc = op /\ rec.room = r
  BY HostRequestOK
<1>3. UNCHANGED <<db, hosted, handler, inst, refs, boot, failed>>
  BY DEF Host
<1>4. Begin(p, r, odd, rec)
  BY <1>1
<1> HIDE DEF rec, odd
<1>5. (r \in calm' => ~odd) /\ calm' \subseteq calm
  BY <1>0, <1>2, <1>4, BeginEffect
<1>6. ASSUME r \in calm' PROVE StepOK(rec, db[r], IF rec.inst = 0 THEN None ELSE inst[rec.inst])
  <2>1. NoStray(db[r])
    BY <1>5, <1>6 DEF StoreInv, RoomView
  <2>2. there = (db[r].row # None)
    BY <1>5, <1>6 DEF odd, RoomStatus
  <2>3. (rec.pc = "start" /\ db[r].row # None) \/ (rec.pc = "upload" /\ db[r] = NothingStored)
    BY <1>2, <2>1, <2>2 DEF NoStray
  <2> QED
    BY <2>3 DEF StepOK, EditPcs, DeletePcs, Emptied
<1> QED
  BY <1>2, <1>3, <1>4, <1>6, BeginStore

LEMMA StopStore ==
  ASSUME CoreInv, RowKept, StoreInv, NEW p \in Procs, NEW r \in Rooms, NEW op \in {"stop", "kill"},
         hosted[r] # 0, Begin(p, r, FALSE, DisableRequest(op, r)),
         UNCHANGED <<db, hosted, handler, inst, refs, boot, failed>>
  PROVE  StoreInv'
<1> DEFINE rec == DisableRequest(op, r)
           odd == FALSE
<1>0. TypeInv
  BY DEF CoreInv
<1>1. rec \in Proc /\ FieldsOK(rec) /\ rec.pc = "disable" /\ rec.room = r /\ rec.edit = None
  BY DisableRequestOK
<1>2. Begin(p, r, odd, rec)
  OBVIOUS
<1> HIDE DEF rec, odd
<1>3. /\ calm' \subseteq calm
      /\ r \in calm' => \A q \in Procs : Active(q, r) => Unrelated(proc[q].edit, rec.edit)
  BY <1>0, <1>1, <1>2, BeginEffect
<1>4. ASSUME r \in calm' PROVE StepOK(rec, db[r], IF rec.inst = 0 THEN None ELSE inst[rec.inst])
  <2>1. \A q \in Procs : ~Active(q, r)
    BY <1>1, <1>3, <1>4 DEF Unrelated
  <2>2. db[r].row # None
    BY <1>3, <1>4, <2>1 DEF RowKept
  <2> QED
    BY <1>1, <2>2 DEF StepOK, EditPcs, DeletePcs, Emptied
<1> QED
  BY <1>1, <1>2, <1>4, BeginStore

LEMMA DeleteStore ==
  ASSUME CoreInv, StoreInv, NEW p \in Procs, NEW r \in Rooms, Delete(p, r)
  PROVE  StoreInv'
<1> DEFINE rec == DeleteRequest(r)
<1>1. rec \in Proc /\ FieldsOK(rec) /\ rec.pc = "deleteFeed" /\ rec.room = r
  BY DeleteRequestOK
<1>2. Begin(p, r, FALSE, rec) /\ UNCHANGED <<db, hosted, handler, inst, refs, boot, failed>>
  BY DEF Delete, DeleteRequest
<1> HIDE DEF rec
<1>3. StepOK(rec, db[r], IF rec.inst = 0 THEN None ELSE inst[rec.inst])
  BY <1>1 DEF StepOK, EditPcs, Delete, DeletePcs, Emptied
<1> QED
  BY <1>1, <1>2, <1>3, BeginStore

LEMMA EditBeginStore ==
  ASSUME CoreInv, StoreInv, NEW p \in Procs, NEW i \in Built, NEW e \in Edit, NEW odd,
         NEW r \in Rooms, Begin(p, r, odd, EditRequest(r, i, e)), EditOK("memory", e, inst[i], db[r]),
         UNCHANGED <<db, hosted, handler, inst, refs, boot, failed>>
  PROVE  StoreInv'
<1> DEFINE rec == EditRequest(r, i, e)
<1>1. i \in Insts
  BY BoundsAssumption DEF CoreInv, TypeInv, Insts
<1>2. rec \in Proc /\ FieldsOK(rec) /\ rec.pc = "memory" /\ rec.room = r /\ rec.inst = i /\ rec.edit = e
  BY <1>1, EditRequestOK
<1> HIDE DEF rec
<1>3. Begin(p, r, odd, rec)
  BY DEF rec
<1>4. i # 0
  BY <1>1 DEF Insts
<1>5. StepOK(rec, db[r], IF rec.inst = 0 THEN None ELSE inst[rec.inst])
  BY <1>2, <1>4 DEF StepOK, EditPcs, DeletePcs, Emptied
<1> QED
  BY <1>2, <1>3, <1>5, BeginStore

LEMMA CrashStore ==
  ASSUME TypeInv, StoreInv, Crash
  PROVE  StoreInv'
<1> SUFFICES ASSUME NEW r \in calm' PROVE RoomView(r)'
  BY DEF StoreInv
<1>1. /\ r \in calm /\ r \in Rooms /\ db' = db /\ hosted'[r] = 0 /\ failed' = failed
      /\ boot' = {u \in Rooms : db[u].row # None /\ ~db[u].row.disabled}
      /\ \A p \in Procs : proc'[p] = Idle
  BY DEF Crash, TypeInv
<1>2. \A p \in Procs : ~Active(p, r)'
  BY <1>1, IdleOK DEF Active
<1>3. boot' # None
  <2>1. boot' \in SUBSET Rooms
    BY <1>1
  <2> QED
    BY <2>1, NoneAssumption
<1>4. ~Awaited(r)' => NotEnabled(r)'
  BY <1>1, <1>3 DEF Awaited, Serving, NotEnabled
<1>5. NoStray(db[r])'
  BY <1>1 DEF StoreInv, RoomView
<1> QED
  BY <1>1, <1>2, <1>4, <1>5 DEF RoomView

LEMMA BootStore ==
  ASSUME CoreInv, StoreInv, Boot
  PROVE  StoreInv'
<1>0. TypeInv /\ IdsInv /\ BootAlone
  BY DEF CoreInv, IdsPart
<1>1. /\ UNCHANGED <<db, hosted, inst, calm, failed>> /\ ~Serving /\ proc["boot"] = Idle /\ "boot" \in Procs
      /\ boot \subseteq Rooms
  BY <1>0, BootEffect
<1>2. CASE boot = {} /\ proc' = proc
  <2> SUFFICES ASSUME NEW u \in calm' PROVE RoomView(u)'
    BY DEF StoreInv
  <2>1. u \in Rooms /\ RoomView(u)
    BY <1>0, <1>1 DEF TypeInv, StoreInv
  <2>2. ~Awaited(u)
    BY <1>2 DEF Awaited
  <2> QED
    BY <1>0, <1>1, <1>2, <2>1, <2>2, OtherRoom
<1>3. ASSUME NEW r \in boot, boot' = boot \ {r}, boot' # None,
             proc' = [proc EXCEPT !["boot"] = BootRequest(r, db[r].row)], db[r].row \in Row
      PROVE  StoreInv'
  <2> DEFINE t == BootRequest(r, db[r].row)
  <2>1. r \in Rooms /\ db[r].row # None /\ ~db[r].row.disabled /\ hosted[r] = 0
    BY <1>0, <1>1, <1>3 DEF BootAlone
  <2>2. t \in Proc /\ t.pc = "new" /\ t.op = "boot" /\ t.room = r /\ t.inst = 0 /\ t.row = db[r].row
    BY <1>3, <2>1, BootRequestOK
  <2>3. proc'["boot"] = t /\ \A q \in Procs \ {"boot"} : proc'[q] = proc[q] /\ proc[q] = Idle
    BY <1>0, <1>1, <1>3 DEF TypeInv, BootAlone
  <2> HIDE DEF t
  <2>4. ASSUME NEW u \in calm', u # r PROVE RoomView(u)'
    <3>1. u \in Rooms /\ RoomView(u)
      BY <1>0, <1>1 DEF TypeInv, StoreInv
    <3>2. \A q \in Procs : ~Active(q, u) /\ ~Active(q, u)'
      BY <1>1, <2>2, <2>3, <2>4, IdleOK DEF Active
    <3>3. Awaited(u) => Awaited(u)'
      BY <1>3, <2>4 DEF Awaited, Serving
    <3> QED
      BY <1>0, <1>1, <3>1, <3>2, <3>3, OtherRoom
  <2>5. ASSUME r \in calm' PROVE RoomView(r)'
    <3>1. NoStray(db[r])'
      BY <1>1, <2>5 DEF StoreInv, RoomView
    <3>2. StoreAwaits(t.op, db[r], t.row.prob)
      BY <2>1, <2>2 DEF StoreAwaits
    <3>3. \A o : StepOK(t, db[r], o)
      BY <2>2, <3>2 DEF StepOK, EditPcs, DeletePcs, Emptied
    <3>4. \A q \in Procs : Active(q, r)' => StepOK(proc[q], db[r], ObjectOf(q))'
      BY <1>1, <2>3, <3>3, IdleOK DEF Active
    <3>5. Active("boot", r)' /\ proc'["boot"].pc = "new"
      BY <2>2, <2>3 DEF Active
    <3>6. ~AllIn(r, Early)'
      BY <1>1, <3>5 DEF AllIn, Early
    <3> QED
      BY <1>1, <2>1, <3>1, <3>4, <3>6 DEF RoomView
  <2> QED
    BY <2>4, <2>5 DEF StoreInv
<1> QED
  BY <1>0, <1>2, <1>3, BootEffect

-----------------------------------------------------------------------------
(* The store tells the rooms, always                                       *)

LEMMA InitStore ==
  ASSUME Init
  PROVE  StoreInv
<1> SUFFICES ASSUME NEW r \in calm PROVE RoomView(r)
  BY DEF StoreInv
<1>1. r \in Rooms /\ db[r] = NothingStored /\ hosted[r] = 0 /\ \A p \in Procs : proc[p] = Idle
  BY DEF Init
<1>2. \A p \in Procs : ~Active(p, r)
  BY <1>1, IdleOK DEF Active
<1>3. NotEnabled(r) /\ NoStray(db[r])
  BY <1>1, NothingStoredOK DEF NotEnabled, NoStray
<1> QED
  BY <1>1, <1>2, <1>3 DEF RoomView

LEMMA StepStores ==
  ASSUME CoreInv, StoreInv, NEW p \in Procs, Step(p)
  PROVE  StoreInv'
<1>1. CASE NewGet(p)
  BY <1>1, NewGetStore
<1>2. CASE NewBuild(p)
  BY <1>2, NewBuildStore
<1>3. CASE NewAllocate(p)
  BY <1>3, NewAllocateStore
<1>4. CASE NewAdd(p)
  BY <1>4, NewAddStore
<1>5. CASE NewSave(p)
  BY <1>5, NewSaveStore
<1>6. CASE Restore(p)
  BY <1>6, RestoreStore
<1>7. CASE StartGet(p)
  BY <1>7, StartGetStore
<1>8. CASE StartFind(p)
  BY <1>8, StartFindStore
<1>9. CASE StartUpdate(p)
  BY <1>9, StartUpdateStore
<1>10. CASE StartEnable(p)
  BY <1>10, StartEnableStore
<1>11. CASE StartPort(p)
  BY <1>11, StartPortStore
<1>12. CASE Upload(p)
  BY <1>12, UploadStore
<1>13. CASE Disable(p)
  BY <1>13, DisableStore
<1>14. CASE DeleteRows(p)
  BY <1>14, DeleteRowsStore
<1>15. CASE DeleteRow(p)
  BY <1>15, DeleteRowStore
<1>16. CASE RemoveRoom(p)
  BY <1>16, RemoveStore
<1>17. CASE EditMemory(p)
  BY <1>17, EditMemoryStore
<1>18. CASE EditStore(p)
  BY <1>18, EditStoreStore
<1>19. CASE Fails(p)
  BY <1>19, FailsStore
<1>20. CASE StoreFails(p)
  BY <1>20, StoreFailsStore
<1>21. CASE UpdateFails(p) \/ RestoreFails(p)
  BY <1>21, ConfigFailsStore
<1> QED
  BY <1>1, <1>2, <1>3, <1>4, <1>5, <1>6, <1>7, <1>8, <1>9, <1>10, <1>11, <1>12, <1>13, <1>14, <1>15,
     <1>16, <1>17, <1>18, <1>19, <1>20, <1>21 DEF Step

LEMMA StoreStutters ==
  ASSUME StoreInv, UNCHANGED vars
  PROVE  StoreInv'
<1> SUFFICES ASSUME NEW r \in calm' PROVE RoomView(r)'
  BY DEF StoreInv
<1>1. RoomView(r) /\ UNCHANGED <<db, hosted, inst, proc, boot, failed>>
  BY DEF StoreInv, vars
<1>2. PendingEdits(r)' = PendingEdits(r)
  BY <1>1 DEF PendingEdits, At
<1> QED
  BY <1>1, <1>2 DEF RoomView, Active, AllIn, ObjectOf, Awaited, Serving, NotEnabled

LEMMA NextStore ==
  ASSUME CoreInv, RowKept, StoreInv, [Next]_vars
  PROVE  StoreInv'
<1>0. TypeInv
  BY DEF CoreInv
<1>1. CASE UNCHANGED vars
  BY <1>1, StoreStutters
<1>2. ASSUME NEW p \in Procs, Step(p)
      PROVE  StoreInv'
  BY <1>2, StepStores
<1>3. \A p \in Requests : p \in Procs
  BY DEF Procs
<1>4. ASSUME NEW p \in Requests, NEW r \in Rooms,
             \/ \E want \in Config : Host(p, r, want)
             \/ Stop(p, r)
             \/ Delete(p, r)
             \/ \E e \in Edit : EditRoom(p, r, e)
      PROVE  StoreInv'
  <2>1. CASE \E want \in Config : Host(p, r, want)
    BY <1>3, <2>1, HostStore
  <2>2. CASE Stop(p, r)
    <3>1. /\ hosted[r] # 0 /\ Begin(p, r, FALSE, DisableRequest("stop", r))
          /\ UNCHANGED <<db, hosted, handler, inst, refs, boot, failed>>
      BY <2>2 DEF Stop, DisableRequest
    <3> QED
      BY <1>3, <3>1, StopStore
  <2>3. CASE Delete(p, r)
    BY <1>3, <2>3, DeleteStore
  <2>4. ASSUME NEW e \in Edit, EditRoom(p, r, e)
        PROVE  StoreInv'
    <3>1. PICK i : i = hosted[r]
      OBVIOUS
    <3>2. /\ i \in Built /\ Begin(p, r, FALSE, EditRequest(r, i, e))
          /\ UNCHANGED <<db, hosted, handler, inst, refs, boot, failed>>
      BY <1>3, <2>4, <3>1, EditRoomBegins
    <3>3. EditOK("memory", e, inst[i], db[r])
      BY <2>4, <3>1 DEF EditRoom, EditOK
    <3> QED
      BY <1>3, <3>2, <3>3, EditBeginStore
  <2> QED
    BY <1>4, <2>1, <2>2, <2>3, <2>4
<1>5. ASSUME NEW r \in Rooms, Kill(r)
      PROVE  StoreInv'
  <2>1. /\ hosted[r] # 0 /\ Begin("killer", r, FALSE, DisableRequest("kill", r))
        /\ UNCHANGED <<db, hosted, handler, inst, refs, boot, failed>>
    BY <1>5 DEF Kill, DisableRequest
  <2>2. "killer" \in Procs
    BY DEF Procs
  <2> QED
    BY <2>1, <2>2, StopStore
<1>6. ASSUME NEW p \in Requests, NEW i \in Built, Death(p, i)
      PROVE  StoreInv'
  <2>1. PICK r, e : r = inst[i].room /\ e = [kind |-> "death"]
    OBVIOUS
  <2>2. /\ r \in Rooms /\ e \in Edit
        /\ Begin(p, r, hosted[r] # i, EditRequest(r, i, e))
        /\ UNCHANGED <<db, hosted, handler, inst, refs, boot, failed>>
    BY <1>3, <1>6, <2>1, DeathBegins
  <2>3. inst[i].deaths < MaxDeaths /\ e.kind = "death"
    BY <1>6, <2>1 DEF Death
  <2>4. EditOK("memory", e, inst[i], db[r])
    BY <2>3 DEF EditOK
  <2> QED
    BY <1>3, <2>2, <2>4, EditBeginStore
<1>7. CASE Crash
  BY <1>0, <1>7, CrashStore
<1>8. CASE Boot
  BY <1>8, BootStore
<1> QED
  BY <1>1, <1>2, <1>4, <1>5, <1>6, <1>7, <1>8 DEF Next

(* What the invariant says of rooms no request is about                    *)
LEMMA RoomsTell ==
  ASSUME RoomsInv
  PROVE  StoreTellsRooms
<1>0. TypeInv /\ IdsPart /\ StoreInv
  BY DEF RoomsInv, CoreInv
<1>1. TypeOK
  <2>1. Built \subseteq Insts
    BY <1>0, BoundsAssumption DEF TypeInv, Insts
  <2>2. refs \in 0 .. MaxInst
    BY <1>0, HoldingFinite, BoundsAssumption DEF IdsPart, RefsExact
  <2>3. \A p \in Procs : proc[p].inst \in Built \cup {0}
    BY <1>0 DEF TypeInv, InstOK
  <2> QED
    BY <1>0, <2>1, <2>2, <2>3 DEF TypeInv, TypeOK
<1>2. ASSUME NEW r \in calm, Quiet(r)
      PROVE  /\ hosted[r] # 0 => Agree(inst[hosted[r]], db[r], {})
             /\ hosted[r] = 0 => NotEnabled(r)
             /\ NoStray(db[r])
  <2>1. \A p \in Procs : ~Active(p, r)
    BY <1>2 DEF Quiet, Busy, Active
  <2>2. PendingEdits(r) = {}
    BY <2>1 DEF PendingEdits, At, Active
  <2>3. ~Awaited(r)
    BY <1>2 DEF Quiet, Awaited
  <2> QED
    BY <1>0, <2>1, <2>2, <2>3 DEF StoreInv, RoomView, AllIn
<1>3. ASSUME NEW r \in calm, Quiet(r), hosted[r] # 0, NEW k \in Switches, NEW o, NEW s,
             o = inst[hosted[r]], s = db[r]
      PROVE  o.sw[k] = IF o.cfg[k] THEN Slots \ s.over[k] ELSE s.over[k]
  <2>1. o \in Object /\ s \in Stored
    BY <1>0, <1>3 DEF TypeInv
  <2>2. o.sw[k] \subseteq Slots /\ s.over[k] \subseteq Slots
    BY <2>1, ObjectFields, StoredFields
  <2>3. \A slot \in Slots : slot \in o.sw[k] <=> StoredOn(s, o.cfg, k, slot)
    BY <1>2, <1>3 DEF Agree
  <2> QED
    BY <2>2, <2>3 DEF StoredOn
<1>4. RestartRestores
  BY <1>2, <1>3 DEF RestartRestores, Agree, SameRow
<1>5. EnabledIsHosted
  BY <1>2 DEF EnabledIsHosted, NotEnabled, Agree, SameRow
<1>6. DeletedIsGone
  BY <1>2 DEF DeletedIsGone, NoStray, Agree, SameRow
<1> QED
  BY <1>1, <1>4, <1>5, <1>6 DEF StoreTellsRooms

(* RoomRegistry, RoomStore and the handlers (api.go, db.go): whatever      *)
(* requests, failures and restarts of apx overlap, a hosted room that      *)
(* nothing irregular happened to is in the store as it is in memory, a     *)
(* room is enabled there exactly if it is hosted, and nothing is left of a *)
(* deleted one.                                                            *)
THEOREM StoreTellsHosted == Spec => []StoreTellsRooms
<1>1. Init => RoomsInv
  BY InitCore, InitStore DEF RoomsInv
<1>2. RoomsInv /\ [Next]_vars => RoomsInv'
  BY NextCore, NextStore DEF RoomsInv
<1>3. RoomsInv => StoreTellsRooms
  BY RoomsTell
<1> QED
  BY <1>1, <1>2, <1>3, PTL DEF Spec
=============================================================================
