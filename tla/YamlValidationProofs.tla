------------------------- MODULE YamlValidationProofs -------------------------
(***************************************************************************)
(* Proofs about the validation of a room's YAMLs, for any YAMLs, versions, *)
(* manifests, indexes and releases, and any number of requests and         *)
(* workers.                                                                *)
(***************************************************************************)
EXTENDS YamlValidation, WellFoundedInduction, TLAPS

-----------------------------------------------------------------------------
(* Types                                                                   *)

RowMaps == UNION {[S -> Rows] : S \in SUBSET Yamls}

Locals ==
  [kind : AllKinds \cup {"none"}, pc : Pcs, room : Rooms \cup {None}, yaml : Yamls \cup {None},
   old : Releases \cup {None}, target : Versions \cup Indexes \cup {None},
   rows : RowMaps, writes : RowMaps, txn : BOOLEAN, result : Rows \cup Releases \cup {None}]

(* What a request has at hand at each of its stages.                       *)
StageOK(l) ==
  /\ l.pc = "idle" => l = Idle
  /\ l.pc \in {"validate", "store", "reset", "write", "revalidate", "queue", "enqueue", "commit", "reread"}
       => l.room \in Rooms
  /\ l.pc \in {"validate", "store"} => l.kind \in {"upload", "edit"} /\ l.yaml \in Yamls
  /\ l.pc = "validate" /\ l.kind = "edit" =>
       l.yaml \in DOMAIN l.rows /\ l.rows[l.yaml].content < MaxContent
  /\ l.pc = "store" => l.result \in Rows
  /\ l.pc = "enqueue" => l.result \in Releases /\ DOMAIN l.rows # {}
  /\ l.pc = "list" => l.target \in Indexes
  /\ l.pc = "commit" => l.target \in Versions
  /\ l.kind = "upload" => l.pc \in {"validate", "store"}
  /\ l.pc \in {"reset", "write"} => l.kind = "editRoom"
  /\ l.pc \in {"commit", "reread"} => l.kind = "switch"
  /\ DOMAIN l.writes # {} => l.pc \in {"queue", "enqueue"} /\ l.txn

Reporting == [pc : {"read", "version", "update"}, job : JobRecords, status : {"Validated", "Failed"}]

(* The step's effect on `past' is stated apart.                           *)
StateInv ==
  /\ room \in Rooms
  /\ index \in Indexes
  /\ yamls \in [Yamls -> Rows \cup {None, Deleted}]
  /\ queue \subseteq JobRecords
  /\ worker \in [Workers -> Reporting \cup {WorkerIdle}]
  /\ handler \in [Handlers -> Locals]
  /\ \A h \in Handlers : StageOK(handler[h])
  /\ clock \in 0..MaxTime

TypeInv == StateInv /\ past \subseteq {"retry", "editRoom", "switch", "overlap", "callbacks", "failure", "unreadable"}

-----------------------------------------------------------------------------
(* What keeps a deleted YAML deleted                                       *)

(* The rows that an open transaction has written are there.                *)
HeldInv == \A h \in Handlers : DOMAIN handler[h].writes \subseteq Present

(* The YAML that an upload is about is nobody else's.                      *)
UploadInv ==
  \A h \in Handlers : handler[h].kind = "upload" =>
    /\ yamls[handler[h].yaml] = None
    /\ \A g \in Handlers : g # h => handler[g].yaml # handler[h].yaml

-----------------------------------------------------------------------------
(* What every status rests on                                              *)

Live(job) == job \in queue \/ \E w \in Workers : Reports(w) /\ worker[w].job = job

(* Nothing is later than the clock.                                        *)
TimeInv ==
  /\ \A y \in Present : yamls[y].time <= clock
  /\ \A job \in JobRecords : Live(job) => job.time <= clock
  /\ \A h \in Handlers : \A y \in DOMAIN handler[h].writes : handler[h].writes[y].time <= clock

PastInv ==
  /\ Happening \subseteq past
  /\ ~room.validation => "editRoom" \in past

-----------------------------------------------------------------------------
(* What leaves no YAML without a status, where requests do not overlap     *)

Regular ==
  past \cap {"overlap", "failure"} = {} /\ ~({"retry", "editRoom", "switch"} \subseteq past)

(* The room a request goes by is the room.                                 *)
RoomStage(l) ==
  /\ l.pc \in {"validate", "store", "revalidate", "queue", "enqueue", "commit"} => l.room = room
  /\ l.pc \in {"reset", "write"} => l.room.version = room.version
  /\ l.pc = "reread" => room.validation
  /\ l.pc \in {"queue", "enqueue"} /\ l.kind # "retry" => l.room.validation
  /\ l.pc \in {"commit", "reread"} => Present \subseteq DOMAIN l.rows
  /\ l.pc = "store" /\ l.result.status = "Unknown" => ~l.room.validation /\ l.result.apworlds = None
  /\ l.pc = "enqueue" => l.result = ReleaseFor(l.room)

(* The row has no status, once the open transaction, if any, commits.      *)
Unjudged(y) ==
  \/ ~Locked(y) /\ yamls[y].status = "Unknown"
  \/ \E h \in Handlers : y \in DOMAIN handler[h].writes /\ handler[h].writes[y].status = "Unknown"

(* A request that has read the row as unsupported, and will leave it so.   *)
SkipStage(l) ==
  l.pc = "queue" /\ ReleaseFor(l.room) = None =>
    \A y \in DOMAIN l.rows \cap Present : l.rows[y].status = "Unsupported" => ~Unjudged(y)

(* An answer that the callback will take is on its way ...                 *)
Answer(y) ==
  \E job \in JobRecords : /\ Live(job) /\ job.yaml = y /\ job.version = room.version
                          /\ yamls[y].time <= job.time

(* ... or a request is about to have the YAML validated.                   *)
Will(y) ==
  \E h \in Handlers :
    \/ handler[h].pc \in {"reset", "write", "list", "revalidate"} /\ yamls[y].apworlds = None
    \/ handler[h].pc \in {"reread", "queue", "enqueue"} /\ y \in DOMAIN handler[h].rows

Cleared(y) == ~room.validation /\ yamls[y].apworlds = None

Known == \A y \in Present : Unjudged(y) => Answer(y) \/ Will(y) \/ Cleared(y)

(* Where nothing is retried, a room that does not validate has no statuses *)
(* and no releases of theirs.                                              *)
OffInv ==
  "retry" \notin past /\ (~room.validation \/ \E h \in Handlers : handler[h].pc = "write"
                                                                 /\ ~handler[h].room.validation)
    => \A y \in Present : yamls[y].status = "Unknown" => yamls[y].apworlds = None

(* A transaction resets rows, or gives them a status at once.              *)
WritesInv ==
  \A h \in Handlers : \A y \in DOMAIN handler[h].writes :
    handler[h].writes[y] = Reset(yamls[y]) \/ handler[h].writes[y].status \in {"Unsupported", "Failed"}

KnownParts ==
  /\ \A h \in Handlers : RoomStage(handler[h])
  /\ \A h \in Handlers : SkipStage(handler[h])
  /\ Known /\ WritesInv /\ OffInv

KnownInv == Regular => KnownParts

-----------------------------------------------------------------------------
(* What keeps verdicts on the release of the room, where neither requests  *)
(* nor callbacks overlap and releases are only replaced by new ones        *)

Calm == past \subseteq {"retry"} /\ NewReleasesOnly

(* The releases the room has had so far, the last of them Offered(index)   *)
Seen == {Offered(i) : i \in {k \in Indexes : k <= index}}

JobsInv ==
  \A job \in JobRecords : Live(job) =>
    job.version = FirstVersion /\ job.apworlds \in Seen /\ yamls[job.yaml] # None

RowsInv ==
  \A y \in Present :
    /\ yamls[y].apworlds \in Seen
    /\ yamls[y].status \in {"Validated", "Failed"} => yamls[y].basis.apworlds = yamls[y].apworlds

(* What the callback has found about the time of the row still holds.      *)
ChecksInv ==
  \A w \in Workers :
    worker[w].pc \in {"version", "update"} /\ worker[w].job.yaml \in Present
      => yamls[worker[w].job.yaml].time <= worker[w].job.time

RequestOK(h) ==
  /\ handler[h].pc = "store" =>
       /\ handler[h].result.apworlds = Offered(index)
       /\ handler[h].result.status \in {"Validated", "Failed"}
            => handler[h].result.basis.apworlds = Offered(index)
  /\ handler[h].pc \in {"queue", "enqueue"} => \A y \in DOMAIN handler[h].rows : yamls[y] # None
  /\ \A y \in DOMAIN handler[h].writes : handler[h].writes[y].status \notin {"Unsupported", "Failed"}

(* A job for the YAML that will find the release the room has              *)
Current(job, y) == Live(job) /\ job.yaml = y /\ job.apworlds = Offered(index)

(* The row has the room's release or will get it, and a job for another    *)
(* release comes too late, or comes before one that makes up for it.       *)
Fine(y) ==
  /\ \/ yamls[y].apworlds = Offered(index)
     \/ \E c \in JobRecords : Current(c, y) /\ yamls[y].time <= c.time
  /\ \A job \in JobRecords : Live(job) /\ job.yaml = y /\ job.apworlds # Offered(index) =>
       \/ job.time < yamls[y].time
       \/ \E c \in JobRecords : Current(c, y) /\ job.time < c.time

Outdated(y) ==
  yamls[y].apworlds # Offered(index) /\ \A job \in JobRecords : ~Current(job, y)

(* A request will have the YAML validated again.                           *)
ComingBy(h, y) ==
  \/ handler[h].pc \in {"list", "revalidate"} /\ Outdated(y)
  \/ handler[h].pc \in {"queue", "enqueue"} /\ y \in DOMAIN handler[h].rows

FreshParts ==
  /\ room = [version |-> FirstVersion, manifest |-> FirstManifest, validation |-> TRUE]
  /\ JobsInv /\ RowsInv /\ ChecksInv
  /\ \A h \in Handlers : RequestOK(h)
  /\ \A y \in Present : Fine(y) \/ \E h \in Handlers : ComingBy(h, y)

FreshInv == Calm => FreshParts

-----------------------------------------------------------------------------
(* Facts about the parts of the state                                      *)

(* The first of the YAMLs a request has read is one of them.               *)
LEMMA LeastOf ==
  ASSUME NEW S \in SUBSET Yamls, S # {}
  PROVE  Least(S) \in S
<1>1. \E x \in S : \A y \in S : ~(<<y, x>> \in OpToRel(<, Nat))
  BY NatLessThanWellFounded, WFMin, ConstantsAssumption
<1>2. PICK x \in S : \A y \in S : ~(y < x)
  BY <1>1, ConstantsAssumption DEF OpToRel
<1>3. \A y \in S : x <= y
  BY <1>2, ConstantsAssumption
<1> QED BY <1>3 DEF Least

LEMMA MapFacts ==
  ASSUME NEW f \in RowMaps
  PROVE  DOMAIN f \in SUBSET Yamls /\ \A y \in DOMAIN f : f[y] \in Rows
<1>1. PICK S \in SUBSET Yamls : f \in [S -> Rows]
  BY DEF RowMaps
<1> QED BY <1>1

LEMMA MapOf ==
  ASSUME NEW S \in SUBSET Yamls, NEW f \in [S -> Rows]
  PROVE  f \in RowMaps
BY DEF RowMaps

LEMMA EmptyMap == NoRows \in RowMaps /\ DOMAIN NoRows = {}
<1>1. NoRows \in [{} -> Rows] /\ DOMAIN NoRows = {}
  BY DEF NoRows
<1> QED BY <1>1, MapOf

LEMMA WithoutFacts ==
  ASSUME NEW f \in RowMaps, NEW y
  PROVE  /\ Without(f, y) \in RowMaps
         /\ DOMAIN Without(f, y) = DOMAIN f \ {y}
         /\ \A z \in DOMAIN Without(f, y) : Without(f, y)[z] = f[z]
<1>1. Without(f, y) \in [DOMAIN f \ {y} -> Rows]
  BY MapFacts DEF Without
<1>2. DOMAIN f \ {y} \in SUBSET Yamls
  BY MapFacts
<1> QED BY <1>1, <1>2, MapOf DEF Without

LEMMA WithFacts ==
  ASSUME NEW f \in RowMaps, NEW y \in Yamls, NEW row \in Rows
  PROVE  /\ With(f, y, row) \in RowMaps
         /\ DOMAIN With(f, y, row) = DOMAIN f \cup {y}
         /\ With(f, y, row)[y] = row
         /\ \A z \in DOMAIN f : z # y => With(f, y, row)[z] = f[z]
<1>1. With(f, y, row) \in [DOMAIN f \cup {y} -> Rows]
  BY MapFacts DEF With
<1>2. DOMAIN f \cup {y} \in SUBSET Yamls
  BY MapFacts
<1> QED BY <1>1, <1>2, MapOf DEF With

LEMMA ResetFacts ==
  ASSUME NEW row \in Rows
  PROVE  /\ Reset(row) \in Rows
         /\ Reset(row).status = "Unknown" /\ Reset(row).apworlds = row.apworlds
         /\ Reset(row).time = row.time /\ Reset(row).content = row.content
BY DEF Reset, Rows, Statuses

LEMMA JudgedFacts ==
  ASSUME NEW row \in Rows, NEW status \in Statuses, NEW apworlds \in Releases \cup {None},
         NEW time \in 0..MaxTime, NEW basis \in Bases \cup {None}
  PROVE  /\ Judged(row, status, apworlds, time, basis) \in Rows
         /\ Judged(row, status, apworlds, time, basis).status = status
         /\ Judged(row, status, apworlds, time, basis).apworlds = apworlds
         /\ Judged(row, status, apworlds, time, basis).time = time
         /\ Judged(row, status, apworlds, time, basis).basis = basis
BY DEF Judged, Rows

LEMMA BasisFacts ==
  ASSUME NEW content \in 0..MaxContent, NEW version \in Versions, NEW apworlds \in Releases \cup {None}
  PROVE  /\ Basis(content, version, apworlds) \in Bases
         /\ Basis(content, version, apworlds).apworlds = apworlds
BY DEF Basis, Bases

LEMMA ReleaseType ==
  ASSUME StateInv, NEW r \in Rooms
  PROVE  ReleaseFor(r) \in Releases \cup {None}
<1>1. r.version \in Versions /\ r.manifest \in Manifests
  BY DEF Rooms
<1> QED BY <1>1, ConstantsAssumption DEF StateInv, ReleaseFor

LEMMA IdleFacts == Idle \in Locals /\ StageOK(Idle) /\ DOMAIN Idle.writes = {}
<1>1. Idle \in Locals
  BY EmptyMap DEF Idle, Locals, Pcs
<1>2. StageOK(Idle)
  BY EmptyMap DEF Idle, StageOK
<1> QED BY <1>1, <1>2, EmptyMap DEF Idle

(* A YAML that is there has a row, and nothing else has.                   *)
LEMMA PresentFacts ==
  ASSUME StateInv
  PROVE  /\ Present \in SUBSET Yamls
         /\ \A y \in Yamls : (y \in Present <=> yamls[y] \in Rows) /\ (y \in Present <=> yamls[y] \notin {None, Deleted})
BY NoneAssumption DEF StateInv, Present

-----------------------------------------------------------------------------
(* What each step of a request does to its own record, and that the types  *)
(* are kept                                                                *)

Others(h) == \A g \in Handlers : g # h => handler'[g] = handler[g]

LEMMA LocalSet ==
  ASSUME StateInv, NEW h \in Handlers, NEW l \in Locals, StageOK(l), SetHandler(h, l)
  PROVE  /\ handler' \in [Handlers -> Locals]
         /\ \A g \in Handlers : StageOK(handler'[g])
         /\ handler'[h] = l /\ Others(h)
<1>1. handler' \in [Handlers -> Locals] /\ handler'[h] = l /\ Others(h)
  BY DEF StateInv, SetHandler, Others
<1>2. ASSUME NEW g \in Handlers PROVE StageOK(handler'[g])
  BY <1>1 DEF Others, StateInv
<1> QED BY <1>1, <1>2

(* The rest of the state keeps its types too.                              *)
LEMMA StateSet ==
  ASSUME StateInv, NEW h \in Handlers, NEW l \in Locals, StageOK(l), SetHandler(h, l),
         room' \in Rooms, index' \in Indexes, yamls' \in [Yamls -> Rows \cup {None, Deleted}],
         queue' \in SUBSET JobRecords, UNCHANGED worker, clock' \in 0..MaxTime
  PROVE  StateInv' /\ handler'[h] = l /\ Others(h)
<1>1. handler' \in [Handlers -> Locals] /\ (\A g \in Handlers : StageOK(handler'[g])) /\ handler'[h] = l /\ Others(h)
  BY LocalSet
<1>2. worker' \in [Workers -> Reporting \cup {WorkerIdle}]
  BY DEF StateInv
<1> QED BY <1>1, <1>2 DEF StateInv

LEMMA StateKept ==
  ASSUME StateInv, NEW h \in Handlers, NEW l \in Locals, StageOK(l), SetHandler(h, l),
         UNCHANGED <<room, index, yamls, queue, worker, clock>>
  PROVE  StateInv' /\ handler'[h] = l /\ Others(h)
<1>1. /\ room' \in Rooms /\ index' \in Indexes /\ yamls' \in [Yamls -> Rows \cup {None, Deleted}]
      /\ queue' \in SUBSET JobRecords /\ clock' \in 0..MaxTime /\ UNCHANGED worker
  BY DEF StateInv
<1> QED BY <1>1, StateSet

LEMMA UploadBegins ==
  ASSUME StateInv, NEW h \in Handlers, NEW y \in Yamls, UploadYaml(h, y)
  PROVE  /\ StateInv' /\ Others(h)
         /\ handler'[h].kind = "upload" /\ handler'[h].pc = "validate" /\ handler'[h].room = room
         /\ handler'[h].yaml = y /\ DOMAIN handler'[h].writes = {}
<1> DEFINE l == [Idle EXCEPT !.kind = "upload", !.pc = "validate", !.room = room, !.yaml = y]
<1>1. l.kind = "upload" /\ l.pc = "validate" /\ l.room = room /\ l.yaml = y /\ l.writes = NoRows
  BY DEF Idle
<1>2. l \in Locals
  BY IdleFacts DEF Locals, Pcs, AllKinds, StateInv
<1> HIDE DEF l
<1>3. StageOK(l)
  BY <1>1, EmptyMap DEF StageOK, StateInv
<1>4. SetHandler(h, l) /\ UNCHANGED <<room, index, yamls, queue, worker, clock>>
  BY DEF UploadYaml, l
<1> QED BY <1>1, <1>2, <1>3, <1>4, StateKept, EmptyMap

LEMMA EditBegins ==
  ASSUME StateInv, NEW h \in Handlers, NEW y \in Yamls, EditYaml(h, y)
  PROVE  /\ StateInv' /\ Others(h)
         /\ handler'[h].kind = "edit" /\ handler'[h].pc = "validate" /\ handler'[h].room = room
         /\ handler'[h].yaml = y /\ DOMAIN handler'[h].writes = {}
<1> DEFINE m == [z \in {y} |-> yamls[y]]
           l == [Idle EXCEPT !.kind = "edit", !.pc = "validate", !.room = room, !.yaml = y, !.rows = m]
<1>0. m \in RowMaps /\ y \in DOMAIN m /\ m[y].content < MaxContent
  <2>1. yamls[y] \in Rows
    BY PresentFacts DEF EditYaml
  <2>2. m \in [{y} -> Rows]
    BY <2>1
  <2>3. m \in RowMaps
    BY <2>2, MapOf
  <2> QED BY <2>3 DEF EditYaml
<1> HIDE DEF m
<1>1. /\ l.kind = "edit" /\ l.pc = "validate" /\ l.room = room /\ l.yaml = y /\ l.rows = m
      /\ l.writes = NoRows
  BY DEF Idle
<1>2. l \in Locals
  BY <1>0, IdleFacts DEF Locals, Pcs, AllKinds, StateInv
<1> HIDE DEF l
<1>3. StageOK(l)
  BY <1>0, <1>1, EmptyMap DEF StageOK, StateInv
<1>4. SetHandler(h, l) /\ UNCHANGED <<room, index, yamls, queue, worker, clock>>
  BY DEF EditYaml, l, m
<1> QED BY <1>1, <1>2, <1>3, <1>4, StateKept, EmptyMap

LEMMA RetryBegins ==
  ASSUME StateInv, NEW h \in Handlers, NEW y \in Yamls, RetryYaml(h, y)
  PROVE  /\ StateInv' /\ Others(h)
         /\ handler'[h].kind = "retry" /\ handler'[h].pc = "queue" /\ handler'[h].room = room
         /\ DOMAIN handler'[h].rows = {y} /\ handler'[h].rows[y] = yamls[y]
         /\ handler'[h].yaml = None /\ DOMAIN handler'[h].writes = {}
<1> DEFINE m == [z \in {y} |-> yamls[y]]
           l == [Idle EXCEPT !.kind = "retry", !.pc = "queue", !.room = room, !.rows = m]
<1>0. m \in RowMaps /\ DOMAIN m = {y} /\ m[y] = yamls[y]
  <2>1. yamls[y] \in Rows
    BY PresentFacts DEF RetryYaml
  <2>2. m \in [{y} -> Rows]
    BY <2>1
  <2> QED BY <2>2, MapOf
<1> HIDE DEF m
<1>1. /\ l.kind = "retry" /\ l.pc = "queue" /\ l.room = room /\ l.yaml = None /\ l.rows = m
      /\ l.writes = NoRows
  BY DEF Idle
<1>2. l \in Locals
  BY <1>0, IdleFacts DEF Locals, Pcs, AllKinds, StateInv
<1> HIDE DEF l
<1>3. StageOK(l)
  BY <1>0, <1>1, EmptyMap DEF StageOK, StateInv
<1>4. SetHandler(h, l) /\ UNCHANGED <<room, index, yamls, queue, worker, clock>>
  BY DEF RetryYaml, l, m
<1> QED BY <1>0, <1>1, <1>2, <1>3, <1>4, StateKept, EmptyMap

LEMMA RoomEditBegins ==
  ASSUME StateInv, NEW h \in Handlers, NEW m \in Manifests, NEW v \in BOOLEAN, EditRoom(h, m, v)
  PROVE  /\ StateInv' /\ Others(h)
         /\ handler'[h].kind = "editRoom" /\ handler'[h].pc = (IF v THEN "write" ELSE "reset")
         /\ handler'[h].room.version = room.version /\ handler'[h].room.validation = v
         /\ handler'[h].yaml = None /\ DOMAIN handler'[h].writes = {}
<1> DEFINE r == [version |-> room.version, manifest |-> m, validation |-> v]
           p == IF v THEN "write" ELSE "reset"
           l == [Idle EXCEPT !.kind = "editRoom", !.pc = p, !.room = r, !.old = ReleaseFor(room)]
<1>0. p \in {"write", "reset"} /\ r \in Rooms /\ r.version = room.version /\ r.validation = v /\ ReleaseFor(room) \in Releases \cup {None}
  BY ReleaseType DEF StateInv, Rooms
<1> HIDE DEF r, p
<1>1. /\ l.kind = "editRoom" /\ l.pc = p /\ l.room = r /\ l.yaml = None
      /\ l.writes = NoRows
  BY DEF Idle
<1>2. l \in Locals
  BY <1>0, IdleFacts DEF Locals, Pcs, AllKinds
<1> HIDE DEF l
<1>3. StageOK(l)
  BY <1>0, <1>1, EmptyMap DEF StageOK
<1>4. SetHandler(h, l) /\ UNCHANGED <<room, index, yamls, queue, worker, clock>>
  BY DEF EditRoom, l, r, p
<1> QED BY <1>0, <1>1, <1>2, <1>3, <1>4, StateKept, EmptyMap DEF p

LEMMA MoveBegins ==
  ASSUME StateInv, NEW h \in Handlers, NEW v \in Versions, SwitchBase(h, v)
  PROVE  /\ StateInv' /\ Others(h)
         /\ handler'[h].kind = "switch" /\ handler'[h].pc = "commit" /\ handler'[h].room = room
         /\ DOMAIN handler'[h].rows = Present
         /\ handler'[h].yaml = None /\ DOMAIN handler'[h].writes = {}
<1> DEFINE m == [y \in Present |-> yamls[y]]
           l == [Idle EXCEPT !.kind = "switch", !.pc = "commit", !.room = room, !.target = v, !.rows = m]
<1>0. m \in RowMaps /\ DOMAIN m = Present
  <2>1. m \in [Present -> Rows]
    BY PresentFacts
  <2> QED BY <2>1, PresentFacts, MapOf
<1> HIDE DEF m
<1>1. /\ l.kind = "switch" /\ l.pc = "commit" /\ l.room = room /\ l.target = v /\ l.yaml = None
      /\ l.rows = m /\ l.writes = NoRows
  BY DEF Idle
<1>2. l \in Locals
  BY <1>0, IdleFacts DEF Locals, Pcs, AllKinds, StateInv
<1> HIDE DEF l
<1>3. StageOK(l)
  BY <1>0, <1>1, EmptyMap DEF StageOK, StateInv
<1>4. SetHandler(h, l) /\ UNCHANGED <<room, index, yamls, queue, worker, clock>>
  BY DEF SwitchBase, l, m
<1> QED BY <1>0, <1>1, <1>2, <1>3, <1>4, StateKept, EmptyMap

LEMMA RefreshBegins ==
  ASSUME StateInv, NEW h \in Handlers, RefreshWorlds(h)
  PROVE  /\ StateInv' /\ Others(h)
         /\ handler'[h].kind = "refresh" /\ handler'[h].pc = "list"
         /\ handler'[h].yaml = None /\ DOMAIN handler'[h].writes = {}
<1> DEFINE l == [Idle EXCEPT !.kind = "refresh", !.pc = "list", !.target = index]
<1>1. l.kind = "refresh" /\ l.pc = "list" /\ l.target = index /\ l.yaml = None /\ l.writes = NoRows
  BY DEF Idle
<1>2. l \in Locals
  BY IdleFacts DEF Locals, Pcs, AllKinds, StateInv
<1> HIDE DEF l
<1>3. StageOK(l)
  BY <1>1, EmptyMap DEF StageOK, StateInv
<1>4. /\ SetHandler(h, l) /\ UNCHANGED worker /\ index' \in Indexes /\ room' \in Rooms
      /\ yamls' \in [Yamls -> Rows \cup {None, Deleted}] /\ queue' \in SUBSET JobRecords /\ clock' \in 0..MaxTime
  BY DEF RefreshWorlds, l, StateInv
<1> QED BY <1>1, <1>2, <1>3, <1>4, StateSet, EmptyMap

LEMMA ListFacts ==
  ASSUME StateInv, NEW h \in Handlers, ListRooms(h)
  PROVE  /\ StateInv' /\ Others(h)
         /\ handler'[h].kind = handler[h].kind /\ handler'[h].pc = "revalidate" /\ handler'[h].room = room
         /\ handler'[h].yaml = handler[h].yaml /\ DOMAIN handler[h].writes = {} /\ DOMAIN handler'[h].writes = {}
<1> DEFINE o == Release[handler[h].target][room.version][room.manifest]
           l == [handler[h] EXCEPT !.pc = "revalidate", !.room = room, !.old = o]
<1>0. handler[h] \in Locals /\ handler[h].pc = "list" /\ StageOK(handler[h]) /\ room \in Rooms
  BY DEF ListRooms, StateInv
<1>1. o \in Releases \cup {None}
  <2>1. handler[h].target \in Indexes /\ room.version \in Versions /\ room.manifest \in Manifests
    BY <1>0 DEF StageOK, Rooms
  <2>2. Release \in [Indexes -> [Versions -> [Manifests -> Releases \cup {None}]]]
    BY ConstantsAssumption
  <2> QED BY <2>1, <2>2
<1> HIDE DEF o
<1>2. /\ l.kind = handler[h].kind /\ l.pc = "revalidate" /\ l.room = room /\ l.yaml = handler[h].yaml
      /\ l.writes = handler[h].writes
  BY <1>0 DEF Locals
<1>3. l \in Locals
  BY <1>0, <1>1 DEF Locals, Pcs
<1> HIDE DEF l
<1>4. DOMAIN handler[h].writes = {} /\ handler[h].kind # "upload"
  BY <1>0 DEF StageOK
<1>5. StageOK(l)
  BY <1>0, <1>2, <1>4 DEF StageOK
<1>6. SetHandler(h, l) /\ UNCHANGED <<room, index, yamls, queue, worker, clock>>
  BY DEF ListRooms, l, o
<1> QED BY <1>2, <1>3, <1>4, <1>5, <1>6, StateKept

(* The verdict on a document is a row, without a status only where nothing *)
(* is validated.                                                           *)
LEMMA ValidateFacts ==
  ASSUME StateInv, NEW h \in Handlers, ValidateYaml(h)
  PROVE  /\ StateInv' /\ Others(h)
         /\ handler[h].pc = "validate" /\ DOMAIN handler[h].writes = {} /\ DOMAIN handler'[h].writes = {}
         /\ \/ handler'[h] = Idle
            \/ /\ handler'[h].kind = handler[h].kind /\ handler'[h].pc = "store"
               /\ handler'[h].room = handler[h].room /\ handler'[h].yaml = handler[h].yaml
               /\ handler'[h].result.status = "Unknown"
                    => ~handler[h].room.validation /\ handler'[h].result.apworlds = None
               /\ handler[h].room.validation =>
                    /\ handler'[h].result.apworlds = ReleaseFor(handler[h].room)
                    /\ handler'[h].result.basis.apworlds = ReleaseFor(handler[h].room)
<1> DEFINE l == handler[h]
           apworlds == IF l.room.validation THEN ReleaseFor(l.room) ELSE None
           content == IF l.kind = "edit" THEN l.rows[l.yaml].content + 1 ELSE 0
           row(status) == [content |-> content, status |-> status, apworlds |-> apworlds, time |-> 0,
                           basis |-> IF status = "Unknown" THEN None ELSE Basis(content, l.room.version, apworlds)]
<1>0. /\ l \in Locals /\ l.pc = "validate" /\ StageOK(l) /\ l.room \in Rooms /\ l.yaml \in Yamls
      /\ l.kind \in {"upload", "edit"} /\ DOMAIN l.writes = {}
  BY DEF ValidateYaml, StateInv, StageOK
<1>1. apworlds \in Releases \cup {None} /\ l.room.version \in Versions /\ l.room.validation \in BOOLEAN
  BY <1>0, ReleaseType DEF Rooms
<1>2. content \in 0..MaxContent
  <2>1. CASE l.kind = "edit"
    <3>1. l.rows \in RowMaps /\ l.yaml \in DOMAIN l.rows /\ l.rows[l.yaml].content < MaxContent
      BY <1>0, <2>1 DEF Locals, StageOK
    <3>2. l.rows[l.yaml] \in Rows
      BY <3>1, MapFacts
    <3>3. l.rows[l.yaml].content \in 0..MaxContent
      BY <3>2 DEF Rows
    <3> QED BY <2>1, <3>1, <3>3, ConstantsAssumption
  <2>2. CASE l.kind # "edit"
    BY <2>2, ConstantsAssumption
  <2> QED BY <2>1, <2>2
<1>3. PICK status \in Verdicts(l.room) : \/ l.room.validation /\ Finish(h)
                                         \/ SetHandler(h, [l EXCEPT !.pc = "store", !.result = row(status)])
  BY DEF ValidateYaml
<1>4. UNCHANGED <<room, index, yamls, queue, worker, clock>>
  BY DEF ValidateYaml
<1>5. status \in Statuses /\ (status = "Unknown" => ~l.room.validation)
  BY <1>1 DEF Verdicts, Statuses
<1>6. /\ row(status) \in Rows /\ row(status).status = status /\ row(status).apworlds = apworlds
      /\ l.room.validation => row(status).basis.apworlds = apworlds
  <2>1. Basis(content, l.room.version, apworlds) \in Bases /\ Basis(content, l.room.version, apworlds).apworlds = apworlds
    BY <1>1, <1>2, BasisFacts
  <2> HIDE DEF content, apworlds
  <2>2. (IF status = "Unknown" THEN None ELSE Basis(content, l.room.version, apworlds)) \in Bases \cup {None}
    BY <2>1
  <2>3. /\ row(status) \in Rows /\ row(status).status = status /\ row(status).apworlds = apworlds
        /\ row(status).basis = IF status = "Unknown" THEN None ELSE Basis(content, l.room.version, apworlds)
    BY <1>1, <1>2, <1>5, <2>2, ConstantsAssumption DEF Rows
  <2> HIDE DEF row
  <2> QED BY <1>5, <2>1, <2>3
<1> HIDE DEF row
<1>7. CASE Finish(h)
  BY <1>0, <1>4, <1>7, StateKept, IdleFacts DEF Finish
<1>8. CASE SetHandler(h, [l EXCEPT !.pc = "store", !.result = row(status)])
  <2> DEFINE n == [l EXCEPT !.pc = "store", !.result = row(status)]
  <2>1. /\ n.pc = "store" /\ n.kind = l.kind /\ n.room = l.room /\ n.yaml = l.yaml /\ n.writes = l.writes
        /\ n.result = row(status)
    BY <1>0 DEF Locals
  <2>2. n \in Locals
    BY <1>0, <1>6 DEF Locals, Pcs
  <2>3. SetHandler(h, n)
    BY <1>8
  <2> HIDE DEF n
  <2>4. StageOK(n)
    BY <1>0, <1>6, <2>1 DEF StageOK
  <2>5. StateInv' /\ handler'[h] = n /\ Others(h)
    BY <1>4, <2>2, <2>3, <2>4, StateKept
  <2>6. n.result.status = "Unknown" => ~l.room.validation /\ n.result.apworlds = None
    BY <1>5, <1>6, <2>1
  <2>7. l.room.validation => n.result.apworlds = ReleaseFor(l.room) /\ n.result.basis.apworlds = ReleaseFor(l.room)
    BY <1>6, <2>1
  <2> QED BY <1>0, <2>1, <2>5, <2>6, <2>7
<1> QED BY <1>3, <1>7, <1>8

LEMMA UploadStored ==
  ASSUME StateInv, NEW h \in Handlers, StoreUpload(h)
  PROVE  /\ StateInv' /\ Others(h) /\ handler'[h] = Idle
         /\ handler[h].pc = "store" /\ handler[h].kind = "upload" /\ handler[h].yaml \in Yamls
         /\ DOMAIN handler[h].writes = {} /\ clock < clock' /\ clock' \in Nat
         /\ \A z \in Yamls : z # handler[h].yaml => yamls'[z] = yamls[z]
         /\ yamls'[handler[h].yaml] \in Rows
         /\ yamls'[handler[h].yaml].status = handler[h].result.status
         /\ yamls'[handler[h].yaml].apworlds = handler[h].result.apworlds
         /\ yamls'[handler[h].yaml].time = clock'
         /\ yamls'[handler[h].yaml].basis = handler[h].result.basis
<1> DEFINE l == handler[h]
           row == [l.result EXCEPT !.time = clock']
<1>0. /\ l.pc = "store" /\ l.kind = "upload" /\ l.yaml \in Yamls /\ l.result \in Rows /\ DOMAIN l.writes = {}
  BY DEF StoreUpload, StateInv, StageOK
<1>1. clock' \in 0..MaxTime /\ clock < clock' /\ clock' \in Nat
  BY ConstantsAssumption DEF StoreUpload, Tick, StateInv
<1>2. row \in Rows /\ row.status = l.result.status /\ row.apworlds = l.result.apworlds /\ row.time = clock'
      /\ row.basis = l.result.basis
  BY <1>0, <1>1 DEF Rows
<1>3. yamls' = [yamls EXCEPT ![l.yaml] = row]
  BY DEF StoreUpload
<1> HIDE DEF row
<1>4. /\ yamls' \in [Yamls -> Rows \cup {None, Deleted}] /\ yamls'[l.yaml] = row
      /\ \A z \in Yamls : z # l.yaml => yamls'[z] = yamls[z]
  BY <1>0, <1>2, <1>3 DEF StateInv
<1>5. SetHandler(h, Idle) /\ room' \in Rooms /\ index' \in Indexes /\ queue' \in SUBSET JobRecords /\ UNCHANGED worker
  BY DEF StoreUpload, Finish, StateInv
<1>6. StateInv' /\ handler'[h] = Idle /\ Others(h)
  BY <1>1, <1>4, <1>5, StateSet, IdleFacts
<1> QED BY <1>0, <1>1, <1>2, <1>4, <1>6

(* Only a row that is there is edited, and none that a transaction holds.  *)
LEMMA EditStored ==
  ASSUME StateInv, NEW h \in Handlers, StoreEdit(h)
  PROVE  /\ StateInv' /\ Others(h) /\ handler'[h] = Idle
         /\ handler[h].pc = "store" /\ handler[h].yaml \in Yamls /\ DOMAIN handler[h].writes = {}
         /\ ~Locked(handler[h].yaml)
         /\ \A z \in Yamls : z # handler[h].yaml \/ z \notin Present => yamls'[z] = yamls[z]
         /\ handler[h].yaml \in Present =>
              /\ yamls'[handler[h].yaml] \in Rows
              /\ yamls'[handler[h].yaml].status = handler[h].result.status
              /\ yamls'[handler[h].yaml].apworlds = handler[h].result.apworlds
              /\ yamls'[handler[h].yaml].time = yamls[handler[h].yaml].time
              /\ yamls'[handler[h].yaml].basis = handler[h].result.basis
<1> DEFINE l == handler[h]
           row == [l.result EXCEPT !.time = yamls[l.yaml].time]
<1>0. /\ l.pc = "store" /\ l.yaml \in Yamls /\ l.result \in Rows /\ DOMAIN l.writes = {} /\ ~Locked(l.yaml)
  BY DEF StoreEdit, StateInv, StageOK
<1>1. ASSUME l.yaml \in Present
      PROVE  row \in Rows /\ row.status = l.result.status /\ row.apworlds = l.result.apworlds
             /\ row.time = yamls[l.yaml].time /\ row.basis = l.result.basis
  <2>1. yamls[l.yaml].time \in 0..MaxTime
    BY <1>0, <1>1, PresentFacts DEF Rows
  <2> QED BY <1>0, <2>1 DEF Rows
<1>3. yamls' = [yamls EXCEPT ![l.yaml] = IF l.yaml \notin Present THEN yamls[l.yaml] ELSE row]
  BY DEF StoreEdit
<1> HIDE DEF row
<1>4. /\ yamls' \in [Yamls -> Rows \cup {None, Deleted}] /\ (l.yaml \in Present => yamls'[l.yaml] = row)
      /\ \A z \in Yamls : z # l.yaml \/ z \notin Present => yamls'[z] = yamls[z]
  BY <1>0, <1>1, <1>3 DEF StateInv
<1>5. SetHandler(h, Idle) /\ room' \in Rooms /\ index' \in Indexes /\ queue' \in SUBSET JobRecords /\ UNCHANGED worker
      /\ clock' \in 0..MaxTime
  BY DEF StoreEdit, Finish, StateInv
<1>6. StateInv' /\ handler'[h] = Idle /\ Others(h)
  BY <1>4, <1>5, StateSet, IdleFacts
<1> QED BY <1>0, <1>1, <1>4, <1>6

LEMMA DeleteFacts ==
  ASSUME StateInv, NEW h \in Handlers, NEW y \in Yamls, DeleteYaml(h, y)
  PROVE  /\ StateInv' /\ ~Locked(y) /\ y \in Present
         /\ \A z \in Yamls : z # y => yamls'[z] = yamls[z]
         /\ yamls'[y] = Deleted
<1>1. /\ yamls' = [yamls EXCEPT ![y] = Deleted] /\ ~Locked(y) /\ y \in Present
      /\ UNCHANGED <<room, index, queue, worker, handler, clock>>
  BY DEF DeleteYaml
<1>2. yamls' \in [Yamls -> Rows \cup {None, Deleted}] /\ yamls'[y] = Deleted /\ \A z \in Yamls : z # y => yamls'[z] = yamls[z]
  BY <1>1 DEF StateInv
<1>3. StateInv'
  BY <1>1, <1>2 DEF StateInv
<1> QED BY <1>1, <1>2, <1>3

(* A statement on a row: it takes effect, waits for the commit, or finds   *)
(* no row.                                                                 *)
LEMMA WriteFacts ==
  ASSUME StateInv, NEW h \in Handlers, NEW l \in Locals, StageOK(l), l.pc \in {"queue", "enqueue"},
         NEW y \in Yamls, NEW row, y \in Present => row \in Rows, WriteRow(h, y, row, l),
         UNCHANGED <<room, index, queue, worker>>, clock' \in 0..MaxTime
  PROVE  /\ StateInv' /\ Others(h) /\ (y \in DOMAIN l.writes \/ ~Locked(y))
         /\ handler'[h].kind = l.kind /\ handler'[h].pc = l.pc /\ handler'[h].room = l.room
         /\ handler'[h].yaml = l.yaml /\ handler'[h].rows = l.rows /\ handler'[h].result = l.result
         /\ handler'[h].txn = l.txn
         /\ \A z \in Yamls : z # y => yamls'[z] = yamls[z]
         /\ \A z \in DOMAIN l.writes : z # y => handler'[h].writes[z] = l.writes[z]
         /\ \/ y \notin Present /\ handler'[h].writes = l.writes /\ yamls'[y] = yamls[y]
            \/ /\ y \in Present /\ l.txn /\ yamls'[y] = yamls[y]
               /\ DOMAIN handler'[h].writes = DOMAIN l.writes \cup {y} /\ handler'[h].writes[y] = row
            \/ y \in Present /\ ~l.txn /\ handler'[h].writes = l.writes /\ yamls'[y] = row
<1>0. y \in DOMAIN l.writes \/ ~Locked(y)
  BY DEF WriteRow
<1>1. /\ room' \in Rooms /\ index' \in Indexes /\ queue' \in SUBSET JobRecords /\ UNCHANGED worker
      /\ yamls \in [Yamls -> Rows \cup {None, Deleted}]
  BY DEF StateInv
<1>2. CASE y \notin Present
  <2>1. SetHandler(h, l) /\ yamls' = yamls
    BY <1>2 DEF WriteRow
  <2>2. StateInv' /\ handler'[h] = l /\ Others(h)
    BY <1>1, <2>1, StateSet
  <2> QED BY <1>0, <1>2, <2>1, <2>2
<1>3. CASE y \in Present /\ l.txn
  <2> DEFINE w == With(l.writes, y, row)
             n == [l EXCEPT !.writes = w]
  <2>1. SetHandler(h, n) /\ yamls' = yamls
    BY <1>3 DEF WriteRow
  <2>2. /\ w \in RowMaps /\ DOMAIN w = DOMAIN l.writes \cup {y} /\ w[y] = row
        /\ \A z \in DOMAIN l.writes : z # y => w[z] = l.writes[z]
    <3>1. l.writes \in RowMaps
      BY DEF Locals
    <3>2. row \in Rows
      BY <1>3
    <3> QED BY <3>1, <3>2, WithFacts
  <2> HIDE DEF w
  <2>3. /\ n.kind = l.kind /\ n.pc = l.pc /\ n.room = l.room /\ n.yaml = l.yaml /\ n.rows = l.rows
        /\ n.result = l.result /\ n.txn = l.txn /\ n.writes = w /\ n.target = l.target
    BY DEF Locals
  <2>4. n \in Locals
    BY <2>2 DEF Locals
  <2> HIDE DEF n
  <2>5. StageOK(n)
    BY <1>3, <2>3 DEF StageOK
  <2>6. StateInv' /\ handler'[h] = n /\ Others(h)
    BY <1>1, <2>1, <2>4, <2>5, StateSet
  <2> QED BY <1>0, <1>3, <2>1, <2>2, <2>3, <2>6
<1>4. CASE y \in Present /\ ~l.txn
  <2>1. SetHandler(h, l) /\ yamls' = [yamls EXCEPT ![y] = row]
    BY <1>4 DEF WriteRow
  <2>2. yamls' \in [Yamls -> Rows \cup {None, Deleted}] /\ yamls'[y] = row /\ \A z \in Yamls : z # y => yamls'[z] = yamls[z]
    BY <1>1, <1>4, <2>1
  <2>3. StateInv' /\ handler'[h] = l /\ Others(h)
    BY <1>1, <2>1, <2>2, StateSet
  <2> QED BY <1>0, <1>4, <2>2, <2>3
<1> QED BY <1>2, <1>3, <1>4

First(h) == Least(DOMAIN handler[h].rows)
Onward(h) == [handler[h] EXCEPT !.rows = Without(handler[h].rows, First(h))]

(* The request goes on to the next YAML.                                   *)
LEMMA FirstDone ==
  ASSUME StateInv, NEW h \in Handlers, handler[h].pc \in {"queue", "enqueue"}, DOMAIN handler[h].rows # {}
  PROVE  /\ First(h) \in Yamls /\ First(h) \in DOMAIN handler[h].rows /\ handler[h].rows[First(h)] \in Rows
         /\ Onward(h) \in Locals
         /\ Onward(h).kind = handler[h].kind /\ Onward(h).pc = handler[h].pc /\ Onward(h).room = handler[h].room
         /\ Onward(h).yaml = handler[h].yaml /\ Onward(h).txn = handler[h].txn /\ Onward(h).writes = handler[h].writes
         /\ Onward(h).result = handler[h].result /\ Onward(h).target = handler[h].target
         /\ DOMAIN Onward(h).rows = DOMAIN handler[h].rows \ {First(h)}
         /\ \A z \in DOMAIN Onward(h).rows : Onward(h).rows[z] = handler[h].rows[z]
<1> DEFINE m == Without(handler[h].rows, First(h))
<1>0. handler[h] \in Locals /\ handler[h].rows \in RowMaps
  BY DEF StateInv, Locals
<1>1. First(h) \in DOMAIN handler[h].rows /\ First(h) \in Yamls /\ handler[h].rows[First(h)] \in Rows
  BY <1>0, MapFacts, LeastOf DEF First
<1>2. /\ m \in RowMaps /\ DOMAIN m = DOMAIN handler[h].rows \ {First(h)}
      /\ \A z \in DOMAIN m : m[z] = handler[h].rows[z]
  BY <1>0, WithoutFacts
<1> HIDE DEF m
<1>3. Onward(h) = [handler[h] EXCEPT !.rows = m]
  BY DEF m, Onward
<1>4. /\ Onward(h) \in Locals /\ Onward(h).rows = m
      /\ Onward(h).kind = handler[h].kind /\ Onward(h).pc = handler[h].pc /\ Onward(h).room = handler[h].room
      /\ Onward(h).yaml = handler[h].yaml /\ Onward(h).txn = handler[h].txn /\ Onward(h).writes = handler[h].writes
      /\ Onward(h).result = handler[h].result /\ Onward(h).target = handler[h].target
  BY <1>0, <1>2, <1>3 DEF Locals
<1> QED BY <1>1, <1>2, <1>4

(* A status that needs no job: unsupported, or the content is unreadable.  *)
LEMMA JudgedAtOnce ==
  ASSUME StateInv, NEW h \in Handlers, QueueUnsupported(h) \/ QueueUnreadable(h)
  PROVE  /\ StateInv' /\ Others(h)
         /\ handler[h].pc = "queue" /\ First(h) \in Yamls /\ First(h) \in DOMAIN handler[h].rows
         /\ clock <= clock' /\ clock' \in Nat
         /\ handler'[h].kind = handler[h].kind /\ handler'[h].pc = "queue" /\ handler'[h].room = handler[h].room
         /\ handler'[h].yaml = handler[h].yaml /\ handler'[h].txn = handler[h].txn
         /\ DOMAIN handler'[h].rows = DOMAIN handler[h].rows \ {First(h)}
         /\ \A z \in DOMAIN handler'[h].rows : handler'[h].rows[z] = handler[h].rows[z]
         /\ \A z \in Yamls : z # First(h) => yamls'[z] = yamls[z]
         /\ \A z \in DOMAIN handler[h].writes : z # First(h) => handler'[h].writes[z] = handler[h].writes[z]
         /\ \/ /\ handler[h].rows[First(h)].status = "Unsupported" /\ ReleaseFor(handler[h].room) = None
               /\ handler'[h].writes = handler[h].writes /\ yamls'[First(h)] = yamls[First(h)]
            \/ First(h) \notin Present /\ handler'[h].writes = handler[h].writes /\ yamls'[First(h)] = yamls[First(h)]
            \/ /\ First(h) \in Present /\ handler[h].txn /\ yamls'[First(h)] = yamls[First(h)]
               /\ First(h) \in DOMAIN handler[h].writes \/ ~Locked(First(h))
               /\ DOMAIN handler'[h].writes = DOMAIN handler[h].writes \cup {First(h)}
               /\ handler'[h].writes[First(h)].status \in {"Unsupported", "Failed"} /\ handler'[h].writes[First(h)].time = clock'
            \/ /\ First(h) \in Present /\ ~handler[h].txn /\ handler'[h].writes = handler[h].writes
               /\ DOMAIN handler[h].writes = {} /\ ~Locked(First(h))
               /\ yamls'[First(h)] \in Rows
               /\ yamls'[First(h)].status \in {"Unsupported", "Failed"} /\ yamls'[First(h)].time = clock'
<1> DEFINE y == First(h)
           n == Onward(h)
<1>0. /\ handler[h].pc = "queue" /\ DOMAIN handler[h].rows # {}
      /\ StageOK(handler[h]) /\ handler[h].room \in Rooms
      /\ UNCHANGED <<room, index, queue, worker>>
  BY DEF QueueUnsupported, QueueUnreadable, StateInv, StageOK
<1>1. /\ y \in Yamls /\ y \in DOMAIN handler[h].rows /\ handler[h].rows[y] \in Rows
      /\ n \in Locals
      /\ n.kind = handler[h].kind /\ n.pc = "queue" /\ n.room = handler[h].room
      /\ n.yaml = handler[h].yaml /\ n.txn = handler[h].txn /\ n.writes = handler[h].writes
      /\ n.target = handler[h].target
      /\ DOMAIN n.rows = DOMAIN handler[h].rows \ {y}
      /\ \A z \in DOMAIN n.rows : n.rows[z] = handler[h].rows[z]
  BY <1>0, FirstDone
<1>2. \/ /\ handler[h].rows[y].status = "Unsupported" /\ ReleaseFor(handler[h].room) = None
         /\ SetHandler(h, n) /\ UNCHANGED <<yamls, clock>>
      \/ /\ Tick
         /\ \E s \in {"Unsupported", "Failed"} :
              WriteRow(h, y, Judged(yamls[y], s, None, clock',
                                    Basis(handler[h].rows[y].content, handler[h].room.version, None)), n)
  BY DEF QueueUnsupported, QueueUnreadable, First, Onward
<1> HIDE DEF y, n
<1>3. StageOK(n)
  BY <1>0, <1>1 DEF StageOK
<1>4. CASE /\ handler[h].rows[y].status = "Unsupported" /\ ReleaseFor(handler[h].room) = None
           /\ SetHandler(h, n) /\ UNCHANGED <<yamls, clock>>
  <2>1. StateInv' /\ handler'[h] = n /\ Others(h)
    BY <1>0, <1>1, <1>3, <1>4, StateKept
  <2>2. clock <= clock' /\ clock' \in Nat
    BY <1>4, ConstantsAssumption DEF StateInv
  <2> QED BY <1>0, <1>1, <1>4, <2>1, <2>2 DEF y
<1>5. CASE /\ Tick
           /\ \E s \in {"Unsupported", "Failed"} :
                WriteRow(h, y, Judged(yamls[y], s, None, clock',
                                      Basis(handler[h].rows[y].content, handler[h].room.version, None)), n)
  <2>0. PICK s \in {"Unsupported", "Failed"} :
          WriteRow(h, y, Judged(yamls[y], s, None, clock',
                                Basis(handler[h].rows[y].content, handler[h].room.version, None)), n)
    BY <1>5
  <2> DEFINE b == Basis(handler[h].rows[y].content, handler[h].room.version, None)
             row == Judged(yamls[y], s, None, clock', b)
  <2>1. clock' \in 0..MaxTime /\ clock' \in Nat /\ clock <= clock'
    BY <1>5, ConstantsAssumption DEF StateInv, Tick
  <2>2. b \in Bases \cup {None}
    <3>1. handler[h].rows[y].content \in 0..MaxContent /\ handler[h].room.version \in Versions
      BY <1>0, <1>1 DEF Rows, Rooms
    <3> QED BY <3>1, BasisFacts
  <2> HIDE DEF b
  <2>3. y \in Present => row \in Rows /\ row.status = s /\ row.time = clock'
    <3>1. SUFFICES ASSUME y \in Present PROVE row \in Rows /\ row.status = s /\ row.time = clock'
      OBVIOUS
    <3>2. yamls[y] \in Rows
      BY <1>1, <3>1, PresentFacts
    <3>3. s \in Statuses
      BY DEF Statuses
    <3> QED BY <2>1, <2>2, <3>2, <3>3 DEF Judged, Rows
  <2>4. WriteRow(h, y, row, n)
    BY <2>0 DEF b
  <2> HIDE DEF row
  <2>5. /\ StateInv' /\ Others(h) /\ (y \in DOMAIN n.writes \/ ~Locked(y))
        /\ handler'[h].kind = n.kind /\ handler'[h].pc = n.pc /\ handler'[h].room = n.room
        /\ handler'[h].yaml = n.yaml /\ handler'[h].rows = n.rows
        /\ handler'[h].txn = n.txn
        /\ \A z \in Yamls : z # y => yamls'[z] = yamls[z]
        /\ \A z \in DOMAIN n.writes : z # y => handler'[h].writes[z] = n.writes[z]
        /\ \/ y \notin Present /\ handler'[h].writes = n.writes /\ yamls'[y] = yamls[y]
           \/ /\ y \in Present /\ n.txn /\ yamls'[y] = yamls[y]
              /\ DOMAIN handler'[h].writes = DOMAIN n.writes \cup {y} /\ handler'[h].writes[y] = row
           \/ y \in Present /\ ~n.txn /\ handler'[h].writes = n.writes /\ yamls'[y] = row
    BY <1>0, <1>1, <1>3, <2>1, <2>3, <2>4, WriteFacts
  <2>6. ~n.txn => DOMAIN n.writes = {}
    BY <1>3 DEF StageOK
  <2> QED BY <1>0, <1>1, <2>1, <2>3, <2>5, <2>6 DEF y
<1> QED BY <1>2, <1>4, <1>5

LEMMA ResetQueued ==
  ASSUME StateInv, NEW h \in Handlers, QueueReset(h)
  PROVE  /\ StateInv' /\ Others(h)
         /\ handler[h].pc = "queue" /\ First(h) \in Yamls /\ First(h) \in DOMAIN handler[h].rows
         /\ ReleaseFor(handler[h].room) \in Releases
         /\ handler'[h].kind = handler[h].kind /\ handler'[h].pc = "enqueue" /\ handler'[h].room = handler[h].room
         /\ handler'[h].yaml = handler[h].yaml /\ handler'[h].txn = handler[h].txn
         /\ handler'[h].rows = handler[h].rows /\ handler'[h].result = ReleaseFor(handler[h].room)
         /\ \A z \in Yamls : z # First(h) => yamls'[z] = yamls[z]
         /\ \A z \in DOMAIN handler[h].writes : z # First(h) => handler'[h].writes[z] = handler[h].writes[z]
         /\ \/ First(h) \notin Present /\ handler'[h].writes = handler[h].writes /\ yamls'[First(h)] = yamls[First(h)]
            \/ /\ First(h) \in Present /\ handler[h].txn /\ yamls'[First(h)] = yamls[First(h)]
               /\ First(h) \in DOMAIN handler[h].writes \/ ~Locked(First(h))
               /\ DOMAIN handler'[h].writes = DOMAIN handler[h].writes \cup {First(h)}
               /\ handler'[h].writes[First(h)] = Reset(yamls[First(h)])
            \/ /\ First(h) \in Present /\ ~handler[h].txn /\ handler'[h].writes = handler[h].writes
               /\ DOMAIN handler[h].writes = {} /\ ~Locked(First(h))
               /\ yamls'[First(h)] = Reset(yamls[First(h)])
<1> DEFINE y == First(h)
           r == ReleaseFor(handler[h].room)
           n == [handler[h] EXCEPT !.pc = "enqueue", !.result = r]
<1>0. /\ handler[h] \in Locals /\ handler[h].pc = "queue" /\ DOMAIN handler[h].rows # {} /\ r # None
      /\ StageOK(handler[h]) /\ handler[h].room \in Rooms
      /\ UNCHANGED <<room, index, queue, worker, clock>>
  BY DEF QueueReset, StateInv, StageOK
<1>1. r \in Releases
  BY <1>0, ReleaseType
<1>2. y \in Yamls /\ y \in DOMAIN handler[h].rows
  BY <1>0, FirstDone
<1>3. WriteRow(h, y, Reset(yamls[y]), n)
  BY DEF QueueReset, First
<1> HIDE DEF r
<1>4. /\ n \in Locals
      /\ n.kind = handler[h].kind /\ n.pc = "enqueue" /\ n.room = handler[h].room
      /\ n.yaml = handler[h].yaml /\ n.txn = handler[h].txn /\ n.writes = handler[h].writes
      /\ n.rows = handler[h].rows /\ n.result = r /\ n.target = handler[h].target
  BY <1>0, <1>1 DEF Locals, Pcs
<1> HIDE DEF n, y
<1>5. StageOK(n)
  BY <1>0, <1>1, <1>4 DEF StageOK
<1>6. y \in Present => Reset(yamls[y]) \in Rows
  BY <1>2, PresentFacts, ResetFacts
<1>7. clock' \in 0..MaxTime
  BY <1>0 DEF StateInv
<1>8. /\ StateInv' /\ Others(h) /\ (y \in DOMAIN n.writes \/ ~Locked(y))
      /\ handler'[h].kind = n.kind /\ handler'[h].pc = n.pc /\ handler'[h].room = n.room
      /\ handler'[h].yaml = n.yaml /\ handler'[h].rows = n.rows /\ handler'[h].result = n.result
      /\ handler'[h].txn = n.txn
      /\ \A z \in Yamls : z # y => yamls'[z] = yamls[z]
      /\ \A z \in DOMAIN n.writes : z # y => handler'[h].writes[z] = n.writes[z]
      /\ \/ y \notin Present /\ handler'[h].writes = n.writes /\ yamls'[y] = yamls[y]
         \/ /\ y \in Present /\ n.txn /\ yamls'[y] = yamls[y]
            /\ DOMAIN handler'[h].writes = DOMAIN n.writes \cup {y} /\ handler'[h].writes[y] = Reset(yamls[y])
         \/ y \in Present /\ ~n.txn /\ handler'[h].writes = n.writes /\ yamls'[y] = Reset(yamls[y])
  BY <1>0, <1>2, <1>3, <1>4, <1>5, <1>6, <1>7, WriteFacts
<1>9. ~n.txn => DOMAIN n.writes = {}
  BY <1>5 DEF StageOK
<1> QED BY <1>0, <1>1, <1>2, <1>4, <1>8, <1>9 DEF y, r

LEMMA EnqueueFacts ==
  ASSUME StateInv, NEW h \in Handlers, Enqueue(h)
  PROVE  /\ StateInv' /\ Others(h)
         /\ handler[h].pc = "enqueue" /\ First(h) \in Yamls /\ First(h) \in DOMAIN handler[h].rows
         /\ handler[h].result \in Releases
         /\ handler'[h].kind = handler[h].kind /\ handler'[h].pc = "queue" /\ handler'[h].room = handler[h].room
         /\ handler'[h].yaml = handler[h].yaml /\ handler'[h].writes = handler[h].writes
         /\ DOMAIN handler'[h].rows = DOMAIN handler[h].rows \ {First(h)}
         /\ \A z \in DOMAIN handler'[h].rows : handler'[h].rows[z] = handler[h].rows[z]
         /\ clock < clock' /\ clock' \in Nat
         /\ \E job \in JobRecords : /\ queue' = queue \cup {job} /\ job.yaml = First(h)
                                    /\ job.version = handler[h].room.version
                                    /\ job.apworlds = handler[h].result /\ job.time = clock'
<1> DEFINE y == First(h)
           m == Without(handler[h].rows, y)
           n == [handler[h] EXCEPT !.pc = "queue", !.rows = m]
           job == [yaml |-> y, content |-> handler[h].rows[y].content, version |-> handler[h].room.version,
                   apworlds |-> handler[h].result, time |-> clock']
<1>0. /\ handler[h] \in Locals /\ handler[h].pc = "enqueue" /\ DOMAIN handler[h].rows # {}
      /\ StageOK(handler[h]) /\ handler[h].room \in Rooms /\ handler[h].result \in Releases
      /\ UNCHANGED <<room, index, yamls, worker>>
  BY DEF Enqueue, StateInv, StageOK
<1>1. y \in Yamls /\ y \in DOMAIN handler[h].rows /\ handler[h].rows[y] \in Rows
  BY <1>0, FirstDone
<1>2. m \in RowMaps /\ DOMAIN m = DOMAIN handler[h].rows \ {y} /\ \A z \in DOMAIN m : m[z] = handler[h].rows[z]
  BY <1>0, WithoutFacts DEF Locals
<1>3. clock' \in 0..MaxTime /\ clock' \in Nat /\ clock < clock'
  BY ConstantsAssumption DEF Enqueue, Tick, StateInv
<1>4. SetHandler(h, n) /\ queue' = queue \cup {job}
  BY DEF Enqueue, First
<1>5. /\ job \in JobRecords /\ job.yaml = y /\ job.version = handler[h].room.version
      /\ job.apworlds = handler[h].result /\ job.time = clock'
  BY <1>0, <1>1, <1>3 DEF JobRecords, Rows, Rooms
<1> HIDE DEF m, job
<1>6. /\ n \in Locals
      /\ n.kind = handler[h].kind /\ n.pc = "queue" /\ n.room = handler[h].room
      /\ n.yaml = handler[h].yaml /\ n.txn = handler[h].txn /\ n.writes = handler[h].writes
      /\ n.rows = m /\ n.target = handler[h].target
  BY <1>0, <1>2 DEF Locals, Pcs
<1> HIDE DEF n, y
<1>7. StageOK(n)
  BY <1>0, <1>6 DEF StageOK
<1>8. /\ room' \in Rooms /\ index' \in Indexes /\ yamls' \in [Yamls -> Rows \cup {None, Deleted}]
      /\ queue' \in SUBSET JobRecords /\ UNCHANGED worker
  BY <1>0, <1>4, <1>5 DEF StateInv
<1>9. StateInv' /\ handler'[h] = n /\ Others(h)
  BY <1>3, <1>4, <1>6, <1>7, <1>8, StateSet
<1>10. \E j \in JobRecords : /\ queue' = queue \cup {j} /\ j.yaml = y /\ j.version = handler[h].room.version
                             /\ j.apworlds = handler[h].result /\ j.time = clock'
  BY <1>4, <1>5
<1> QED BY <1>0, <1>1, <1>2, <1>3, <1>6, <1>9, <1>10 DEF y

LEMMA QueuedFacts ==
  ASSUME StateInv, NEW h \in Handlers, Queued(h)
  PROVE  /\ StateInv' /\ Others(h) /\ handler'[h] = Idle
         /\ handler[h].pc = "queue" /\ DOMAIN handler[h].rows = {}
         /\ DOMAIN handler[h].writes \in SUBSET Yamls
         /\ \A z \in Yamls : z \notin DOMAIN handler[h].writes => yamls'[z] = yamls[z]
         /\ \A z \in DOMAIN handler[h].writes : yamls'[z] = handler[h].writes[z] /\ yamls'[z] \in Rows
<1> DEFINE w == handler[h].writes
<1>0. handler[h].pc = "queue" /\ DOMAIN handler[h].rows = {} /\ w \in RowMaps
  BY DEF Queued, StateInv, Locals
<1>1. DOMAIN w \in SUBSET Yamls /\ \A z \in DOMAIN w : w[z] \in Rows
  BY <1>0, MapFacts
<1>2. yamls' = [z \in Yamls |-> IF z \in DOMAIN w THEN w[z] ELSE yamls[z]]
  BY DEF Queued
<1> HIDE DEF w
<1>3. /\ yamls' \in [Yamls -> Rows \cup {None, Deleted}]
      /\ \A z \in Yamls : z \notin DOMAIN w => yamls'[z] = yamls[z]
      /\ \A z \in DOMAIN w : yamls'[z] = w[z] /\ yamls'[z] \in Rows
  BY <1>1, <1>2 DEF StateInv
<1>4. /\ SetHandler(h, Idle) /\ room' \in Rooms /\ index' \in Indexes /\ queue' \in SUBSET JobRecords
      /\ UNCHANGED worker /\ clock' \in 0..MaxTime
  BY DEF Queued, Finish, StateInv
<1>5. StateInv' /\ handler'[h] = Idle /\ Others(h)
  BY <1>3, <1>4, StateSet, IdleFacts
<1> QED BY <1>0, <1>1, <1>3, <1>5 DEF w

(* A request goes from one stage to another and keeps what it has.         *)
LEMMA GotoFacts ==
  ASSUME StateInv, NEW h \in Handlers, NEW pc \in Pcs, Goto(h, pc), DOMAIN handler[h].writes = {},
         pc \in {"write", "revalidate", "reread"}, handler[h].room \in Rooms, handler[h].kind # "upload",
         pc = "write" => handler[h].kind = "editRoom", pc = "reread" => handler[h].kind = "switch"
  PROVE  \E l \in Locals :
         /\ StageOK(l) /\ SetHandler(h, l)
         /\ l.kind = handler[h].kind /\ l.pc = pc /\ l.room = handler[h].room
         /\ l.yaml = handler[h].yaml /\ l.rows = handler[h].rows /\ DOMAIN l.writes = {}
<1> DEFINE l == [handler[h] EXCEPT !.pc = pc]
<1>0. handler[h] \in Locals
  BY DEF StateInv
<1>1. /\ l \in Locals /\ l.kind = handler[h].kind /\ l.pc = pc /\ l.room = handler[h].room
      /\ l.yaml = handler[h].yaml /\ l.rows = handler[h].rows /\ l.writes = handler[h].writes
  BY <1>0 DEF Locals
<1>2. SetHandler(h, l)
  BY DEF Goto
<1> HIDE DEF l
<1>3. StageOK(l)
  BY <1>1 DEF StageOK
<1> QED BY <1>1, <1>2, <1>3

LEMMA ClearFacts ==
  ASSUME StateInv, NEW h \in Handlers, UpdateRoomReset(h)
  PROVE  /\ StateInv' /\ Others(h)
         /\ handler[h].pc = "reset" /\ handler[h].room \in Rooms
         /\ DOMAIN handler[h].writes = {} /\ DOMAIN handler'[h].writes = {}
         /\ handler'[h].kind = handler[h].kind /\ handler'[h].pc = "write" /\ handler'[h].room = handler[h].room
         /\ handler'[h].yaml = handler[h].yaml
         /\ clock < clock' /\ clock' \in Nat
         /\ \A y \in Present : ~Locked(y)
         /\ \A y \in Yamls : y \notin Present => yamls'[y] = yamls[y]
         /\ \A y \in Present : /\ yamls'[y] \in Rows /\ yamls'[y].status = "Unknown" /\ yamls'[y].apworlds = None
                               /\ yamls'[y].time = clock'
<1>0. /\ handler[h].pc = "reset" /\ handler[h].room \in Rooms /\ DOMAIN handler[h].writes = {}
      /\ handler[h].kind = "editRoom" /\ (\A y \in Present : ~Locked(y))
  BY DEF UpdateRoomReset, StateInv, StageOK
<1>1. clock' \in 0..MaxTime /\ clock' \in Nat /\ clock < clock'
  BY ConstantsAssumption DEF UpdateRoomReset, Tick, StateInv
<1>2. yamls' = [y \in Yamls |-> IF y \in Present THEN Judged(yamls[y], "Unknown", None, clock', None) ELSE yamls[y]]
  BY DEF UpdateRoomReset
<1>3. ASSUME NEW y \in Present
      PROVE  LET row == Judged(yamls[y], "Unknown", None, clock', None)
             IN  row \in Rows /\ row.status = "Unknown" /\ row.apworlds = None /\ row.time = clock'
  <2>1. yamls[y] \in Rows
    BY PresentFacts
  <2> QED BY <1>1, <2>1 DEF Judged, Rows, Statuses
<1>4. \A y \in Present : y \in Yamls /\ yamls'[y] = Judged(yamls[y], "Unknown", None, clock', None)
  BY <1>2, PresentFacts
<1>5. \A y \in Yamls : y \notin Present => yamls'[y] = yamls[y]
  BY <1>2
<1>6. \A y \in Present : /\ yamls'[y] \in Rows /\ yamls'[y].status = "Unknown" /\ yamls'[y].apworlds = None
                         /\ yamls'[y].time = clock'
  BY <1>3, <1>4
<1>7. yamls' \in [Yamls -> Rows \cup {None, Deleted}]
  <2>1. \A y \in Yamls : yamls'[y] \in Rows \cup {None, Deleted}
    BY <1>5, <1>6 DEF StateInv
  <2>2. yamls' = [y \in Yamls |-> yamls'[y]]
    BY <1>2
  <2> QED BY <2>1, <2>2
<1>8. PICK l \in Locals : /\ StageOK(l) /\ SetHandler(h, l)
                          /\ l.kind = handler[h].kind /\ l.pc = "write" /\ l.room = handler[h].room
                          /\ l.yaml = handler[h].yaml /\ l.rows = handler[h].rows /\ DOMAIN l.writes = {}
  <2>1. Goto(h, "write") /\ "write" \in Pcs
    BY DEF UpdateRoomReset, Pcs
  <2> QED BY <1>0, <2>1, GotoFacts
<1>9. room' \in Rooms /\ index' \in Indexes /\ queue' \in SUBSET JobRecords /\ UNCHANGED worker
  BY DEF UpdateRoomReset, StateInv
<1>10. StateInv' /\ handler'[h] = l /\ Others(h)
  BY <1>1, <1>7, <1>8, <1>9, StateSet
<1> QED BY <1>0, <1>1, <1>5, <1>6, <1>8, <1>10

LEMMA RoomWritten ==
  ASSUME StateInv, NEW h \in Handlers, UpdateRoom(h)
  PROVE  /\ StateInv' /\ Others(h)
         /\ handler[h].pc = "write" /\ handler[h].kind = "editRoom" /\ room' = handler[h].room
         /\ DOMAIN handler[h].writes = {} /\ DOMAIN handler'[h].writes = {}
         /\ handler'[h].kind = handler[h].kind /\ handler'[h].pc = "revalidate" /\ handler'[h].room = handler[h].room
         /\ handler'[h].yaml = handler[h].yaml
<1>0. /\ handler[h].pc = "write" /\ handler[h].room \in Rooms /\ DOMAIN handler[h].writes = {}
      /\ handler[h].kind = "editRoom" /\ room' = handler[h].room /\ UNCHANGED <<index, yamls, queue, worker, clock>>
  BY DEF UpdateRoom, StateInv, StageOK
<1>1. PICK l \in Locals : /\ StageOK(l) /\ SetHandler(h, l)
                          /\ l.kind = handler[h].kind /\ l.pc = "revalidate" /\ l.room = handler[h].room
                          /\ l.yaml = handler[h].yaml /\ l.rows = handler[h].rows /\ DOMAIN l.writes = {}
  <2>1. Goto(h, "revalidate") /\ "revalidate" \in Pcs
    BY DEF UpdateRoom, Pcs
  <2> QED BY <1>0, <2>1, GotoFacts
<1>2. /\ room' \in Rooms /\ index' \in Indexes /\ yamls' \in [Yamls -> Rows \cup {None, Deleted}]
      /\ queue' \in SUBSET JobRecords /\ UNCHANGED worker /\ clock' \in 0..MaxTime
  BY <1>0 DEF StateInv
<1>3. StateInv' /\ handler'[h] = l /\ Others(h)
  BY <1>1, <1>2, StateSet
<1> QED BY <1>0, <1>1, <1>3

LEMMA RevalidateFacts ==
  ASSUME StateInv, NEW h \in Handlers, Revalidate(h)
  PROVE  /\ StateInv' /\ Others(h)
         /\ handler[h].pc = "revalidate" /\ handler[h].room \in Rooms
         /\ DOMAIN handler[h].writes = {} /\ DOMAIN handler'[h].writes = {}
         /\ \/ ~handler[h].room.validation /\ handler'[h] = Idle
            \/ /\ handler[h].room.validation
               /\ handler'[h].kind = handler[h].kind /\ handler'[h].pc = "queue"
               /\ handler'[h].room = handler[h].room /\ handler'[h].yaml = handler[h].yaml /\ handler'[h].txn = TRUE
               /\ DOMAIN handler'[h].rows =
                    {y \in Present : ShouldRevalidate(yamls[y], ReleaseFor(handler[h].room), handler[h].old)}
               /\ \A y \in DOMAIN handler'[h].rows : handler'[h].rows[y] = yamls[y]
<1> DEFINE S == {y \in Present : ShouldRevalidate(yamls[y], ReleaseFor(handler[h].room), handler[h].old)}
           m == [y \in S |-> yamls[y]]
           n == [handler[h] EXCEPT !.pc = "queue", !.txn = TRUE, !.rows = m]
<1>0. /\ handler[h] \in Locals /\ handler[h].pc = "revalidate" /\ handler[h].room \in Rooms
      /\ DOMAIN handler[h].writes = {} /\ handler[h].kind # "upload"
      /\ UNCHANGED <<room, index, yamls, queue, worker, clock>>
  BY DEF Revalidate, StateInv, StageOK
<1>1. CASE ~handler[h].room.validation
  <2>1. SetHandler(h, Idle)
    BY <1>1 DEF Revalidate, Finish
  <2>2. StateInv' /\ handler'[h] = Idle /\ Others(h)
    BY <1>0, <2>1, IdleFacts, StateKept
  <2> QED BY <1>0, <1>1, <2>2, IdleFacts
<1>2. CASE handler[h].room.validation
  <2>1. SetHandler(h, n)
    BY <1>2 DEF Revalidate
  <2>2. m \in RowMaps /\ DOMAIN m = S /\ \A y \in S : m[y] = yamls[y]
    <3>1. S \in SUBSET Yamls /\ \A y \in S : yamls[y] \in Rows
      BY PresentFacts
    <3> HIDE DEF S
    <3>2. m \in [S -> Rows]
      BY <3>1
    <3> QED BY <3>1, <3>2, MapOf
  <2> HIDE DEF m
  <2>3. /\ n \in Locals /\ n.kind = handler[h].kind /\ n.pc = "queue" /\ n.room = handler[h].room
        /\ n.yaml = handler[h].yaml /\ n.txn = TRUE /\ n.rows = m /\ n.writes = handler[h].writes
    BY <1>0, <2>2 DEF Locals, Pcs
  <2> HIDE DEF n
  <2>4. StageOK(n)
    BY <1>0, <2>3 DEF StageOK
  <2>5. StateInv' /\ handler'[h] = n /\ Others(h)
    BY <1>0, <2>1, <2>3, <2>4, StateKept
  <2> QED BY <1>0, <1>2, <2>2, <2>3, <2>5
<1> QED BY <1>1, <1>2

LEMMA CommitFacts ==
  ASSUME StateInv, NEW h \in Handlers, SwitchCommit(h)
  PROVE  /\ StateInv' /\ Others(h)
         /\ handler[h].pc = "commit" /\ handler[h].kind = "switch" /\ handler[h].room \in Rooms
         /\ room'.validation = room.validation
         /\ DOMAIN handler[h].writes = {} /\ DOMAIN handler'[h].writes = {}
         /\ \/ ~handler[h].room.validation /\ handler'[h] = Idle /\ yamls' = yamls
            \/ /\ handler[h].room.validation
               /\ handler'[h].kind = handler[h].kind /\ handler'[h].pc = "reread"
               /\ handler'[h].yaml = handler[h].yaml /\ handler'[h].rows = handler[h].rows
               /\ \A y \in Present : ~Locked(y)
               /\ \A y \in Yamls : y \notin Present => yamls'[y] = yamls[y]
               /\ \A y \in Present : yamls'[y] = Reset(yamls[y]) /\ yamls'[y] \in Rows
<1>0. /\ handler[h].pc = "commit" /\ handler[h].room \in Rooms /\ DOMAIN handler[h].writes = {}
      /\ handler[h].kind = "switch" /\ handler[h].target \in Versions /\ room \in Rooms
      /\ room' = [room EXCEPT !.version = handler[h].target] /\ UNCHANGED <<index, queue, worker, clock>>
  BY DEF SwitchCommit, StateInv, StageOK
<1>1. room' \in Rooms /\ room'.validation = room.validation
  BY <1>0 DEF Rooms
<1>2. index' \in Indexes /\ queue' \in SUBSET JobRecords /\ UNCHANGED worker /\ clock' \in 0..MaxTime
  BY <1>0 DEF StateInv
<1>3. CASE ~handler[h].room.validation
  <2>1. SetHandler(h, Idle) /\ yamls' = yamls
    BY <1>3 DEF SwitchCommit, Finish
  <2>2. yamls' \in [Yamls -> Rows \cup {None, Deleted}]
    BY <2>1 DEF StateInv
  <2>3. StateInv' /\ handler'[h] = Idle /\ Others(h)
    BY <1>1, <1>2, <2>1, <2>2, IdleFacts, StateSet
  <2> QED BY <1>0, <1>1, <1>3, <2>1, <2>3, IdleFacts
<1>4. CASE handler[h].room.validation
  <2>1. yamls' = ResetAll /\ Goto(h, "reread") /\ \A y \in Present : ~Locked(y)
    BY <1>4 DEF SwitchCommit
  <2>2. \A y \in Yamls : y \notin Present => yamls'[y] = yamls[y]
    BY <2>1 DEF ResetAll
  <2>3. \A y \in Present : y \in Yamls /\ yamls'[y] = Reset(yamls[y])
    BY <2>1, PresentFacts DEF ResetAll
  <2>4. \A y \in Present : yamls'[y] \in Rows
    BY <2>3, PresentFacts, ResetFacts
  <2>5. yamls' \in [Yamls -> Rows \cup {None, Deleted}]
    <3>1. \A y \in Yamls : yamls'[y] \in Rows \cup {None, Deleted}
      BY <2>2, <2>4 DEF StateInv
    <3>2. yamls' = [y \in Yamls |-> yamls'[y]]
      BY <2>1 DEF ResetAll
    <3> QED BY <3>1, <3>2
  <2>6. PICK l \in Locals : /\ StageOK(l) /\ SetHandler(h, l)
                            /\ l.kind = handler[h].kind /\ l.pc = "reread" /\ l.room = handler[h].room
                            /\ l.yaml = handler[h].yaml /\ l.rows = handler[h].rows /\ DOMAIN l.writes = {}
    <3>1. "reread" \in Pcs
      BY DEF Pcs
    <3> QED BY <1>0, <2>1, <3>1, GotoFacts
  <2>7. StateInv' /\ handler'[h] = l /\ Others(h)
    BY <1>1, <1>2, <2>5, <2>6, StateSet
  <2> QED BY <1>0, <1>1, <1>4, <2>1, <2>2, <2>3, <2>4, <2>6, <2>7
<1> QED BY <1>3, <1>4

LEMMA RereadFacts ==
  ASSUME StateInv, NEW h \in Handlers, SwitchReread(h)
  PROVE  /\ StateInv' /\ Others(h)
         /\ handler[h].pc = "reread"
         /\ DOMAIN handler[h].writes = {} /\ DOMAIN handler'[h].writes = {}
         /\ handler'[h].kind = handler[h].kind /\ handler'[h].pc = "queue"
         /\ handler'[h].room = room /\ handler'[h].yaml = handler[h].yaml
         /\ DOMAIN handler'[h].rows = DOMAIN handler[h].rows
         /\ \A y \in DOMAIN handler'[h].rows : handler'[h].rows[y].status = "Unknown"
<1> DEFINE R == handler[h].rows
           m == [y \in DOMAIN R |-> [R[y] EXCEPT !.status = "Unknown"]]
           n == [handler[h] EXCEPT !.pc = "queue", !.room = room, !.rows = m]
<1>0. /\ handler[h] \in Locals /\ handler[h].pc = "reread" /\ handler[h].kind # "upload"
      /\ DOMAIN handler[h].writes = {} /\ room \in Rooms /\ R \in RowMaps
      /\ UNCHANGED <<room, index, yamls, queue, worker, clock>>
  BY DEF SwitchReread, StateInv, StageOK, Locals
<1>1. SetHandler(h, n)
  BY DEF SwitchReread
<1>2. m \in RowMaps /\ DOMAIN m = DOMAIN R /\ \A y \in DOMAIN m : m[y].status = "Unknown"
  <2>1. DOMAIN R \in SUBSET Yamls
    BY <1>0, MapFacts
  <2>2. ASSUME NEW y \in DOMAIN R
        PROVE  m[y] \in Rows /\ m[y].status = "Unknown"
    <3>1. R[y] \in Rows
      BY <1>0, MapFacts
    <3>2. [R[y] EXCEPT !.status = "Unknown"] \in Rows /\ [R[y] EXCEPT !.status = "Unknown"].status = "Unknown"
      BY <3>1 DEF Rows, Statuses
    <3> QED BY <3>2
  <2>3. m = [y \in DOMAIN R |-> m[y]] /\ DOMAIN m = DOMAIN R
    OBVIOUS
  <2> HIDE DEF m
  <2>4. m \in [DOMAIN R -> Rows]
    BY <2>2, <2>3
  <2> QED BY <2>1, <2>2, <2>3, <2>4, MapOf
<1> HIDE DEF m
<1>3. /\ n \in Locals /\ n.kind = handler[h].kind /\ n.pc = "queue" /\ n.room = room
      /\ n.yaml = handler[h].yaml /\ n.rows = m /\ n.writes = handler[h].writes
  BY <1>0, <1>2 DEF Locals, Pcs
<1> HIDE DEF n
<1>4. StageOK(n)
  BY <1>0, <1>3 DEF StageOK
<1>5. StateInv' /\ handler'[h] = n /\ Others(h)
  BY <1>0, <1>1, <1>3, <1>4, StateKept
<1> QED BY <1>0, <1>2, <1>3, <1>5

LEMMA FailureFacts ==
  ASSUME StateInv, NEW h \in Handlers, HandlerFails(h)
  PROVE  StateInv' /\ Others(h) /\ handler'[h] = Idle
<1>1. SetHandler(h, Idle) /\ UNCHANGED <<room, index, yamls, queue, worker, clock>>
  BY DEF HandlerFails, Finish
<1> QED BY <1>1, IdleFacts, StateKept

-----------------------------------------------------------------------------
(* The same for the queue and the workers                                  *)

LEMMA WorkerFacts ==
  ASSUME StateInv, NEW w \in Workers, Reports(w)
  PROVE  worker[w] \in Reporting /\ worker[w].job \in JobRecords
BY DEF StateInv, Reports, Reporting, WorkerIdle

LEMMA WorkerSet ==
  ASSUME StateInv, NEW w \in Workers, NEW l \in Reporting \cup {WorkerIdle}, SetWorker(w, l)
  PROVE  /\ worker' \in [Workers -> Reporting \cup {WorkerIdle}]
         /\ worker'[w] = l /\ \A v \in Workers : v # w => worker'[v] = worker[v]
BY DEF StateInv, SetWorker

LEMMA ResolveFacts ==
  ASSUME StateInv, NEW w \in Workers, NEW job \in queue, WorkerResolves(w, job)
  PROVE  /\ StateInv' /\ ~Reports(w) /\ worker'[w] \in Reporting /\ worker'[w].job = job
         /\ \A v \in Workers : v # w => worker'[v] = worker[v]
<1>1. PICK status \in {"Validated", "Failed"} : SetWorker(w, [pc |-> "read", job |-> job, status |-> status])
  BY DEF WorkerResolves
<1> DEFINE l == [pc |-> "read", job |-> job, status |-> status]
<1>2. l \in Reporting /\ l.job = job
  BY DEF Reporting, StateInv
<1>3. SetWorker(w, l)
  BY <1>1
<1> HIDE DEF l
<1>4. worker' \in [Workers -> Reporting \cup {WorkerIdle}] /\ worker'[w] = l /\ \A v \in Workers : v # w => worker'[v] = worker[v]
  BY <1>2, <1>3, WorkerSet
<1>5. queue' \subseteq queue /\ UNCHANGED <<room, index, yamls, handler, clock>> /\ ~Reports(w)
  BY DEF WorkerResolves, Reports
<1>6. StateInv'
  BY <1>4, <1>5 DEF StateInv
<1> QED BY <1>2, <1>4, <1>5, <1>6

LEMMA ExpiryFacts ==
  ASSUME StateInv, NEW job \in queue, JobExpires(job)
  PROVE  StateInv' /\ queue' \subseteq queue /\ UNCHANGED <<room, index, yamls, worker, handler, clock>>
<1>1. queue' \subseteq queue /\ UNCHANGED <<room, index, yamls, worker, handler, clock>>
  BY DEF JobExpires
<1>2. StateInv'
  BY <1>1 DEF StateInv
<1> QED BY <1>1, <1>2

(* Both checks of the callback: the result goes on, or is dropped.         *)
LEMMA CheckFacts ==
  ASSUME StateInv, NEW w \in Workers, CallbackRead(w) \/ CallbackVersion(w)
  PROVE  /\ StateInv' /\ Reports(w) /\ worker[w] \in Reporting
         /\ UNCHANGED <<room, index, yamls, queue, handler, clock>>
         /\ \A v \in Workers : v # w => worker'[v] = worker[v]
         /\ \/ worker'[w] \in Reporting /\ worker'[w].job = worker[w].job
            \/ /\ worker'[w] = WorkerIdle
               /\ \/ worker[w].job.yaml \notin Present
                  \/ ~(yamls[worker[w].job.yaml].time <= worker[w].job.time)
                  \/ worker[w].job.version # room.version
<1>1. Reports(w) /\ UNCHANGED <<room, index, yamls, queue, handler, clock>>
  BY DEF CallbackRead, CallbackVersion, Reports
<1>2. worker[w] \in Reporting
  BY <1>1, WorkerFacts
<1>3. PICK pc \in {"version", "update"} :
        \/ SetWorker(w, [worker[w] EXCEPT !.pc = pc])
        \/ /\ SetWorker(w, WorkerIdle)
           /\ \/ worker[w].job.yaml \notin Present
              \/ ~(yamls[worker[w].job.yaml].time <= worker[w].job.time)
              \/ worker[w].job.version # room.version
  BY DEF CallbackRead, CallbackVersion
<1> DEFINE l == [worker[w] EXCEPT !.pc = pc]
<1>4. l \in Reporting /\ l.job = worker[w].job
  BY <1>2 DEF Reporting
<1> HIDE DEF l
<1>5. CASE SetWorker(w, l)
  <2>1. worker' \in [Workers -> Reporting \cup {WorkerIdle}] /\ worker'[w] = l /\ \A v \in Workers : v # w => worker'[v] = worker[v]
    BY <1>4, <1>5, WorkerSet
  <2>2. StateInv'
    BY <1>1, <2>1 DEF StateInv
  <2> QED BY <1>1, <1>2, <1>4, <2>1, <2>2
<1>6. CASE /\ SetWorker(w, WorkerIdle)
           /\ \/ worker[w].job.yaml \notin Present
              \/ ~(yamls[worker[w].job.yaml].time <= worker[w].job.time)
              \/ worker[w].job.version # room.version
  <2>1. worker' \in [Workers -> Reporting \cup {WorkerIdle}] /\ worker'[w] = WorkerIdle /\ \A v \in Workers : v # w => worker'[v] = worker[v]
    BY <1>6, WorkerSet
  <2>2. StateInv'
    BY <1>1, <2>1 DEF StateInv
  <2> QED BY <1>1, <1>2, <1>6, <2>1, <2>2
<1> QED BY <1>3, <1>5, <1>6 DEF l

LEMMA UpdateFacts ==
  ASSUME StateInv, NEW w \in Workers, CallbackUpdate(w)
  PROVE  /\ StateInv' /\ Reports(w) /\ worker[w] \in Reporting /\ worker'[w] = WorkerIdle
         /\ \A v \in Workers : v # w => worker'[v] = worker[v]
         /\ ~Locked(worker[w].job.yaml)
         /\ \A y \in Yamls : y # worker[w].job.yaml \/ y \notin Present => yamls'[y] = yamls[y]
         /\ worker[w].job.yaml \in Present =>
              /\ yamls'[worker[w].job.yaml] \in Rows
              /\ yamls'[worker[w].job.yaml].status = worker[w].status
              /\ yamls'[worker[w].job.yaml].apworlds = worker[w].job.apworlds
              /\ yamls'[worker[w].job.yaml].time = worker[w].job.time
              /\ yamls'[worker[w].job.yaml].basis.apworlds = worker[w].job.apworlds
<1> DEFINE job == worker[w].job
           b == Basis(job.content, job.version, job.apworlds)
           row == Judged(yamls[job.yaml], worker[w].status, job.apworlds, job.time, b)
<1>1. /\ Reports(w) /\ UNCHANGED <<room, index, queue, handler, clock>> /\ ~Locked(job.yaml)
      /\ SetWorker(w, WorkerIdle)
      /\ yamls' = [yamls EXCEPT ![job.yaml] = IF job.yaml \notin Present THEN yamls[job.yaml] ELSE row]
  BY DEF CallbackUpdate, Reports
<1>2. worker[w] \in Reporting /\ job \in JobRecords
  BY <1>1, WorkerFacts
<1>3. /\ job.yaml \in Yamls /\ job.content \in 0..MaxContent /\ job.version \in Versions
      /\ job.apworlds \in Releases /\ job.time \in 0..MaxTime /\ worker[w].status \in Statuses
  BY <1>2 DEF JobRecords, Reporting, Statuses
<1>4. b \in Bases /\ b.apworlds = job.apworlds
  BY <1>3, BasisFacts
<1> HIDE DEF b
<1>5. ASSUME job.yaml \in Present
      PROVE  /\ row \in Rows /\ row.status = worker[w].status /\ row.apworlds = job.apworlds
             /\ row.time = job.time /\ row.basis = b
  <2>1. yamls[job.yaml] \in Rows
    BY <1>5, PresentFacts
  <2> QED BY <1>3, <1>4, <2>1, JudgedFacts
<1> HIDE DEF row
<1>6. worker' \in [Workers -> Reporting \cup {WorkerIdle}] /\ worker'[w] = WorkerIdle /\ \A v \in Workers : v # w => worker'[v] = worker[v]
  BY <1>1, WorkerSet
<1>7. /\ yamls' \in [Yamls -> Rows \cup {None, Deleted}]
      /\ job.yaml \in Present => yamls'[job.yaml] = row
      /\ \A y \in Yamls : y # job.yaml \/ y \notin Present => yamls'[y] = yamls[y]
  BY <1>1, <1>3, <1>5 DEF StateInv
<1>8. StateInv'
  BY <1>1, <1>6, <1>7 DEF StateInv
<1> QED BY <1>1, <1>2, <1>4, <1>5, <1>6, <1>7, <1>8

-----------------------------------------------------------------------------
(* The types                                                               *)

Request(h) == HandlerStep(h) \/ QueueUnreadable(h)

HappeningKinds == {"retry", "editRoom", "switch", "overlap", "callbacks", "failure", "unreadable"}

LEMMA InitState == Init => StateInv
<1> SUFFICES ASSUME Init PROVE StateInv
  OBVIOUS
<1>1. room \in Rooms /\ index \in Indexes /\ queue \subseteq JobRecords /\ clock \in 0..MaxTime
  BY ConstantsAssumption DEF Init, Rooms
<1>2. worker \in [Workers -> Reporting \cup {WorkerIdle}]
  BY DEF Init
<1>3. handler \in [Handlers -> Locals] /\ \A h \in Handlers : StageOK(handler[h])
  BY IdleFacts DEF Init
<1>4. yamls \in [Yamls -> Rows \cup {None, Deleted}]
  <2> DEFINE release == Release[0][FirstVersion][FirstManifest]
             status == IF release = None THEN "Unsupported" ELSE "Validated"
             row == [content |-> 0, apworlds |-> release, time |-> 0, status |-> status,
                     basis |-> Basis(0, FirstVersion, release)]
  <2>1. release \in Releases \cup {None}
    <3>1. Release \in [Indexes -> [Versions -> [Manifests -> Releases \cup {None}]]]
      BY ConstantsAssumption
    <3> QED BY <3>1, ConstantsAssumption
  <2>2. yamls = [y \in Yamls |-> IF y \notin FirstYamls THEN None ELSE row]
    BY DEF Init
  <2>3. Basis(0, FirstVersion, release) \in Bases \cup {None} /\ 0 \in 0..MaxContent /\ 0 \in 0..MaxTime
    <3>1. 0 \in 0..MaxContent /\ 0 \in 0..MaxTime /\ FirstVersion \in Versions
      BY ConstantsAssumption
    <3> QED BY <2>1, <3>1, BasisFacts
  <2>4. status \in Statuses
    BY DEF Statuses
  <2> HIDE DEF release, status
  <2>5. row \in Rows
    BY <2>1, <2>3, <2>4 DEF Rows
  <2> HIDE DEF row
  <2> QED BY <2>2, <2>5
<1> QED BY <1>1, <1>2, <1>3, <1>4 DEF StateInv

LEMMA HandlerState ==
  ASSUME StateInv, NEW h \in Handlers, Request(h)
  PROVE  StateInv'
<1>1. CASE \E y \in Yamls : UploadYaml(h, y) \/ EditYaml(h, y) \/ DeleteYaml(h, y) \/ RetryYaml(h, y)
  BY <1>1, UploadBegins, EditBegins, DeleteFacts, RetryBegins
<1>2. CASE \E manifest \in Manifests, validation \in BOOLEAN : EditRoom(h, manifest, validation)
  BY <1>2, RoomEditBegins
<1>3. CASE \E target \in Versions : SwitchBase(h, target)
  BY <1>3, MoveBegins
<1>4. CASE ValidateYaml(h)
  BY <1>4, ValidateFacts
<1>5. CASE StoreUpload(h)
  BY <1>5, UploadStored
<1>6. CASE StoreEdit(h)
  BY <1>6, EditStored
<1>7. CASE QueueUnsupported(h) \/ QueueUnreadable(h)
  BY <1>7, JudgedAtOnce
<1>8. CASE QueueReset(h)
  BY <1>8, ResetQueued
<1>9. CASE Enqueue(h)
  BY <1>9, EnqueueFacts
<1>10. CASE Queued(h)
  BY <1>10, QueuedFacts
<1>11. CASE UpdateRoomReset(h)
  BY <1>11, ClearFacts
<1>12. CASE UpdateRoom(h)
  BY <1>12, RoomWritten
<1>13. CASE Revalidate(h)
  BY <1>13, RevalidateFacts
<1>14. CASE RefreshWorlds(h)
  BY <1>14, RefreshBegins
<1>15. CASE ListRooms(h)
  BY <1>15, ListFacts
<1>16. CASE SwitchCommit(h)
  BY <1>16, CommitFacts
<1>17. CASE SwitchReread(h)
  BY <1>17, RereadFacts
<1> QED BY <1>1, <1>2, <1>3, <1>4, <1>5, <1>6, <1>7, <1>8, <1>9, <1>10, <1>11, <1>12, <1>13, <1>14,
           <1>15, <1>16, <1>17 DEF Request, HandlerStep

LEMMA WorkerState ==
  ASSUME StateInv, NEW w \in Workers, WorkerStep(w)
  PROVE  StateInv'
BY ResolveFacts, CheckFacts, UpdateFacts DEF WorkerStep

LEMMA StepState ==
  ASSUME StateInv, [Next]_validationVars
  PROVE  StateInv'
<1>1. CASE \E h \in Handlers : Request(h)
  BY <1>1, HandlerState
<1>2. CASE \E w \in Workers : WorkerStep(w)
  BY <1>2, WorkerState
<1>3. CASE \E h \in Handlers : HandlerFails(h)
  BY <1>3, FailureFacts
<1>4. CASE \E job \in queue : JobExpires(job)
  BY <1>4, ExpiryFacts
<1>5. CASE UNCHANGED validationVars
  BY <1>5 DEF StateInv, validationVars
<1> QED BY <1>1, <1>2, <1>3, <1>4, <1>5 DEF Next, Request

LEMMA StepPast ==
  ASSUME past \subseteq HappeningKinds, [Next]_validationVars
  PROVE  past' \subseteq HappeningKinds /\ past \subseteq past'
<1>1. Happening' \subseteq HappeningKinds
  BY DEF Happening, HappeningKinds
<1> QED BY <1>1 DEF Next, HappeningKinds, validationVars

LEMMA StateTypes == TypeInv => TypeOK
<1> SUFFICES ASSUME TypeInv PROVE TypeOK
  OBVIOUS
<1>1. StateInv
  BY DEF TypeInv
<1>2. ASSUME NEW w \in Workers
      PROVE  \/ worker[w] = WorkerIdle
             \/ /\ worker[w].pc \in {"read", "version", "update"}
                /\ worker[w].job \in JobRecords
                /\ worker[w].status \in {"Validated", "Failed"}
  BY <1>1 DEF StateInv, Reporting
<1>3. ASSUME NEW h \in Handlers
      PROVE  /\ handler[h].pc \in Pcs /\ handler[h].room \in Rooms \cup {None}
             /\ IsRowMap(handler[h].rows) /\ IsRowMap(handler[h].writes)
  <2>1. /\ handler[h].pc \in Pcs /\ handler[h].room \in Rooms \cup {None}
        /\ handler[h].rows \in RowMaps /\ handler[h].writes \in RowMaps
    BY <1>1 DEF StateInv, Locals
  <2> QED BY <2>1, MapFacts DEF IsRowMap
<1> QED BY <1>1, <1>2, <1>3 DEF TypeOK, TypeInv, StateInv

(* Every variable keeps its type: rows, jobs and what requests have read.  *)
THEOREM ValidationTypeCorrect == Spec => []TypeOK
<1>1. Init => TypeInv
  BY InitState DEF TypeInv, Init
<1>2. TypeInv /\ [Next]_validationVars => TypeInv'
  BY StepState, StepPast DEF TypeInv, HappeningKinds
<1> QED BY <1>1, <1>2, StateTypes, PTL DEF Spec

-----------------------------------------------------------------------------
(* Deleted YAMLs                                                           *)

(* What a step of a request that is no deletion and begins no upload does. *)
Safe(h) ==
  /\ Others(h)
  /\ \A y \in Present : yamls'[y] \in Rows
  /\ \A y \in Yamls : y \notin Present => \/ yamls'[y] = yamls[y]
                                          \/ handler[h].kind = "upload" /\ handler[h].yaml = y
                                             /\ handler'[h].kind # "upload"
  /\ DOMAIN handler'[h].writes \subseteq DOMAIN handler[h].writes \cup Present
  /\ \/ /\ handler'[h].yaml \in {None, handler[h].yaml}
        /\ handler'[h].kind = "upload" => handler[h].kind = "upload" /\ handler'[h].yaml = handler[h].yaml
     \/ handler'[h].yaml \in Present /\ handler'[h].kind # "upload"

LEMMA SafeStep ==
  ASSUME StateInv, StateInv', HeldInv, UploadInv, NEW h \in Handlers, Safe(h)
  PROVE  HeldInv' /\ UploadInv' /\ \A y \in Yamls : yamls[y] = Deleted => yamls'[y] = Deleted
<1>0. \A g \in Handlers : handler[g].kind = "upload" => handler[g].yaml \in Yamls /\ yamls[handler[g].yaml] = None
  BY DEF StateInv, StageOK, UploadInv
<1>1. Present \subseteq Present'
  BY NoneAssumption, PresentFacts DEF Safe, Present
<1>2. HeldInv'
  BY <1>1 DEF HeldInv, Safe, Others
<1>3. ASSUME NEW y \in Yamls, yamls[y] = Deleted PROVE yamls'[y] = Deleted
  BY <1>0, <1>3, NoneAssumption DEF Safe, Present
<1>4. ASSUME NEW g \in Handlers, handler'[g].kind = "upload"
      PROVE  /\ yamls'[handler'[g].yaml] = None
             /\ \A k \in Handlers : k # g => handler'[k].yaml # handler'[g].yaml
  <2>1. handler[g].kind = "upload" /\ handler'[g].yaml = handler[g].yaml
    BY <1>4 DEF Safe, Others
  <2>2. /\ handler[g].yaml \in Yamls /\ yamls[handler[g].yaml] = None /\ handler[g].yaml \notin Present
        /\ \A k \in Handlers : k # g => handler[k].yaml # handler[g].yaml
    BY <1>0, <2>1 DEF UploadInv, Present
  <2>3. yamls'[handler[g].yaml] = None
    BY <1>4, <2>1, <2>2 DEF Safe
  <2>4. ASSUME NEW k \in Handlers, k # g PROVE handler'[k].yaml # handler'[g].yaml
    BY <2>1, <2>2, <2>4, NoneAssumption DEF Safe, Others
  <2> QED BY <2>1, <2>3, <2>4
<1> QED BY <1>2, <1>3, <1>4 DEF UploadInv

LEMMA SafeActions ==
  ASSUME StateInv, HeldInv, NEW h \in Handlers, Request(h),
         \A y \in Yamls : ~UploadYaml(h, y) /\ ~DeleteYaml(h, y)
  PROVE  Safe(h)
<1> USE PresentFacts
<1>0. Idle.yaml = None /\ Idle.kind = "none" /\ DOMAIN Idle.writes = {}
  BY EmptyMap DEF Idle
<1>1. CASE \E y \in Yamls : EditYaml(h, y) \/ RetryYaml(h, y)
  <2> PICK y \in Yamls : EditYaml(h, y) \/ RetryYaml(h, y)
    BY <1>1
  <2>1. yamls' = yamls /\ y \in Present
    BY DEF EditYaml, RetryYaml
  <2> QED BY <2>1, EditBegins, RetryBegins DEF Safe
<1>2. CASE \E manifest \in Manifests, validation \in BOOLEAN : EditRoom(h, manifest, validation)
  <2>1. yamls' = yamls
    BY <1>2 DEF EditRoom
  <2> QED BY <1>2, <2>1, RoomEditBegins DEF Safe
<1>3. CASE \E target \in Versions : SwitchBase(h, target)
  <2>1. yamls' = yamls
    BY <1>3 DEF SwitchBase
  <2> QED BY <1>3, <2>1, MoveBegins DEF Safe
<1>4. CASE ValidateYaml(h)
  <2>1. yamls' = yamls
    BY <1>4 DEF ValidateYaml
  <2> QED BY <1>0, <1>4, <2>1, ValidateFacts DEF Safe
<1>5. CASE StoreUpload(h)
  BY <1>0, <1>5, UploadStored DEF Safe
<1>6. CASE StoreEdit(h)
  BY <1>0, <1>6, EditStored DEF Safe
<1>7. CASE QueueUnsupported(h) \/ QueueUnreadable(h)
  <2>1. handler[h].kind # "upload"
    BY <1>7 DEF QueueUnsupported, QueueUnreadable, StateInv, StageOK
  <2> QED BY <1>7, <2>1, JudgedAtOnce DEF Safe
<1>8. CASE QueueReset(h)
  <2>1. handler[h].kind # "upload"
    BY <1>8 DEF QueueReset, StateInv, StageOK
  <2>2. \A y \in Present : Reset(yamls[y]) \in Rows
    BY ResetFacts
  <2> QED BY <1>8, <2>1, <2>2, ResetQueued DEF Safe
<1>9. CASE Enqueue(h)
  <2>1. yamls' = yamls
    BY <1>9 DEF Enqueue
  <2> QED BY <1>9, <2>1, EnqueueFacts DEF Safe
<1>10. CASE Queued(h)
  <2>1. DOMAIN handler[h].writes \subseteq Present
    BY DEF HeldInv
  <2> QED BY <1>0, <1>10, <2>1, QueuedFacts DEF Safe
<1>11. CASE UpdateRoomReset(h)
  BY <1>11, ClearFacts DEF Safe
<1>12. CASE UpdateRoom(h)
  <2>1. yamls' = yamls
    BY <1>12 DEF UpdateRoom
  <2> QED BY <1>12, <2>1, RoomWritten DEF Safe
<1>13. CASE Revalidate(h)
  <2>1. yamls' = yamls
    BY <1>13 DEF Revalidate
  <2> QED BY <1>0, <1>13, <2>1, RevalidateFacts DEF Safe
<1>14. CASE RefreshWorlds(h)
  <2>1. yamls' = yamls
    BY <1>14 DEF RefreshWorlds
  <2> QED BY <1>14, <2>1, RefreshBegins DEF Safe
<1>15. CASE ListRooms(h)
  <2>1. yamls' = yamls
    BY <1>15 DEF ListRooms
  <2> QED BY <1>15, <2>1, ListFacts DEF Safe
<1>16. CASE SwitchCommit(h)
  BY <1>0, <1>16, CommitFacts DEF Safe
<1>17. CASE SwitchReread(h)
  <2>1. yamls' = yamls
    BY <1>17 DEF SwitchReread
  <2> QED BY <1>17, <2>1, RereadFacts DEF Safe
<1> QED BY <1>1, <1>2, <1>3, <1>4, <1>5, <1>6, <1>7, <1>8, <1>9, <1>10, <1>11, <1>12, <1>13, <1>14,
           <1>15, <1>16, <1>17 DEF Request, HandlerStep

(* Nothing but an upload takes the place of a YAML that is not there.      *)
LEMMA HeldStep ==
  ASSUME StateInv, HeldInv, UploadInv, [Next]_validationVars
  PROVE  HeldInv' /\ UploadInv' /\ \A y \in Yamls : yamls[y] = Deleted => yamls'[y] = Deleted
<1>0. StateInv'
  BY StepState
<1>1. ASSUME NEW h \in Handlers, NEW y \in Yamls, UploadYaml(h, y)
      PROVE  HeldInv' /\ UploadInv' /\ \A z \in Yamls : yamls[z] = Deleted => yamls'[z] = Deleted
  <2>1. yamls' = yamls /\ yamls[y] = None /\ \A g \in Handlers : handler[g].yaml # y
    BY <1>1 DEF UploadYaml
  <2>2. Others(h) /\ handler'[h].yaml = y /\ DOMAIN handler'[h].writes = {}
    BY <1>1, UploadBegins
  <2>3. HeldInv'
    BY <2>1, <2>2 DEF HeldInv, Others, Present
  <2>4. UploadInv'
    BY <2>1, <2>2 DEF UploadInv, Others
  <2> QED BY <2>1, <2>3, <2>4
<1>2. ASSUME NEW h \in Handlers, NEW y \in Yamls, DeleteYaml(h, y)
      PROVE  HeldInv' /\ UploadInv' /\ \A z \in Yamls : yamls[z] = Deleted => yamls'[z] = Deleted
  <2>1. /\ handler' = handler /\ y \in Present /\ yamls'[y] = Deleted /\ ~Locked(y)
        /\ \A z \in Yamls : z # y => yamls'[z] = yamls[z]
    BY <1>2, DeleteFacts DEF DeleteYaml
  <2>2. \A z \in Present : z # y => z \in Present'
    BY <2>1 DEF Present
  <2>3. HeldInv'
    BY <2>1, <2>2 DEF HeldInv, Locked
  <2>4. \A g \in Handlers : handler[g].kind = "upload" => handler[g].yaml \in Yamls
    BY DEF StateInv, StageOK
  <2>5. UploadInv'
    BY <2>1, <2>4 DEF UploadInv, Present
  <2> QED BY <2>1, <2>3, <2>5
<1>3. ASSUME NEW h \in Handlers, Request(h)
      PROVE  HeldInv' /\ UploadInv' /\ \A z \in Yamls : yamls[z] = Deleted => yamls'[z] = Deleted
  BY <1>0, <1>1, <1>2, <1>3, SafeActions, SafeStep
<1>4. ASSUME NEW h \in Handlers, HandlerFails(h)
      PROVE  HeldInv' /\ UploadInv' /\ \A z \in Yamls : yamls[z] = Deleted => yamls'[z] = Deleted
  <2>1. Idle.yaml = None /\ Idle.kind = "none" /\ DOMAIN Idle.writes = {}
    BY EmptyMap DEF Idle
  <2>2. yamls' = yamls
    BY <1>4 DEF HandlerFails
  <2>3. Safe(h)
    BY <1>4, <2>1, <2>2, FailureFacts, PresentFacts DEF Safe
  <2> QED BY <1>0, <2>3, SafeStep
<1>5. ASSUME handler' = handler, yamls' = yamls
      PROVE  HeldInv' /\ UploadInv' /\ \A z \in Yamls : yamls[z] = Deleted => yamls'[z] = Deleted
  BY <1>5 DEF HeldInv, UploadInv, Present
<1>6. ASSUME NEW w \in Workers, WorkerStep(w)
      PROVE  HeldInv' /\ UploadInv' /\ \A z \in Yamls : yamls[z] = Deleted => yamls'[z] = Deleted
  <2>1. CASE CallbackUpdate(w)
    <3>1. handler' = handler
      BY <2>1 DEF CallbackUpdate
    <3>2. \A y \in Yamls : (y \notin Present => yamls'[y] = yamls[y]) /\ (y \in Present => yamls'[y] \in Rows)
      BY <2>1, UpdateFacts, PresentFacts
    <3>3. \A z \in Present : z \in Present'
      BY <3>2, NoneAssumption DEF Present
    <3>4. HeldInv'
      BY <3>1, <3>3 DEF HeldInv
    <3>5. \A g \in Handlers : handler[g].kind = "upload" => handler[g].yaml \in Yamls
      BY DEF StateInv, StageOK
    <3>6. UploadInv'
      BY <3>1, <3>2, <3>5 DEF UploadInv, Present
    <3> QED BY <3>2, <3>4, <3>6 DEF Present
  <2>2. CASE ~CallbackUpdate(w)
    BY <1>5, <1>6, <2>2 DEF WorkerStep, WorkerResolves, CallbackRead, CallbackVersion
  <2> QED BY <2>1, <2>2
<1>7. CASE \E job \in queue : JobExpires(job)
  BY <1>5, <1>7 DEF JobExpires
<1>8. CASE UNCHANGED validationVars
  BY <1>5, <1>8 DEF validationVars
<1> QED BY <1>3, <1>4, <1>6, <1>7, <1>8 DEF Next, Request

LEMMA InitHeld == Init => HeldInv /\ UploadInv
<1> SUFFICES ASSUME Init PROVE HeldInv /\ UploadInv
  OBVIOUS
<1>1. \A h \in Handlers : handler[h] = Idle
  BY DEF Init
<1>2. DOMAIN Idle.writes = {}
  BY IdleFacts
<1>3. Idle.kind # "upload"
  BY DEF Idle
<1> QED BY <1>1, <1>2, <1>3 DEF HeldInv, UploadInv

(* No request, transaction or result brings a deleted YAML back: whoever   *)
(* writes a row finds it there, a row in a transaction is locked, and an   *)
(* upload has a new YAML.                                                  *)
THEOREM DeletedYamlsStay == Spec => DeletedStaysDeleted
<1> DEFINE IInv == StateInv /\ HeldInv /\ UploadInv
<1>1. Init => IInv
  BY InitState, InitHeld
<1>2. IInv /\ [Next]_validationVars => IInv'
  BY StepState, HeldStep
<1>3. IInv /\ [Next]_validationVars
        => [\A y \in Yamls : yamls[y] = Deleted => yamls'[y] = Deleted]_validationVars
  BY HeldStep
<1> HIDE DEF IInv
<1> QED BY <1>1, <1>2, <1>3, PTL DEF Spec, DeletedStaysDeleted

-----------------------------------------------------------------------------
(* Time stamps and history                                                 *)

LEMMA TimeSet ==
  ASSUME StateInv, StateInv', TimeInv, NEW h \in Handlers, Others(h), clock <= clock', UNCHANGED worker,
         \A y \in Yamls : yamls'[y] = yamls[y] \/ yamls'[y] \in {None, Deleted} \/ yamls'[y].time <= clock',
         \A job \in queue' : job \in queue \/ job.time <= clock',
         \A y \in DOMAIN handler'[h].writes :
           \/ y \in DOMAIN handler[h].writes /\ handler'[h].writes[y] = handler[h].writes[y]
           \/ handler'[h].writes[y].time <= clock'
  PROVE  TimeInv'
<1>0. clock \in Nat /\ clock' \in Nat
  BY ConstantsAssumption DEF StateInv
<1>1. ASSUME NEW y \in Present' PROVE yamls'[y].time <= clock'
  <2>1. y \in Yamls /\ yamls'[y] \notin {None, Deleted}
    BY DEF Present
  <2>2. CASE yamls'[y] = yamls[y]
    <3>1. y \in Present
      BY <2>1, <2>2 DEF Present
    <3>2. yamls[y] \in Rows /\ yamls[y].time <= clock
      BY <2>1, <3>1, PresentFacts DEF TimeInv
    <3>3. yamls[y].time \in Nat
      BY <3>2, ConstantsAssumption DEF Rows
    <3> QED BY <1>0, <2>2, <3>2, <3>3
  <2> QED BY <2>1, <2>2
<1>2. ASSUME NEW job \in JobRecords, Live(job)' PROVE job.time <= clock'
  <2>1. Live(job) \/ job.time <= clock'
    BY <1>2 DEF Live, Reports
  <2>2. job.time \in Nat
    BY ConstantsAssumption DEF JobRecords
  <2> QED BY <1>0, <2>1, <2>2 DEF TimeInv
<1>3. ASSUME NEW g \in Handlers, NEW y \in DOMAIN handler'[g].writes PROVE handler'[g].writes[y].time <= clock'
  <2>1. CASE y \in DOMAIN handler[g].writes /\ handler'[g].writes[y] = handler[g].writes[y]
    <3>1. handler[g].writes \in RowMaps
      BY DEF StateInv, Locals
    <3>2. handler[g].writes[y] \in Rows
      BY <2>1, <3>1, MapFacts
    <3>3. handler[g].writes[y].time \in Nat
      BY <3>2, ConstantsAssumption DEF Rows
    <3> QED BY <1>0, <2>1, <3>3 DEF TimeInv
  <2> QED BY <2>1 DEF Others
<1> QED BY <1>1, <1>2, <1>3 DEF TimeInv

LEMMA TimeKept ==
  ASSUME StateInv, StateInv', TimeInv, NEW h \in Handlers, Others(h),
         UNCHANGED <<yamls, queue, worker, clock>>, DOMAIN handler'[h].writes = {}
  PROVE  TimeInv'
<1>1. clock <= clock'
  BY ConstantsAssumption DEF StateInv
<1> QED BY <1>1, TimeSet

LEMMA HandlerTime ==
  ASSUME StateInv, HeldInv, TimeInv, NEW h \in Handlers, Request(h)
  PROVE  TimeInv'
<1>0. StateInv' /\ DOMAIN Idle.writes = {} /\ clock \in Nat /\ clock <= clock
  BY HandlerState, IdleFacts, ConstantsAssumption DEF StateInv
<1>1. CASE \E y \in Yamls : UploadYaml(h, y) \/ EditYaml(h, y) \/ RetryYaml(h, y)
  <2> PICK y \in Yamls : UploadYaml(h, y) \/ EditYaml(h, y) \/ RetryYaml(h, y)
    BY <1>1
  <2>1. UNCHANGED <<yamls, queue, worker, clock>>
    BY DEF UploadYaml, EditYaml, RetryYaml
  <2> QED BY <1>0, <2>1, UploadBegins, EditBegins, RetryBegins, TimeKept
<1>2. CASE \E y \in Yamls : DeleteYaml(h, y)
  <2> PICK y \in Yamls : DeleteYaml(h, y)
    BY <1>2
  <2>1. UNCHANGED <<queue, worker, clock, handler>>
    BY DEF DeleteYaml
  <2> QED BY <1>0, <2>1, DeleteFacts, TimeSet DEF Others
<1>3. CASE \E manifest \in Manifests, validation \in BOOLEAN : EditRoom(h, manifest, validation)
  <2>1. UNCHANGED <<yamls, queue, worker, clock>>
    BY <1>3 DEF EditRoom
  <2> QED BY <1>0, <1>3, <2>1, RoomEditBegins, TimeKept
<1>4. CASE \E target \in Versions : SwitchBase(h, target)
  <2>1. UNCHANGED <<yamls, queue, worker, clock>>
    BY <1>4 DEF SwitchBase
  <2> QED BY <1>0, <1>4, <2>1, MoveBegins, TimeKept
<1>5. CASE ValidateYaml(h) \/ UpdateRoom(h) \/ Revalidate(h) \/ RefreshWorlds(h) \/ ListRooms(h) \/ SwitchReread(h)
  <2>1. UNCHANGED <<yamls, queue, worker, clock>>
    BY <1>5 DEF ValidateYaml, UpdateRoom, Revalidate, RefreshWorlds, ListRooms, SwitchReread
  <2>2. Others(h) /\ DOMAIN handler'[h].writes = {}
    BY <1>5, ValidateFacts, RoomWritten, RevalidateFacts, RefreshBegins, ListFacts, RereadFacts
  <2> QED BY <1>0, <2>1, <2>2, TimeKept
<1>6. CASE StoreUpload(h)
  <2>1. UNCHANGED <<queue, worker>>
    BY <1>6 DEF StoreUpload
  <2>2. clock <= clock' /\ clock' <= clock'
    BY <1>0, <1>6, UploadStored
  <2> QED BY <1>0, <1>6, <2>1, <2>2, UploadStored, TimeSet
<1>7. CASE StoreEdit(h)
  <2>1. UNCHANGED <<queue, worker, clock>>
    BY <1>7 DEF StoreEdit
  <2>2. \A y \in Present : yamls[y].time <= clock
    BY DEF TimeInv
  <2> QED BY <1>0, <1>7, <2>1, <2>2, EditStored, TimeSet
<1>8. CASE QueueUnsupported(h) \/ QueueUnreadable(h)
  <2>1. UNCHANGED <<queue, worker>>
    BY <1>8 DEF QueueUnsupported, QueueUnreadable
  <2>2. clock <= clock' /\ clock' <= clock'
    BY <1>0, <1>8, JudgedAtOnce
  <2>3. Others(h) /\ \A y \in Yamls : yamls'[y] = yamls[y] \/ yamls'[y].time <= clock'
    BY <1>8, <2>2, JudgedAtOnce
  <2>4. \A y \in DOMAIN handler'[h].writes :
          \/ y \in DOMAIN handler[h].writes /\ handler'[h].writes[y] = handler[h].writes[y]
          \/ handler'[h].writes[y].time <= clock'
    BY <1>8, <2>2, JudgedAtOnce
  <2> QED BY <1>0, <2>1, <2>2, <2>3, <2>4, TimeSet
<1>9. CASE QueueReset(h)
  <2>1. UNCHANGED <<queue, worker, clock>>
    BY <1>9 DEF QueueReset
  <2>2. \A y \in Present : Reset(yamls[y]).time <= clock'
    BY <2>1, PresentFacts, ResetFacts DEF TimeInv
  <2>3. Others(h) /\ \A y \in Yamls : yamls'[y] = yamls[y] \/ yamls'[y].time <= clock'
    BY <1>9, <2>2, ResetQueued
  <2>4. \A y \in DOMAIN handler'[h].writes :
          \/ y \in DOMAIN handler[h].writes /\ handler'[h].writes[y] = handler[h].writes[y]
          \/ handler'[h].writes[y].time <= clock'
    BY <1>9, <2>2, ResetQueued
  <2> QED BY <1>0, <2>1, <2>3, <2>4, TimeSet
<1>10. CASE Enqueue(h)
  <2>1. UNCHANGED <<yamls, worker>>
    BY <1>10 DEF Enqueue
  <2>2. clock <= clock' /\ clock' <= clock'
    BY <1>0, <1>10, EnqueueFacts
  <2>3. Others(h) /\ handler'[h].writes = handler[h].writes /\ \A job \in queue' : job \in queue \/ job.time <= clock'
    BY <1>10, <2>2, EnqueueFacts
  <2> QED BY <1>0, <2>1, <2>2, <2>3, TimeSet
<1>11. CASE Queued(h)
  <2>1. UNCHANGED <<queue, worker, clock>>
    BY <1>11 DEF Queued
  <2>2. \A y \in DOMAIN handler[h].writes : handler[h].writes[y].time <= clock'
    BY <2>1 DEF TimeInv
  <2>3. Others(h) /\ handler'[h] = Idle /\ \A y \in Yamls : yamls'[y] = yamls[y] \/ yamls'[y].time <= clock'
    BY <1>11, <2>2, QueuedFacts
  <2> QED BY <1>0, <2>1, <2>3, TimeSet
<1>12. CASE UpdateRoomReset(h)
  <2>1. UNCHANGED <<queue, worker>>
    BY <1>12 DEF UpdateRoomReset
  <2>2. clock <= clock' /\ clock' <= clock'
    BY <1>0, <1>12, ClearFacts
  <2>3. Others(h) /\ DOMAIN handler'[h].writes = {} /\ \A y \in Yamls : yamls'[y] = yamls[y] \/ yamls'[y].time <= clock'
    BY <1>12, <2>2, ClearFacts
  <2> QED BY <1>0, <2>1, <2>2, <2>3, TimeSet
<1>13. CASE SwitchCommit(h)
  <2>1. UNCHANGED <<queue, worker, clock>>
    BY <1>13 DEF SwitchCommit
  <2>2. \A y \in Present : Reset(yamls[y]).time <= clock'
    BY <2>1, PresentFacts, ResetFacts DEF TimeInv
  <2>3. Others(h) /\ DOMAIN handler'[h].writes = {} /\ \A y \in Yamls : yamls'[y] = yamls[y] \/ yamls'[y].time <= clock'
    BY <1>13, <2>2, CommitFacts
  <2> QED BY <1>0, <2>1, <2>3, TimeSet
<1> QED BY <1>1, <1>2, <1>3, <1>4, <1>5, <1>6, <1>7, <1>8, <1>9, <1>10, <1>11, <1>12, <1>13 DEF Request, HandlerStep

(* A worker takes over a job, keeps it or drops it.                        *)
LEMMA LiveShrinks ==
  ASSUME StateInv, \/ \E w \in Workers : WorkerStep(w)
                   \/ \E job \in queue : JobExpires(job)
                   \/ \E h \in Handlers : HandlerFails(h)
  PROVE  \A job \in JobRecords : Live(job)' => Live(job)
<1>1. ASSUME NEW w \in Workers, NEW j \in queue, WorkerResolves(w, j), NEW job, Live(job)'
      PROVE  Live(job)
  <2>1. queue' \subseteq queue
    BY <1>1 DEF WorkerResolves
  <2> QED BY <1>1, <2>1, ResolveFacts DEF Live, Reports
<1>2. ASSUME NEW w \in Workers, CallbackRead(w) \/ CallbackVersion(w) \/ CallbackUpdate(w), NEW job, Live(job)'
      PROVE  Live(job)
  <2>1. queue' = queue
    BY <1>2 DEF CallbackRead, CallbackVersion, CallbackUpdate
  <2>2. WorkerIdle.pc = "idle"
    BY DEF WorkerIdle
  <2> QED BY <1>2, <2>1, <2>2, CheckFacts, UpdateFacts DEF Live, Reports
<1>3. ASSUME \/ \E job \in queue : JobExpires(job)
             \/ \E h \in Handlers : HandlerFails(h),
             NEW job, Live(job)'
      PROVE  Live(job)
  <2>1. queue' \subseteq queue /\ worker' = worker
    BY <1>3 DEF JobExpires, HandlerFails
  <2> QED BY <1>3, <2>1 DEF Live, Reports
<1> QED BY <1>1, <1>2, <1>3 DEF WorkerStep

LEMMA TimeStep ==
  ASSUME StateInv, HeldInv, TimeInv, [Next]_validationVars
  PROVE  TimeInv'
<1>0. clock \in Nat /\ clock <= clock
  BY ConstantsAssumption DEF StateInv
<1>1. CASE \E h \in Handlers : Request(h)
  BY <1>1, HandlerTime
<1>2. ASSUME UNCHANGED <<yamls, clock>>, \A job \in JobRecords : Live(job)' => Live(job),
             \A h \in Handlers : handler'[h] = handler[h] \/ DOMAIN handler'[h].writes = {}
      PROVE  TimeInv'
  BY <1>2 DEF TimeInv, Present
<1>3. CASE \E w \in Workers : WorkerStep(w)
  <2> PICK w \in Workers : WorkerStep(w)
    BY <1>3
  <2>1. CASE CallbackUpdate(w)
    <3>1. UNCHANGED <<handler, clock>>
      BY <2>1 DEF CallbackUpdate
    <3>2. \A job \in JobRecords : Live(job)' => Live(job)
      BY LiveShrinks
    <3>3. worker[w].job \in JobRecords /\ Live(worker[w].job)
      BY <2>1, WorkerFacts, UpdateFacts DEF Live
    <3>4. worker[w].job.time <= clock
      BY <3>3 DEF TimeInv
    <3>5. ASSUME NEW y \in Present' PROVE yamls'[y].time <= clock
      <4>1. y \in Yamls
        BY DEF Present
      <4>2. CASE y = worker[w].job.yaml /\ y \in Present
        BY <2>1, <3>4, <4>2, UpdateFacts
      <4>3. CASE ~(y = worker[w].job.yaml /\ y \in Present)
        <5>1. yamls'[y] = yamls[y] /\ y \in Present
          BY <2>1, <4>1, <4>3, UpdateFacts DEF Present
        <5> QED BY <5>1 DEF TimeInv
      <4> QED BY <4>2, <4>3
    <3> QED BY <3>1, <3>2, <3>5 DEF TimeInv
  <2>2. CASE ~CallbackUpdate(w)
    <3>1. UNCHANGED <<yamls, handler, clock>>
      BY <2>2 DEF WorkerStep, WorkerResolves, CallbackRead, CallbackVersion
    <3> QED BY <1>2, <3>1, LiveShrinks
  <2> QED BY <2>1, <2>2
<1>4. CASE \E h \in Handlers : HandlerFails(h)
  <2> PICK h \in Handlers : HandlerFails(h)
    BY <1>4
  <2>1. UNCHANGED <<yamls, clock>>
    BY DEF HandlerFails
  <2>2. \A g \in Handlers : handler'[g] = handler[g] \/ DOMAIN handler'[g].writes = {}
    BY FailureFacts, IdleFacts DEF Others
  <2> QED BY <1>2, <2>1, <2>2, LiveShrinks
<1>5. CASE \E job \in queue : JobExpires(job)
  <2>1. UNCHANGED <<yamls, clock, handler>>
    BY <1>5 DEF JobExpires
  <2> QED BY <1>2, <1>5, <2>1, LiveShrinks
<1>6. CASE UNCHANGED validationVars
  BY <1>2, <1>6 DEF validationVars, Live, Reports
<1> QED BY <1>1, <1>3, <1>4, <1>5, <1>6 DEF Next, Request

-----------------------------------------------------------------------------
(* A request that is alone                                                 *)

LEMMA PastStep ==
  ASSUME StateInv, PastInv, past \subseteq HappeningKinds, [Next]_validationVars
  PROVE  PastInv'
<1>0. past \subseteq past'
  BY StepPast
<1>1. Happening' \subseteq past'
  <2>1. CASE \E h \in Handlers : HandlerFails(h)
    <3> PICK h \in Handlers : HandlerFails(h)
      BY <2>1
    <3>1. handler'[h] = Idle /\ Others(h) /\ worker' = worker
      BY FailureFacts DEF HandlerFails
    <3>2. Idle.kind = "none" /\ Idle.pc = "idle"
      BY DEF Idle
    <3>3. \A g \in Handlers : /\ handler'[g].kind # "none" => handler[g].kind = handler'[g].kind
                              /\ handler'[g].pc # "idle" => handler[g].pc # "idle"
      BY <3>1, <3>2 DEF Others
    <3>4. Happening' \subseteq Happening
      BY <3>1, <3>3 DEF Happening, Busy, Reports
    <3> QED BY <1>0, <3>4 DEF PastInv
  <2>2. CASE \E job \in queue : JobExpires(job)
    <3>1. Happening' = Happening
      BY <2>2 DEF JobExpires, Happening, Busy, Reports
    <3> QED BY <1>0, <3>1 DEF PastInv
  <2>3. CASE UNCHANGED validationVars
    BY <2>3 DEF PastInv, validationVars, Happening, Busy, Reports
  <2> QED BY <2>1, <2>2, <2>3 DEF Next
<1>2. ASSUME ~room'.validation PROVE "editRoom" \in past'
  <2>1. CASE room' = room
    BY <1>0, <1>2, <2>1 DEF PastInv
  <2>2. ASSUME NEW h \in Handlers, UpdateRoom(h) PROVE "editRoom" \in past'
    <3>1. handler[h].kind = "editRoom"
      BY <2>2, RoomWritten
    <3> QED BY <1>0, <3>1 DEF PastInv, Happening
  <2>3. ASSUME NEW h \in Handlers, SwitchCommit(h) PROVE "editRoom" \in past'
    BY <1>0, <1>2, <2>3, CommitFacts DEF PastInv
  <2>4. ASSUME NEW h \in Handlers, Request(h), ~UpdateRoom(h), ~SwitchCommit(h) PROVE room' = room
    BY <2>4 DEF Request, HandlerStep, UploadYaml, EditYaml, DeleteYaml, RetryYaml, EditRoom, SwitchBase, ValidateYaml,
                StoreUpload, StoreEdit, QueueUnsupported, QueueUnreadable, QueueReset, Enqueue, Queued, UpdateRoomReset,
                Revalidate, RefreshWorlds, ListRooms, SwitchReread
  <2>5. ASSUME NEW w \in Workers, WorkerStep(w) PROVE room' = room
    BY <2>5 DEF WorkerStep, WorkerResolves, CallbackRead, CallbackVersion, CallbackUpdate
  <2>6. ASSUME \/ \E h \in Handlers : HandlerFails(h)
               \/ \E job \in queue : JobExpires(job)
               \/ UNCHANGED validationVars
        PROVE  room' = room
    BY <2>6 DEF HandlerFails, JobExpires, validationVars
  <2> QED BY <2>1, <2>2, <2>3, <2>4, <2>5, <2>6 DEF Next, Request
<1> QED BY <1>1, <1>2 DEF PastInv

Alone(h) == \A g \in Handlers : g # h => handler[g] = Idle

LEMMA IsAlone ==
  ASSUME StateInv, PastInv, PastInv', past \subseteq past', Regular', NEW h \in Handlers, Others(h),
         handler[h].pc # "idle" \/ handler'[h].pc # "idle"
  PROVE  Alone(h) /\ Alone(h)'
<1>1. ASSUME NEW g \in Handlers, g # h PROVE handler[g] = Idle /\ handler'[g] = Idle
  <2>1. handler'[g] = handler[g]
    BY <1>1 DEF Others
  <2>2. "overlap" \notin past /\ "overlap" \notin past'
    BY DEF Regular
  <2>3. handler[g].pc = "idle"
    BY <1>1, <2>1, <2>2 DEF PastInv, Happening, Busy
  <2>4. StageOK(handler[g])
    BY DEF StateInv
  <2> QED BY <2>1, <2>3, <2>4 DEF StageOK
<1> QED BY <1>1 DEF Alone

(* What KnownInv comes down to when h is the only request.                 *)
Bare(h, y) ==
  IF y \in DOMAIN handler[h].writes THEN handler[h].writes[y].status = "Unknown" ELSE yamls[y].status = "Unknown"

Due(h, y) ==
  \/ handler[h].pc \in {"reset", "write", "list", "revalidate"} /\ yamls[y].apworlds = None
  \/ handler[h].pc \in {"reread", "queue", "enqueue"} /\ y \in DOMAIN handler[h].rows

SoloSkips(h) ==
  handler[h].pc = "queue" /\ ReleaseFor(handler[h].room) = None =>
    \A y \in DOMAIN handler[h].rows \cap Present :
      handler[h].rows[y].status = "Unsupported" => ~Bare(h, y)

SoloKnown(h) == \A y \in Present : Bare(h, y) => Answer(y) \/ Due(h, y) \/ Cleared(y)

SoloWrites(h) ==
  \A y \in DOMAIN handler[h].writes :
    handler[h].writes[y] = Reset(yamls[y]) \/ handler[h].writes[y].status \in {"Unsupported", "Failed"}

SoloOff(h) ==
  "retry" \notin past /\ (~room.validation \/ (handler[h].pc = "write" /\ ~handler[h].room.validation))
    => \A y \in Present : yamls[y].status = "Unknown" => yamls[y].apworlds = None

SoloInv(h) == RoomStage(handler[h]) /\ SoloSkips(h) /\ SoloKnown(h) /\ SoloWrites(h) /\ SoloOff(h)

SoloLaw == \A h \in Handlers : StateInv /\ Alone(h) => (KnownParts <=> SoloInv(h))

LEMMA SoloFacts == SoloLaw
<1> SUFFICES ASSUME NEW h \in Handlers, StateInv, Alone(h) PROVE KnownParts <=> SoloInv(h)
  BY DEF SoloLaw
<1>0. Idle.pc = "idle" /\ DOMAIN Idle.writes = {} /\ RoomStage(Idle) /\ SkipStage(Idle)
  <2>1. Idle.pc = "idle"
    BY DEF Idle
  <2> QED BY <2>1, IdleFacts DEF RoomStage, SkipStage
<1>1. \A g \in Handlers : g = h \/ handler[g] = Idle
  BY DEF Alone
<1>2. ASSUME NEW y PROVE Unjudged(y) <=> Bare(h, y)
  BY <1>0, <1>1 DEF Unjudged, Bare, Locked
<1>3. ASSUME NEW y PROVE Will(y) <=> Due(h, y)
  BY <1>0, <1>1 DEF Will, Due
<1>4. Known <=> SoloKnown(h)
  BY <1>2, <1>3 DEF Known, SoloKnown
<1>5. (\A g \in Handlers : SkipStage(handler[g])) <=> SoloSkips(h)
  <2>1. SkipStage(handler[h]) <=> SoloSkips(h)
    BY <1>2 DEF SkipStage, SoloSkips
  <2> QED BY <1>0, <1>1, <2>1
<1>6. (\A g \in Handlers : RoomStage(handler[g])) <=> RoomStage(handler[h])
  BY <1>0, <1>1
<1>7. WritesInv <=> SoloWrites(h)
  BY <1>0, <1>1 DEF WritesInv, SoloWrites
<1>8. OffInv <=> SoloOff(h)
  BY <1>0, <1>1 DEF OffInv, SoloOff
<1> QED BY <1>4, <1>5, <1>6, <1>7, <1>8 DEF KnownParts, SoloInv

LEMMA SoloAlways == SoloLaw'
BY SoloFacts, PTL

-----------------------------------------------------------------------------
(* No YAML is forgotten: the steps of a request that is alone              *)

LEMMA AnswerKept ==
  ASSUME NEW y, Answer(y), queue \subseteq queue', worker' = worker, room'.version = room.version,
         yamls'[y].time = yamls[y].time
  PROVE  Answer(y)'
BY DEF Answer, Live, Reports

(* Steps that only read                                                    *)
LEMMA SoloReads ==
  ASSUME NEW h \in Handlers, SoloInv(h), UNCHANGED <<room, yamls, queue, worker>>, past \subseteq past',
         DOMAIN handler[h].writes = {}, DOMAIN handler'[h].writes = {},
         ~(handler'[h].pc = "write" /\ ~handler'[h].room.validation),
         \A y \in Present : yamls[y].status = "Unknown" /\ Due(h, y) => Due(h, y)' \/ Cleared(y)
  PROVE  SoloKnown(h)' /\ SoloWrites(h)' /\ SoloOff(h)'
<1>1. Present' = Present
  BY DEF Present
<1>2. ASSUME NEW y \in Present, Bare(h, y)' PROVE Answer(y)' \/ Due(h, y)' \/ Cleared(y)'
  <2>1. Bare(h, y) /\ yamls[y].status = "Unknown"
    BY <1>2 DEF Bare
  <2>2. Answer(y) \/ Due(h, y) \/ Cleared(y)
    BY <2>1 DEF SoloInv, SoloKnown
  <2>3. Answer(y) => Answer(y)'
    BY AnswerKept
  <2>4. Cleared(y) => Cleared(y)'
    BY DEF Cleared
  <2> QED BY <2>1, <2>2, <2>3, <2>4
<1>3. SoloKnown(h)'
  BY <1>1, <1>2 DEF SoloKnown
<1>4. SoloWrites(h)'
  BY DEF SoloWrites
<1>5. SoloOff(h)'
  BY <1>1 DEF SoloInv, SoloOff
<1> QED BY <1>3, <1>4, <1>5

LEMMA SoloBegins ==
  ASSUME StateInv, NEW h \in Handlers, SoloInv(h), handler[h].pc = "idle", UNCHANGED <<room, yamls, queue, worker>>,
         past \subseteq past', DOMAIN handler'[h].writes = {},
         ~(handler'[h].pc = "write" /\ ~handler'[h].room.validation)
  PROVE  SoloKnown(h)' /\ SoloWrites(h)' /\ SoloOff(h)'
<1>1. DOMAIN handler[h].writes = {}
  BY IdleFacts DEF StateInv, StageOK
<1>2. \A y : ~Due(h, y)
  BY DEF Due
<1> QED BY <1>1, <1>2, SoloReads

LEMMA SoloUpload ==
  ASSUME StateInv, NEW h \in Handlers, NEW y \in Yamls, UploadYaml(h, y) \/ EditYaml(h, y), SoloInv(h),
         past \subseteq past'
  PROVE  SoloInv(h)'
<1>1. handler[h].pc = "idle" /\ UNCHANGED <<room, yamls, queue, worker>>
  BY DEF UploadYaml, EditYaml, Begin
<1>2. handler'[h].pc = "validate" /\ handler'[h].room = room /\ DOMAIN handler'[h].writes = {}
  BY UploadBegins, EditBegins
<1>3. RoomStage(handler[h])' /\ SoloSkips(h)'
  BY <1>1, <1>2 DEF RoomStage, SoloSkips
<1> QED BY <1>1, <1>2, <1>3, SoloBegins DEF SoloInv

LEMMA SoloRetry ==
  ASSUME StateInv, NEW h \in Handlers, NEW y \in Yamls, RetryYaml(h, y), SoloInv(h), past \subseteq past'
  PROVE  SoloInv(h)'
<1>1. handler[h].pc = "idle" /\ UNCHANGED <<room, yamls, queue, worker>>
  BY DEF RetryYaml, Begin
<1>2. /\ handler'[h].kind = "retry" /\ handler'[h].pc = "queue" /\ handler'[h].room = room
      /\ DOMAIN handler'[h].rows = {y} /\ handler'[h].rows[y] = yamls[y]
      /\ DOMAIN handler'[h].writes = {}
  BY RetryBegins
<1>3. RoomStage(handler[h])'
  BY <1>1, <1>2 DEF RoomStage
<1>4. SoloSkips(h)'
  BY <1>1, <1>2 DEF SoloSkips, Bare
<1> QED BY <1>1, <1>2, <1>3, <1>4, SoloBegins DEF SoloInv

LEMMA SoloEditRoom ==
  ASSUME StateInv, NEW h \in Handlers, NEW m \in Manifests, NEW v \in BOOLEAN, EditRoom(h, m, v), SoloInv(h),
         past \subseteq past'
  PROVE  SoloInv(h)'
<1>1. handler[h].pc = "idle" /\ UNCHANGED <<room, yamls, queue, worker>>
  BY DEF EditRoom, Begin
<1>2. /\ handler'[h].pc \in {"reset", "write"} /\ (handler'[h].pc = "write" => handler'[h].room.validation)
      /\ handler'[h].room.version = room.version /\ DOMAIN handler'[h].writes = {}
  BY RoomEditBegins
<1>3. RoomStage(handler[h])' /\ SoloSkips(h)'
  BY <1>1, <1>2 DEF RoomStage, SoloSkips
<1> QED BY <1>1, <1>2, <1>3, SoloBegins DEF SoloInv

LEMMA SoloMove ==
  ASSUME StateInv, NEW h \in Handlers, NEW v \in Versions, SwitchBase(h, v), SoloInv(h), past \subseteq past'
  PROVE  SoloInv(h)'
<1>1. handler[h].pc = "idle" /\ UNCHANGED <<room, yamls, queue, worker>>
  BY DEF SwitchBase, Begin
<1>2. /\ handler'[h].pc = "commit" /\ handler'[h].room = room /\ DOMAIN handler'[h].rows = Present
      /\ DOMAIN handler'[h].writes = {}
  BY MoveBegins
<1>3. Present' = Present
  BY <1>1 DEF Present
<1>4. RoomStage(handler[h])' /\ SoloSkips(h)'
  BY <1>1, <1>2, <1>3 DEF RoomStage, SoloSkips
<1> QED BY <1>1, <1>2, <1>4, SoloBegins DEF SoloInv

LEMMA SoloRefresh ==
  ASSUME StateInv, NEW h \in Handlers, RefreshWorlds(h), SoloInv(h), past \subseteq past'
  PROVE  SoloInv(h)'
<1>1. handler[h].pc = "idle" /\ UNCHANGED <<room, yamls, queue, worker>>
  BY DEF RefreshWorlds, Begin
<1>2. handler'[h].pc = "list" /\ DOMAIN handler'[h].writes = {}
  BY RefreshBegins
<1>3. RoomStage(handler[h])' /\ SoloSkips(h)'
  BY <1>2 DEF RoomStage, SoloSkips
<1> QED BY <1>1, <1>2, <1>3, SoloBegins DEF SoloInv

LEMMA SoloList ==
  ASSUME StateInv, NEW h \in Handlers, ListRooms(h), SoloInv(h), past \subseteq past'
  PROVE  SoloInv(h)'
<1>1. handler[h].pc = "list" /\ UNCHANGED <<room, yamls, queue, worker>>
  BY DEF ListRooms
<1>2. /\ handler'[h].pc = "revalidate" /\ handler'[h].room = room
      /\ DOMAIN handler[h].writes = {} /\ DOMAIN handler'[h].writes = {}
  BY ListFacts
<1>3. RoomStage(handler[h])' /\ SoloSkips(h)'
  BY <1>1, <1>2 DEF RoomStage, SoloSkips
<1>4. \A y : Due(h, y) => Due(h, y)'
  BY <1>1, <1>2 DEF Due
<1> QED BY <1>1, <1>2, <1>3, <1>4, SoloReads DEF SoloInv

LEMMA SoloValidate ==
  ASSUME StateInv, NEW h \in Handlers, ValidateYaml(h), SoloInv(h), past \subseteq past'
  PROVE  SoloInv(h)'
<1>1. UNCHANGED <<room, yamls, queue, worker>>
  BY DEF ValidateYaml
<1>2. /\ handler[h].pc = "validate" /\ DOMAIN handler[h].writes = {} /\ DOMAIN handler'[h].writes = {}
      /\ \/ handler'[h] = Idle
         \/ /\ handler'[h].pc = "store"
            /\ handler'[h].room = handler[h].room
            /\ handler'[h].result.status = "Unknown"
                 => ~handler[h].room.validation /\ handler'[h].result.apworlds = None
  BY ValidateFacts
<1>3. Idle.pc = "idle"
  BY DEF Idle
<1>4. handler[h].room = room
  BY <1>2 DEF SoloInv, RoomStage
<1>5. RoomStage(handler[h])' /\ SoloSkips(h)'
  BY <1>1, <1>2, <1>3, <1>4 DEF RoomStage, SoloSkips
<1>6. \A y : ~Due(h, y)
  BY <1>2 DEF Due
<1> QED BY <1>1, <1>2, <1>3, <1>5, <1>6, SoloReads DEF SoloInv

LEMMA SoloReread ==
  ASSUME StateInv, NEW h \in Handlers, SwitchReread(h), SoloInv(h), past \subseteq past'
  PROVE  SoloInv(h)'
<1>1. UNCHANGED <<room, yamls, queue, worker>>
  BY DEF SwitchReread
<1>2. /\ handler[h].pc = "reread" /\ DOMAIN handler[h].writes = {} /\ DOMAIN handler'[h].writes = {}
      /\ handler'[h].pc = "queue" /\ handler'[h].room = room
      /\ DOMAIN handler'[h].rows = DOMAIN handler[h].rows
      /\ \A y \in DOMAIN handler'[h].rows : handler'[h].rows[y].status = "Unknown"
  BY RereadFacts
<1>3. room.validation
  BY <1>2 DEF SoloInv, RoomStage
<1>4. RoomStage(handler[h])' /\ SoloSkips(h)'
  BY <1>1, <1>2, <1>3 DEF RoomStage, SoloSkips
<1>5. \A y : Due(h, y) => Due(h, y)'
  BY <1>2 DEF Due
<1> QED BY <1>1, <1>2, <1>4, <1>5, SoloReads DEF SoloInv

LEMMA SoloRevalidate ==
  ASSUME StateInv, NEW h \in Handlers, Revalidate(h), SoloInv(h), past \subseteq past'
  PROVE  SoloInv(h)'
<1>1. UNCHANGED <<room, index, yamls, queue, worker>>
  BY DEF Revalidate
<1>2. /\ handler[h].pc = "revalidate" /\ DOMAIN handler[h].writes = {} /\ DOMAIN handler'[h].writes = {}
  BY RevalidateFacts
<1>3. handler[h].room = room
  BY <1>2 DEF SoloInv, RoomStage
<1>4. CASE ~handler[h].room.validation /\ handler'[h] = Idle
  <2>1. Idle.pc = "idle"
    BY DEF Idle
  <2>2. RoomStage(handler[h])' /\ SoloSkips(h)'
    BY <1>4, <2>1 DEF RoomStage, SoloSkips
  <2>3. \A y \in Present : Due(h, y) => Cleared(y)
    BY <1>2, <1>3, <1>4 DEF Due, Cleared
  <2> QED BY <1>1, <1>2, <1>4, <2>1, <2>2, <2>3, SoloReads DEF SoloInv
<1>5. CASE /\ handler[h].room.validation
           /\ handler'[h].kind = handler[h].kind /\ handler'[h].pc = "queue"
           /\ handler'[h].room = handler[h].room
           /\ DOMAIN handler'[h].rows =
                {y \in Present : ShouldRevalidate(yamls[y], ReleaseFor(handler[h].room), handler[h].old)}
           /\ \A y \in DOMAIN handler'[h].rows : handler'[h].rows[y] = yamls[y]
  <2>1. RoomStage(handler[h])'
    BY <1>1, <1>3, <1>5 DEF RoomStage
  <2>2. SoloSkips(h)'
    BY <1>1, <1>2, <1>5 DEF SoloSkips, Bare
  <2>3. ASSUME NEW y \in Present, yamls[y].status = "Unknown", Due(h, y) PROVE Due(h, y)'
    <3>1. yamls[y].apworlds = None
      BY <1>2, <2>3 DEF Due
    <3>2. ShouldRevalidate(yamls[y], ReleaseFor(handler[h].room), handler[h].old)
      BY <2>3, <3>1 DEF ShouldRevalidate
    <3> QED BY <1>5, <3>2 DEF Due
  <2> QED BY <1>1, <1>2, <1>5, <2>1, <2>2, <2>3, SoloReads DEF SoloInv
<1> QED BY <1>4, <1>5, RevalidateFacts

(* Steps that write                                                        *)
LEMMA SoloStore ==
  ASSUME StateInv, NEW h \in Handlers, StoreUpload(h) \/ StoreEdit(h), SoloInv(h), past \subseteq past'
  PROVE  SoloInv(h)'
<1> DEFINE y == handler[h].yaml
           row == handler[h].result
<1>1. UNCHANGED <<room, queue, worker>>
  BY DEF StoreUpload, StoreEdit
<1>2. /\ handler[h].pc = "store" /\ DOMAIN handler[h].writes = {} /\ handler'[h] = Idle /\ y \in Yamls
      /\ \A z \in Yamls : z # y => yamls'[z] = yamls[z]
      /\ \/ yamls'[y] = yamls[y]
         \/ yamls'[y].status = row.status /\ yamls'[y].apworlds = row.apworlds
  BY UploadStored, EditStored
<1>3. Idle.pc = "idle" /\ DOMAIN Idle.writes = {}
  <2>1. Idle.pc = "idle"
    BY DEF Idle
  <2> QED BY <2>1, IdleFacts
<1>4. row.status = "Unknown" => ~room.validation /\ row.apworlds = None
  BY <1>2 DEF SoloInv, RoomStage
<1> HIDE DEF y, row
<1>5. RoomStage(handler[h])' /\ SoloSkips(h)' /\ SoloWrites(h)'
  BY <1>2, <1>3 DEF RoomStage, SoloSkips, SoloWrites
<1>6. ASSUME NEW z \in Present', yamls'[z] = yamls[z], Bare(h, z)' PROVE Answer(z)' \/ Cleared(z)'
  <2>1. z \in Present /\ Bare(h, z)
    BY <1>2, <1>3, <1>6 DEF Bare, Present
  <2>2. Answer(z) \/ Cleared(z)
    BY <1>2, <2>1 DEF SoloInv, SoloKnown, Due
  <2>3. Answer(z) => Answer(z)'
    BY <1>1, <1>6, AnswerKept
  <2>4. Cleared(z) => Cleared(z)'
    BY <1>1, <1>6 DEF Cleared
  <2> QED BY <2>2, <2>3, <2>4
<1>7. ASSUME NEW z \in Present', yamls'[z] # yamls[z], Bare(h, z)' PROVE Cleared(z)'
  <2>1. z = y /\ yamls'[z].status = "Unknown"
    BY <1>2, <1>3, <1>7 DEF Bare, Present
  <2> QED BY <1>1, <1>2, <1>4, <1>7, <2>1 DEF Cleared
<1>8. SoloKnown(h)'
  BY <1>6, <1>7 DEF SoloKnown
<1>9. SoloOff(h)'
  BY <1>1, <1>2, <1>3, <1>4 DEF SoloInv, SoloOff, Present
<1> QED BY <1>5, <1>8, <1>9 DEF SoloInv

LEMMA SoloJudged ==
  ASSUME StateInv, NEW h \in Handlers, QueueUnsupported(h) \/ QueueUnreadable(h), SoloInv(h), past \subseteq past'
  PROVE  SoloInv(h)'
<1> PICK y : y = First(h)
  OBVIOUS
<1>1. UNCHANGED <<room, index, queue, worker>>
  BY DEF QueueUnsupported, QueueUnreadable
<1>2. /\ handler[h].pc = "queue" /\ y \in Yamls /\ y \in DOMAIN handler[h].rows
      /\ handler'[h].kind = handler[h].kind /\ handler'[h].pc = "queue" /\ handler'[h].room = handler[h].room
      /\ DOMAIN handler'[h].rows = DOMAIN handler[h].rows \ {y}
      /\ \A z \in DOMAIN handler'[h].rows : handler'[h].rows[z] = handler[h].rows[z]
      /\ \A z \in Yamls : z # y => yamls'[z] = yamls[z]
      /\ \A z \in DOMAIN handler[h].writes : z # y => handler'[h].writes[z] = handler[h].writes[z]
  BY JudgedAtOnce
<1>3. \/ /\ handler[h].rows[y].status = "Unsupported" /\ ReleaseFor(handler[h].room) = None
         /\ handler'[h].writes = handler[h].writes /\ yamls'[y] = yamls[y]
      \/ y \notin Present /\ handler'[h].writes = handler[h].writes /\ yamls'[y] = yamls[y]
      \/ /\ y \in Present /\ yamls'[y] = yamls[y]
         /\ DOMAIN handler'[h].writes = DOMAIN handler[h].writes \cup {y}
         /\ handler'[h].writes[y].status \in {"Unsupported", "Failed"}
      \/ /\ y \in Present /\ handler'[h].writes = handler[h].writes /\ DOMAIN handler[h].writes = {}
         /\ yamls'[y] \in Rows /\ yamls'[y].status \in {"Unsupported", "Failed"}
  BY JudgedAtOnce
<1>4. RoomStage(handler[h])'
  BY <1>1, <1>2 DEF SoloInv, RoomStage
<1>5. Present' = Present
  BY <1>2, <1>3, NoneAssumption DEF Present
<1>6. ASSUME NEW z \in Present, z # y PROVE yamls'[z] = yamls[z] /\ (Bare(h, z)' <=> Bare(h, z))
  BY <1>2, <1>3, <1>6 DEF Bare, Present
<1>7. y \in Present => ~Bare(h, y)'
  <2>1. /\ handler[h].rows[y].status = "Unsupported" /\ ReleaseFor(handler[h].room) = None /\ y \in Present
        => ~Bare(h, y)
    BY <1>2 DEF SoloInv, SoloSkips
  <2> QED BY <1>2, <1>3, <2>1 DEF Bare
<1>8. SoloSkips(h)'
  <2>1. ASSUME NEW z \in DOMAIN handler'[h].rows \cap Present, handler'[h].rows[z].status = "Unsupported",
               ReleaseFor(handler[h].room) = None
        PROVE  ~Bare(h, z)'
    <3>1. z # y /\ z \in DOMAIN handler[h].rows \cap Present /\ handler[h].rows[z].status = "Unsupported"
      BY <1>2, <2>1
    <3>2. ~Bare(h, z)
      BY <1>2, <2>1, <3>1 DEF SoloInv, SoloSkips
    <3> QED BY <1>6, <3>1, <3>2
  <2>2. ReleaseFor(handler[h].room)' = ReleaseFor(handler[h].room)
    BY <1>1, <1>2 DEF ReleaseFor
  <2> QED BY <1>5, <2>1, <2>2 DEF SoloSkips
<1>9. SoloKnown(h)'
  <2>1. ASSUME NEW z \in Present, Bare(h, z)' PROVE Answer(z)' \/ Due(h, z)' \/ Cleared(z)'
    <3>1. z # y
      BY <1>7, <2>1
    <3>2. yamls'[z] = yamls[z] /\ Bare(h, z)
      BY <1>6, <2>1, <3>1
    <3>3. Answer(z) \/ Due(h, z) \/ Cleared(z)
      BY <3>2 DEF SoloInv, SoloKnown
    <3>4. Answer(z) => Answer(z)'
      BY <1>1, <3>2, AnswerKept
    <3>5. Cleared(z) => Cleared(z)'
      BY <1>1, <3>2 DEF Cleared
    <3>6. Due(h, z) => Due(h, z)'
      BY <1>2, <3>1 DEF Due
    <3> QED BY <3>3, <3>4, <3>5, <3>6
  <2> QED BY <1>5, <2>1 DEF SoloKnown
<1>10. SoloWrites(h)'
  <2>1. ASSUME NEW z \in DOMAIN handler'[h].writes
        PROVE  handler'[h].writes[z] = Reset(yamls'[z]) \/ handler'[h].writes[z].status \in {"Unsupported", "Failed"}
    <3>1. CASE z = y /\ handler'[h].writes[y].status \in {"Unsupported", "Failed"}
      BY <3>1
    <3>2. CASE ~(z = y /\ handler'[h].writes[y].status \in {"Unsupported", "Failed"})
      <4>1. handler[h].writes \in RowMaps
        BY DEF StateInv, Locals
      <4>2. z \in DOMAIN handler[h].writes /\ handler'[h].writes[z] = handler[h].writes[z] /\ z \in Yamls
        BY <1>2, <1>3, <2>1, <3>2, <4>1, MapFacts
      <4>3. yamls'[z] = yamls[z]
        BY <1>2, <1>3, <4>2
      <4> QED BY <4>2, <4>3 DEF SoloInv, SoloWrites
    <3> QED BY <3>1, <3>2
  <2> QED BY <2>1 DEF SoloWrites
<1>11. SoloOff(h)'
  <2>1. ASSUME NEW z \in Present, yamls'[z].status = "Unknown" PROVE yamls'[z] = yamls[z]
    BY <1>2, <1>3, <1>6, <2>1
  <2> QED BY <1>1, <1>2, <1>5, <2>1 DEF SoloInv, SoloOff
<1> QED BY <1>4, <1>8, <1>9, <1>10, <1>11 DEF SoloInv

LEMMA SoloReset ==
  ASSUME StateInv, PastInv, NEW h \in Handlers, QueueReset(h), SoloInv(h), past \subseteq past'
  PROVE  SoloInv(h)'
<1> PICK y : y = First(h)
  OBVIOUS
<1>1. UNCHANGED <<room, index, queue, worker>>
  BY DEF QueueReset
<1>2. /\ handler[h].pc = "queue" /\ y \in Yamls /\ y \in DOMAIN handler[h].rows
      /\ handler'[h].kind = handler[h].kind /\ handler'[h].pc = "enqueue" /\ handler'[h].room = handler[h].room
      /\ handler'[h].rows = handler[h].rows /\ handler'[h].result = ReleaseFor(handler[h].room)
      /\ \A z \in Yamls : z # y => yamls'[z] = yamls[z]
      /\ \A z \in DOMAIN handler[h].writes : z # y => handler'[h].writes[z] = handler[h].writes[z]
  BY ResetQueued
<1>3. \/ y \notin Present /\ handler'[h].writes = handler[h].writes /\ yamls'[y] = yamls[y]
      \/ /\ y \in Present /\ handler[h].txn /\ yamls'[y] = yamls[y]
         /\ DOMAIN handler'[h].writes = DOMAIN handler[h].writes \cup {y}
         /\ handler'[h].writes[y] = Reset(yamls[y])
      \/ /\ y \in Present /\ ~handler[h].txn /\ handler'[h].writes = handler[h].writes
         /\ DOMAIN handler[h].writes = {}
         /\ yamls'[y] = Reset(yamls[y])
  BY ResetQueued
<1>a. y \in Present => Reset(yamls[y]) \in Rows
  BY <1>2, PresentFacts, ResetFacts
<1>4. RoomStage(handler[h])'
  BY <1>1, <1>2 DEF SoloInv, RoomStage, ReleaseFor
<1>5. Present' = Present
  BY <1>2, <1>3, <1>a, NoneAssumption DEF Present
<1>6. ASSUME NEW z \in Present, z # y PROVE yamls'[z] = yamls[z] /\ (Bare(h, z)' <=> Bare(h, z))
  BY <1>2, <1>3, <1>6 DEF Bare, Present
<1>8. SoloSkips(h)'
  BY <1>2 DEF SoloSkips
<1>9. SoloKnown(h)'
  <2>1. ASSUME NEW z \in Present, Bare(h, z)', z # y PROVE Answer(z)' \/ Due(h, z)' \/ Cleared(z)'
    <3>2. yamls'[z] = yamls[z] /\ Bare(h, z)
      BY <1>6, <2>1
    <3>3. Answer(z) \/ Due(h, z) \/ Cleared(z)
      BY <3>2 DEF SoloInv, SoloKnown
    <3>4. Answer(z) => Answer(z)'
      BY <1>1, <3>2, AnswerKept
    <3>5. Cleared(z) => Cleared(z)'
      BY <1>1, <3>2 DEF Cleared
    <3>6. Due(h, z) => Due(h, z)'
      BY <1>2 DEF Due
    <3> QED BY <3>3, <3>4, <3>5, <3>6
  <2>2. Due(h, y)'
    BY <1>2 DEF Due
  <2> QED BY <1>5, <2>1, <2>2 DEF SoloKnown
<1>10. SoloWrites(h)'
  <2>1. ASSUME NEW z \in DOMAIN handler'[h].writes
        PROVE  handler'[h].writes[z] = Reset(yamls'[z]) \/ handler'[h].writes[z].status \in {"Unsupported", "Failed"}
    <3>1. CASE z = y /\ handler'[h].writes[y] = Reset(yamls[y]) /\ yamls'[y] = yamls[y]
      BY <3>1
    <3>2. CASE ~(z = y /\ handler'[h].writes[y] = Reset(yamls[y]) /\ yamls'[y] = yamls[y])
      <4>1. handler[h].writes \in RowMaps
        BY DEF StateInv, Locals
      <4>2. z \in DOMAIN handler[h].writes /\ handler'[h].writes[z] = handler[h].writes[z] /\ z \in Yamls
        BY <1>2, <1>3, <2>1, <3>2, <4>1, MapFacts
      <4>3. yamls'[z] = yamls[z]
        BY <1>2, <1>3, <4>2
      <4> QED BY <4>2, <4>3 DEF SoloInv, SoloWrites
    <3> QED BY <3>1, <3>2
  <2> QED BY <2>1 DEF SoloWrites
<1>11. SoloOff(h)'
  <2>1. CASE \A z \in Present : yamls'[z] = yamls[z]
    BY <1>1, <1>2, <1>5, <2>1 DEF SoloInv, SoloOff
  <2>2. CASE handler[h].kind = "retry"
    <3>1. "retry" \in past
      BY <2>2 DEF PastInv, Happening
    <3> QED BY <3>1 DEF SoloOff
  <2>3. CASE handler[h].kind # "retry"
    <3>1. room.validation
      BY <1>2, <2>3 DEF SoloInv, RoomStage
    <3> QED BY <1>1, <1>2, <3>1 DEF SoloOff
  <2> QED BY <2>2, <2>3
<1> QED BY <1>4, <1>8, <1>9, <1>10, <1>11 DEF SoloInv

LEMMA SoloEnqueue ==
  ASSUME StateInv, TimeInv, NEW h \in Handlers, Enqueue(h), SoloInv(h), past \subseteq past'
  PROVE  SoloInv(h)'
<1> PICK y : y = First(h)
  OBVIOUS
<1>1. UNCHANGED <<room, index, yamls, worker>>
  BY DEF Enqueue
<1>2. /\ handler[h].pc = "enqueue" /\ y \in Yamls /\ y \in DOMAIN handler[h].rows
      /\ handler[h].result \in Releases
      /\ handler'[h].kind = handler[h].kind /\ handler'[h].pc = "queue" /\ handler'[h].room = handler[h].room
      /\ handler'[h].writes = handler[h].writes
      /\ DOMAIN handler'[h].rows = DOMAIN handler[h].rows \ {y}
      /\ clock < clock' /\ clock' \in Nat
  BY EnqueueFacts
<1>3. PICK job \in JobRecords : /\ queue' = queue \cup {job} /\ job.yaml = y
                                /\ job.version = handler[h].room.version /\ job.time = clock'
  BY EnqueueFacts
<1>4. handler[h].room = room /\ handler[h].result = ReleaseFor(room)
  BY <1>2 DEF SoloInv, RoomStage
<1>5. Present' = Present /\ ReleaseFor(room)' = ReleaseFor(room) /\ \A z : Bare(h, z)' <=> Bare(h, z)
  BY <1>1, <1>2 DEF Present, ReleaseFor, Bare
<1>6. RoomStage(handler[h])'
  BY <1>1, <1>2 DEF SoloInv, RoomStage
<1>7. SoloSkips(h)'
  <2>1. ReleaseFor(handler[h].room)' # None
    BY <1>1, <1>2, <1>4, NoneAssumption DEF ReleaseFor
  <2> QED BY <2>1 DEF SoloSkips
<1>8. SoloKnown(h)'
  <2>1. ASSUME NEW z \in Present, Bare(h, z), z # y PROVE Answer(z)' \/ Due(h, z)' \/ Cleared(z)'
    <3>3. Answer(z) \/ Due(h, z) \/ Cleared(z)
      BY <2>1 DEF SoloInv, SoloKnown
    <3>4. Answer(z) => Answer(z)'
      BY <1>1, <1>3, AnswerKept
    <3>5. Cleared(z) => Cleared(z)'
      BY <1>1 DEF Cleared
    <3>6. Due(h, z) => Due(h, z)'
      BY <1>2, <2>1 DEF Due
    <3> QED BY <3>3, <3>4, <3>5, <3>6
  <2>2. y \in Present => Answer(y)'
    <3> SUFFICES ASSUME y \in Present PROVE Answer(y)'
      OBVIOUS
    <3>1. yamls[y] \in Rows /\ yamls[y].time <= clock /\ clock \in Nat
      BY <1>2, PresentFacts, ConstantsAssumption DEF TimeInv, StateInv
    <3>2. yamls[y].time \in Nat
      BY <3>1, ConstantsAssumption DEF Rows
    <3>3. yamls'[y].time <= job.time
      BY <1>1, <1>2, <1>3, <3>1, <3>2
    <3>4. Live(job)' /\ job.version = room'.version
      BY <1>1, <1>3, <1>4 DEF Live
    <3> QED BY <1>3, <3>3, <3>4 DEF Answer
  <2> QED BY <1>5, <2>1, <2>2 DEF SoloKnown
<1>9. SoloWrites(h)' /\ SoloOff(h)'
  BY <1>1, <1>2, <1>5 DEF SoloInv, SoloWrites, SoloOff
<1> QED BY <1>6, <1>7, <1>8, <1>9 DEF SoloInv

LEMMA SoloQueued ==
  ASSUME StateInv, HeldInv, PastInv, NEW h \in Handlers, Queued(h), SoloInv(h), past \subseteq past'
  PROVE  SoloInv(h)'
<1>1. UNCHANGED <<room, index, queue, worker>>
  BY DEF Queued
<1>2. /\ handler'[h] = Idle /\ handler[h].pc = "queue" /\ DOMAIN handler[h].rows = {}
      /\ \A z \in Yamls : z \notin DOMAIN handler[h].writes => yamls'[z] = yamls[z]
      /\ \A z \in DOMAIN handler[h].writes : yamls'[z] = handler[h].writes[z] /\ yamls'[z] \in Rows
  BY QueuedFacts
<1>3. Idle.pc = "idle" /\ DOMAIN Idle.writes = {}
  <2>1. Idle.pc = "idle"
    BY DEF Idle
  <2> QED BY <2>1, IdleFacts
<1>4. DOMAIN handler[h].writes \subseteq Present
  BY DEF HeldInv
<1>5. Present' = Present
  BY <1>2, <1>4, NoneAssumption DEF Present
<1>6. RoomStage(handler[h])' /\ SoloSkips(h)' /\ SoloWrites(h)'
  BY <1>2, <1>3 DEF RoomStage, SoloSkips, SoloWrites
<1>7. ASSUME NEW z \in Present, yamls'[z].status = "Unknown"
      PROVE  yamls'[z].time = yamls[z].time /\ yamls'[z].apworlds = yamls[z].apworlds /\ Bare(h, z)
  <2>0. z \in Yamls /\ yamls[z] \in Rows
    BY PresentFacts
  <2>1. CASE z \in DOMAIN handler[h].writes
    <3>1. yamls'[z] = Reset(yamls[z])
      BY <1>2, <1>7, <2>1 DEF SoloInv, SoloWrites
    <3>2. Bare(h, z)
      BY <1>2, <1>7, <2>1 DEF Bare
    <3> QED BY <2>0, <3>1, <3>2, ResetFacts
  <2>2. CASE z \notin DOMAIN handler[h].writes
    BY <1>2, <1>7, <2>0, <2>2 DEF Bare
  <2> QED BY <2>1, <2>2
<1>8. SoloKnown(h)'
  <2>1. ASSUME NEW z \in Present, Bare(h, z)' PROVE Answer(z)' \/ Cleared(z)'
    <3>1. yamls'[z].status = "Unknown"
      BY <1>2, <1>3, <2>1 DEF Bare
    <3>2. yamls'[z].time = yamls[z].time /\ yamls'[z].apworlds = yamls[z].apworlds /\ Bare(h, z)
      BY <1>7, <3>1
    <3>3. Answer(z) \/ Cleared(z)
      BY <1>2, <3>2 DEF SoloInv, SoloKnown, Due
    <3>4. Answer(z) => Answer(z)'
      BY <1>1, <3>2, AnswerKept
    <3>5. Cleared(z) => Cleared(z)'
      BY <1>1, <3>2 DEF Cleared
    <3> QED BY <3>3, <3>4, <3>5
  <2> QED BY <1>5, <2>1 DEF SoloKnown
<1>9. SoloOff(h)'
  <2>1. CASE handler[h].kind = "retry"
    <3>1. "retry" \in past
      BY <2>1 DEF PastInv, Happening
    <3> QED BY <3>1 DEF SoloOff
  <2>2. CASE handler[h].kind # "retry"
    <3>1. room.validation
      BY <1>2, <2>2 DEF SoloInv, RoomStage
    <3> QED BY <1>1, <1>2, <1>3, <3>1 DEF SoloOff
  <2> QED BY <2>1, <2>2
<1> QED BY <1>6, <1>8, <1>9 DEF SoloInv

LEMMA SoloClear ==
  ASSUME StateInv, NEW h \in Handlers, UpdateRoomReset(h), SoloInv(h), past \subseteq past'
  PROVE  SoloInv(h)'
<1>1. UNCHANGED <<room, index, queue, worker>>
  BY DEF UpdateRoomReset
<1>2. /\ handler[h].pc = "reset" /\ handler'[h].pc = "write" /\ handler'[h].room = handler[h].room
      /\ DOMAIN handler'[h].writes = {}
      /\ \A y \in Yamls : y \notin Present => yamls'[y] = yamls[y]
      /\ \A y \in Present : yamls'[y] \in Rows /\ yamls'[y].apworlds = None
  BY ClearFacts
<1>3. Present' = Present
  BY <1>2, NoneAssumption DEF Present
<1>4. RoomStage(handler[h])' /\ SoloSkips(h)' /\ SoloWrites(h)'
  BY <1>1, <1>2 DEF SoloInv, RoomStage, SoloSkips, SoloWrites
<1>5. SoloKnown(h)'
  BY <1>2, <1>3 DEF SoloKnown, Due
<1>6. SoloOff(h)'
  BY <1>2, <1>3 DEF SoloOff
<1> QED BY <1>4, <1>5, <1>6 DEF SoloInv

LEMMA SoloWriteRoom ==
  ASSUME StateInv, NEW h \in Handlers, UpdateRoom(h), SoloInv(h), past \subseteq past'
  PROVE  SoloInv(h)'
<1>1. UNCHANGED <<index, yamls, queue, worker>>
  BY DEF UpdateRoom
<1>2. /\ handler[h].pc = "write" /\ handler'[h].pc = "revalidate" /\ handler'[h].room = handler[h].room
      /\ room' = handler[h].room
      /\ DOMAIN handler[h].writes = {} /\ DOMAIN handler'[h].writes = {}
  BY RoomWritten
<1>3. Present' = Present
  BY <1>1 DEF Present
<1>4. RoomStage(handler[h])' /\ SoloSkips(h)' /\ SoloWrites(h)'
  BY <1>2 DEF RoomStage, SoloSkips, SoloWrites
<1>5. room'.version = room.version
  BY <1>2 DEF SoloInv, RoomStage
<1>6. SoloKnown(h)'
  <2>1. ASSUME NEW z \in Present, Bare(h, z)' PROVE Answer(z)' \/ Due(h, z)'
    <3>1. Bare(h, z)
      BY <1>1, <1>2, <2>1 DEF Bare
    <3>2. Answer(z) \/ yamls[z].apworlds = None
      BY <1>2, <3>1 DEF SoloInv, SoloKnown, Due, Cleared
    <3>3. Answer(z) => Answer(z)'
      BY <1>1, <1>5, AnswerKept
    <3> QED BY <1>1, <1>2, <3>2, <3>3 DEF Due
  <2> QED BY <1>3, <2>1 DEF SoloKnown
<1>7. SoloOff(h)'
  BY <1>1, <1>2, <1>3 DEF SoloInv, SoloOff
<1> QED BY <1>4, <1>6, <1>7 DEF SoloInv

(* A move drops the answers that are on their way: where the room does not *)
(* validate, no YAML may have waited for one.                              *)
LEMMA SoloCommit ==
  ASSUME StateInv, PastInv, NEW h \in Handlers, SwitchCommit(h), SoloInv(h), past \subseteq past', Regular'
  PROVE  SoloInv(h)'
<1>1. UNCHANGED <<index, queue, worker>>
  BY DEF SwitchCommit
<1>2. /\ handler[h].pc = "commit" /\ handler[h].kind = "switch" /\ room'.validation = room.validation
      /\ DOMAIN handler[h].writes = {} /\ DOMAIN handler'[h].writes = {}
  BY CommitFacts
<1>3. handler[h].room = room /\ Present \subseteq DOMAIN handler[h].rows
  BY <1>2 DEF SoloInv, RoomStage
<1>4. CASE ~handler[h].room.validation /\ handler'[h] = Idle /\ yamls' = yamls
  <2>1. Idle.pc = "idle"
    BY DEF Idle
  <2>2. RoomStage(handler[h])' /\ SoloSkips(h)' /\ SoloWrites(h)'
    BY <1>2, <1>4, <2>1 DEF RoomStage, SoloSkips, SoloWrites
  <2>3. {"switch", "editRoom"} \subseteq past
    BY <1>2, <1>3, <1>4 DEF PastInv, Happening
  <2>4. "retry" \notin past
    BY <2>3 DEF Regular
  <2>5. Present' = Present
    BY <1>4 DEF Present
  <2>6. \A y \in Present : yamls[y].status = "Unknown" => yamls[y].apworlds = None
    BY <1>3, <1>4, <2>4 DEF SoloInv, SoloOff
  <2>7. SoloKnown(h)'
    BY <1>2, <1>3, <1>4, <2>5, <2>6 DEF SoloKnown, Bare, Cleared
  <2>8. SoloOff(h)'
    BY <1>4, <2>5, <2>6 DEF SoloOff
  <2> QED BY <2>2, <2>7, <2>8 DEF SoloInv
<1>5. CASE /\ handler[h].room.validation
           /\ handler'[h].kind = handler[h].kind /\ handler'[h].pc = "reread"
           /\ handler'[h].rows = handler[h].rows
           /\ \A y \in Yamls : y \notin Present => yamls'[y] = yamls[y]
           /\ \A y \in Present : yamls'[y] = Reset(yamls[y]) /\ yamls'[y] \in Rows
  <2>1. Present' = Present
    BY <1>5, NoneAssumption DEF Present
  <2>2. RoomStage(handler[h])' /\ SoloSkips(h)' /\ SoloWrites(h)'
    BY <1>2, <1>3, <1>5, <2>1 DEF RoomStage, SoloSkips, SoloWrites
  <2>3. SoloKnown(h)'
    BY <1>3, <1>5, <2>1 DEF SoloKnown, Due
  <2>4. SoloOff(h)'
    BY <1>2, <1>3, <1>5 DEF SoloOff
  <2> QED BY <2>2, <2>3, <2>4 DEF SoloInv
<1> QED BY <1>4, <1>5, CommitFacts

-----------------------------------------------------------------------------
(* The steps of the others                                                 *)

LEMMA KnownDelete ==
  ASSUME StateInv, NEW h \in Handlers, NEW y \in Yamls, DeleteYaml(h, y), KnownParts, past \subseteq past'
  PROVE  KnownParts'
<1>1. UNCHANGED <<room, index, queue, worker, handler>>
  BY DEF DeleteYaml
<1>2. ~Locked(y) /\ yamls'[y] = Deleted /\ \A z \in Yamls : z # y => yamls'[z] = yamls[z]
  BY DeleteFacts
<1>3. \A z \in Present' : z \in Present /\ z # y /\ yamls'[z] = yamls[z]
  BY <1>2 DEF Present
<1>4. ASSUME NEW g \in Handlers PROVE RoomStage(handler[g])'
  <2>1. RoomStage(handler[g])
    BY DEF KnownParts
  <2> QED BY <1>1, <1>3, <2>1 DEF RoomStage, ReleaseFor
<1>5. ASSUME NEW z \in Present' PROVE (Unjudged(z)' <=> Unjudged(z)) /\ (Will(z) => Will(z)')
                                      /\ (Answer(z) => Answer(z)') /\ (Cleared(z) => Cleared(z)')
  <2>1. yamls'[z] = yamls[z]
    BY <1>3
  <2>2. Unjudged(z)' <=> Unjudged(z)
    BY <1>1, <2>1 DEF Unjudged, Locked
  <2>3. Will(z) => Will(z)'
    BY <1>1, <2>1 DEF Will
  <2>4. Answer(z) => Answer(z)'
    BY <1>1, <2>1, AnswerKept
  <2> QED BY <1>1, <2>1, <2>2, <2>3, <2>4 DEF Cleared
<1>6. Known'
  BY <1>3, <1>5 DEF KnownParts, Known
<1>7. ASSUME NEW g \in Handlers PROVE SkipStage(handler[g])'
  <2>1. SkipStage(handler[g])
    BY DEF KnownParts
  <2> QED BY <1>1, <1>3, <1>5, <2>1 DEF SkipStage, ReleaseFor
<1>8. WritesInv'
  <2>1. \A g \in Handlers : DOMAIN handler[g].writes \in SUBSET Yamls
    BY MapFacts DEF StateInv, Locals
  <2>2. \A g \in Handlers : y \notin DOMAIN handler[g].writes
    BY <1>2 DEF Locked
  <2>3. \A g \in Handlers : \A z \in DOMAIN handler[g].writes : yamls'[z] = yamls[z]
    BY <1>2, <2>1, <2>2
  <2> QED BY <1>1, <2>3 DEF KnownParts, WritesInv
<1>9. OffInv'
  BY <1>1, <1>3 DEF KnownParts, OffInv
<1> QED BY <1>4, <1>6, <1>7, <1>8, <1>9 DEF KnownParts

(* What a worker does with a job leaves the row its answer, or its status. *)
LEMMA KnownAnswers ==
  ASSUME StateInv, UNCHANGED <<room, index, yamls, handler>>, KnownParts, past \subseteq past',
         \A y \in Present : Answer(y) => Answer(y)'
  PROVE  KnownParts'
<1>1. Present' = Present
  BY DEF Present
<1>2. ASSUME NEW g \in Handlers PROVE RoomStage(handler[g])' /\ SkipStage(handler[g])'
  <2>1. RoomStage(handler[g]) /\ SkipStage(handler[g])
    BY DEF KnownParts
  <2>2. \A z : Unjudged(z)' <=> Unjudged(z)
    BY DEF Unjudged, Locked
  <2>3. RoomStage(handler[g])'
    BY <1>1, <2>1 DEF RoomStage, ReleaseFor
  <2>4. SkipStage(handler[g])'
    BY <1>1, <2>1, <2>2 DEF SkipStage, ReleaseFor
  <2> QED BY <2>3, <2>4
<1>3. ASSUME NEW z \in Present, Unjudged(z)' PROVE Answer(z)' \/ Will(z)' \/ Cleared(z)'
  <2>1. Unjudged(z)
    BY <1>3 DEF Unjudged, Locked
  <2>2. Answer(z) \/ Will(z) \/ Cleared(z)
    BY <2>1 DEF KnownParts, Known
  <2>3. (Will(z) => Will(z)') /\ (Cleared(z) => Cleared(z)')
    BY DEF Will, Cleared
  <2> QED BY <2>2, <2>3
<1>4. Known' /\ WritesInv' /\ OffInv'
  BY <1>1, <1>3 DEF KnownParts, Known, WritesInv, OffInv
<1> QED BY <1>2, <1>4 DEF KnownParts

LEMMA KnownResolve ==
  ASSUME StateInv, NEW w \in Workers, NEW job \in queue, WorkerResolves(w, job), KnownParts, past \subseteq past'
  PROVE  KnownParts'
<1>1. UNCHANGED <<room, index, yamls, handler>> /\ queue' = queue \ {job}
  BY DEF WorkerResolves
<1>2. /\ ~Reports(w) /\ worker'[w] \in Reporting /\ worker'[w].job = job
      /\ \A v \in Workers : v # w => worker'[v] = worker[v]
  BY ResolveFacts
<1>3. worker'[w].pc # "idle"
  BY <1>2 DEF Reporting
<1>4. \A j : Live(j) => Live(j)'
  BY <1>1, <1>2, <1>3 DEF Live, Reports
<1>5. \A y \in Present : Answer(y) => Answer(y)'
  BY <1>1, <1>4 DEF Answer
<1> QED BY <1>1, <1>5, KnownAnswers

LEMMA KnownCheck ==
  ASSUME StateInv, NEW w \in Workers, CallbackRead(w) \/ CallbackVersion(w), KnownParts, past \subseteq past'
  PROVE  KnownParts'
<1>1. /\ UNCHANGED <<room, index, yamls, queue, handler>>
      /\ \A v \in Workers : v # w => worker'[v] = worker[v]
      /\ \/ worker'[w] \in Reporting /\ worker'[w].job = worker[w].job
         \/ /\ worker'[w] = WorkerIdle
            /\ \/ worker[w].job.yaml \notin Present
               \/ ~(yamls[worker[w].job.yaml].time <= worker[w].job.time)
               \/ worker[w].job.version # room.version
  BY CheckFacts
<1>2. ASSUME NEW y \in Present, NEW j \in JobRecords, Live(j), j.yaml = y, j.version = room.version,
             yamls[y].time <= j.time
      PROVE  Live(j)'
  <2>1. CASE worker'[w] \in Reporting /\ worker'[w].job = worker[w].job
    <3>1. worker'[w].pc # "idle"
      BY <2>1 DEF Reporting
    <3> QED BY <1>1, <1>2, <2>1, <3>1 DEF Live, Reports
  <2>2. CASE worker[w].job # j
    BY <1>1, <1>2, <2>2 DEF Live, Reports
  <2> QED BY <1>1, <1>2, <2>1, <2>2
<1>3. \A y \in Present : Answer(y) => Answer(y)'
  BY <1>1, <1>2 DEF Answer
<1> QED BY <1>1, <1>3, KnownAnswers

LEMMA KnownUpdate ==
  ASSUME StateInv, NEW w \in Workers, CallbackUpdate(w), KnownParts, past \subseteq past'
  PROVE  KnownParts'
<1> PICK y : y = worker[w].job.yaml
  OBVIOUS
<1>1. UNCHANGED <<room, index, queue, handler>>
  BY DEF CallbackUpdate
<1>2. /\ worker[w] \in Reporting /\ worker'[w] = WorkerIdle
      /\ \A v \in Workers : v # w => worker'[v] = worker[v]
      /\ ~Locked(y)
      /\ \A z \in Yamls : z # y \/ z \notin Present => yamls'[z] = yamls[z]
      /\ y \in Present => yamls'[y] \in Rows /\ yamls'[y].status = worker[w].status
  BY UpdateFacts
<1>3. worker[w].status # "Unknown" /\ y \in Yamls
  BY <1>2 DEF Reporting, JobRecords
<1>4. Present' = Present /\ \A z \in Present : z # y => yamls'[z] = yamls[z]
  BY <1>2, <1>3, NoneAssumption DEF Present
<1>5. y \in Present => ~Unjudged(y)'
  BY <1>1, <1>2, <1>3 DEF Unjudged, Locked
<1>6. ASSUME NEW z \in Present, Unjudged(z)'
      PROVE  z # y /\ yamls'[z] = yamls[z] /\ Unjudged(z)
  <2>1. z # y
    BY <1>5, <1>6
  <2>2. yamls'[z] = yamls[z]
    BY <1>4, <2>1
  <2> QED BY <1>1, <1>6, <2>1, <2>2 DEF Unjudged, Locked
<1>7. Known'
  <2>1. ASSUME NEW z \in Present, Unjudged(z)' PROVE Answer(z)' \/ Will(z)' \/ Cleared(z)'
    <3>1. z # y /\ yamls'[z] = yamls[z] /\ Unjudged(z)
      BY <1>6, <2>1
    <3>2. Answer(z) \/ Will(z) \/ Cleared(z)
      BY <3>1 DEF KnownParts, Known
    <3>3. (Will(z) => Will(z)') /\ (Cleared(z) => Cleared(z)')
      BY <1>1, <3>1 DEF Will, Cleared
    <3>4. ASSUME NEW j, Live(j), j.yaml = z PROVE Live(j)'
      BY <1>1, <1>2, <3>1, <3>4 DEF Live, Reports
    <3>5. Answer(z) => Answer(z)'
      BY <1>1, <3>1, <3>4 DEF Answer
    <3> QED BY <3>2, <3>3, <3>5
  <2> QED BY <1>4, <2>1 DEF Known
<1>8. ASSUME NEW g \in Handlers PROVE RoomStage(handler[g])' /\ SkipStage(handler[g])'
  <2>1. RoomStage(handler[g]) /\ SkipStage(handler[g])
    BY DEF KnownParts
  <2>2. RoomStage(handler[g])'
    BY <1>1, <1>4, <2>1 DEF RoomStage, ReleaseFor
  <2>3. SkipStage(handler[g])'
    BY <1>1, <1>4, <1>6, <2>1 DEF SkipStage, ReleaseFor
  <2> QED BY <2>2, <2>3
<1>9. WritesInv'
  <2>1. \A g \in Handlers : DOMAIN handler[g].writes \in SUBSET Yamls
    BY MapFacts DEF StateInv, Locals
  <2>2. \A g \in Handlers : y \notin DOMAIN handler[g].writes
    BY <1>2 DEF Locked
  <2>3. \A g \in Handlers : \A z \in DOMAIN handler[g].writes : yamls'[z] = yamls[z]
    BY <1>2, <2>1, <2>2
  <2> QED BY <1>1, <2>3 DEF KnownParts, WritesInv
<1>10. OffInv'
  <2>1. \A z \in Present : yamls'[z].status = "Unknown" => yamls'[z] = yamls[z]
    BY <1>2, <1>3, <1>4
  <2> QED BY <1>1, <1>4, <2>1 DEF KnownParts, OffInv
<1> QED BY <1>7, <1>8, <1>9, <1>10 DEF KnownParts

-----------------------------------------------------------------------------
(* No YAML is forgotten                                                    *)

LEMMA HandlerBusy ==
  ASSUME StateInv, HeldInv, NEW h \in Handlers, Request(h), \A y \in Yamls : ~DeleteYaml(h, y)
  PROVE  Others(h) /\ (handler[h].pc # "idle" \/ handler'[h].pc # "idle")
<1>1. CASE \E y \in Yamls : UploadYaml(h, y) \/ EditYaml(h, y) \/ RetryYaml(h, y)
  BY <1>1, UploadBegins, EditBegins, RetryBegins
<1>2. CASE \E manifest \in Manifests, validation \in BOOLEAN : EditRoom(h, manifest, validation)
  BY <1>2, RoomEditBegins
<1>3. CASE \E target \in Versions : SwitchBase(h, target)
  BY <1>3, MoveBegins
<1>4. CASE RefreshWorlds(h)
  BY <1>4, RefreshBegins
<1>5. CASE \/ ValidateYaml(h) \/ StoreUpload(h) \/ StoreEdit(h) \/ QueueUnsupported(h) \/ QueueUnreadable(h) \/ QueueReset(h)
           \/ Enqueue(h) \/ Queued(h) \/ UpdateRoomReset(h) \/ UpdateRoom(h) \/ Revalidate(h) \/ ListRooms(h)
           \/ SwitchCommit(h) \/ SwitchReread(h)
  <2>1. handler[h].pc # "idle"
    BY <1>5 DEF ValidateYaml, StoreUpload, StoreEdit, QueueUnsupported, QueueUnreadable, QueueReset, Enqueue, Queued,
                UpdateRoomReset, UpdateRoom, Revalidate, ListRooms, SwitchCommit, SwitchReread
  <2>2. \A y \in Yamls : ~UploadYaml(h, y)
    BY <2>1 DEF UploadYaml, Begin
  <2> QED BY <2>1, <2>2, SafeActions DEF Safe
<1> QED BY <1>1, <1>2, <1>3, <1>4, <1>5 DEF Request, HandlerStep

LEMMA SoloStep ==
  ASSUME StateInv, HeldInv, TimeInv, PastInv, NEW h \in Handlers, Request(h), SoloInv(h),
         \A y \in Yamls : ~DeleteYaml(h, y), past \subseteq past', Regular'
  PROVE  SoloInv(h)'
<1>1. CASE \E y \in Yamls : UploadYaml(h, y) \/ EditYaml(h, y)
  BY <1>1, SoloUpload
<1>2. CASE \E y \in Yamls : RetryYaml(h, y)
  BY <1>2, SoloRetry
<1>3. CASE \E manifest \in Manifests, validation \in BOOLEAN : EditRoom(h, manifest, validation)
  BY <1>3, SoloEditRoom
<1>4. CASE \E target \in Versions : SwitchBase(h, target)
  BY <1>4, SoloMove
<1>5. CASE RefreshWorlds(h)
  BY <1>5, SoloRefresh
<1>6. CASE ValidateYaml(h)
  BY <1>6, SoloValidate
<1>7. CASE StoreUpload(h) \/ StoreEdit(h)
  BY <1>7, SoloStore
<1>8. CASE QueueUnsupported(h) \/ QueueUnreadable(h)
  BY <1>8, SoloJudged
<1>9. CASE QueueReset(h)
  BY <1>9, SoloReset
<1>10. CASE Enqueue(h)
  BY <1>10, SoloEnqueue
<1>11. CASE Queued(h)
  BY <1>11, SoloQueued
<1>12. CASE UpdateRoomReset(h)
  BY <1>12, SoloClear
<1>13. CASE UpdateRoom(h)
  BY <1>13, SoloWriteRoom
<1>14. CASE Revalidate(h)
  BY <1>14, SoloRevalidate
<1>15. CASE ListRooms(h)
  BY <1>15, SoloList
<1>16. CASE SwitchCommit(h)
  BY <1>16, SoloCommit
<1>17. CASE SwitchReread(h)
  BY <1>17, SoloReread
<1> QED BY <1>1, <1>2, <1>3, <1>4, <1>5, <1>6, <1>7, <1>8, <1>9, <1>10, <1>11, <1>12, <1>13, <1>14,
           <1>15, <1>16, <1>17 DEF Request, HandlerStep

ValidationInv == TypeInv /\ HeldInv /\ UploadInv /\ TimeInv /\ PastInv /\ KnownInv

LEMMA KnownStep ==
  ASSUME ValidationInv, [Next]_validationVars
  PROVE  KnownInv'
<1> SUFFICES ASSUME Regular' PROVE KnownParts'
  BY DEF KnownInv
<1>0. StateInv /\ HeldInv /\ TimeInv /\ PastInv /\ past \subseteq HappeningKinds
  BY DEF ValidationInv, TypeInv, HappeningKinds
<1>1. StateInv' /\ PastInv' /\ past \subseteq past'
  BY <1>0, StepState, PastStep, StepPast
<1>2. KnownParts
  BY <1>1 DEF ValidationInv, KnownInv, Regular
<1>3. ASSUME NEW h \in Handlers, Request(h), \A y \in Yamls : ~DeleteYaml(h, y) PROVE KnownParts'
  <2>1. Others(h) /\ (handler[h].pc # "idle" \/ handler'[h].pc # "idle")
    BY <1>0, <1>3, HandlerBusy
  <2>2. Alone(h) /\ Alone(h)'
    BY <1>0, <1>1, <2>1, IsAlone
  <2>3. SoloInv(h)
    BY <1>0, <1>2, <2>2, SoloFacts DEF SoloLaw
  <2>4. SoloInv(h)'
    BY <1>0, <1>1, <1>3, <2>3, SoloStep
  <2> QED BY <1>1, <2>2, <2>4, SoloAlways DEF SoloLaw
<1>4. ASSUME NEW h \in Handlers, NEW y \in Yamls, DeleteYaml(h, y) PROVE KnownParts'
  BY <1>0, <1>1, <1>2, <1>4, KnownDelete
<1>5. ASSUME NEW w \in Workers, WorkerStep(w) PROVE KnownParts'
  BY <1>0, <1>1, <1>2, <1>5, KnownResolve, KnownCheck, KnownUpdate DEF WorkerStep
<1>6. CASE UNCHANGED validationVars
  <2>1. UNCHANGED <<room, index, yamls, handler>> /\ \A y \in Present : Answer(y) => Answer(y)'
    BY <1>6 DEF validationVars, Answer, Live, Reports
  <2> QED BY <1>0, <1>1, <1>2, <2>1, KnownAnswers
<1>7. "failure" \notin past'
  BY DEF Regular
<1> QED BY <1>3, <1>4, <1>5, <1>6, <1>7 DEF Next, Request

LEMMA InitValidation == Init => ValidationInv
<1> SUFFICES ASSUME Init PROVE ValidationInv
  OBVIOUS
<1>1. TypeInv /\ StateInv /\ HeldInv /\ UploadInv
  BY InitState, InitHeld DEF TypeInv, Init
<1>2. /\ queue = {} /\ (\A h \in Handlers : handler[h] = Idle) /\ (\A w \in Workers : worker[w] = WorkerIdle)
      /\ clock = 0 /\ room.validation
  BY DEF Init
<1>3. Idle.pc = "idle" /\ Idle.kind = "none" /\ WorkerIdle.pc = "idle"
  BY DEF Idle, WorkerIdle
<1>4. DOMAIN Idle.writes = {}
  BY IdleFacts
<1>5. \A y \in Present : yamls[y].time = 0 /\ yamls[y].status # "Unknown"
  <2> TAKE y \in Present
  <2>1. y \in Yamls /\ yamls[y] # None
    BY DEF Present
  <2> QED BY <2>1 DEF Init
<1>6. TimeInv
  BY <1>2, <1>3, <1>4, <1>5 DEF TimeInv, Live, Reports
<1>7. PastInv
  BY <1>2, <1>3 DEF PastInv, Happening, Busy, Reports
<1>8. KnownParts
  <2>1. RoomStage(Idle) /\ SkipStage(Idle)
    BY <1>3 DEF RoomStage, SkipStage
  <2>2. \A y \in Present : ~Unjudged(y)
    BY <1>2, <1>4, <1>5 DEF Unjudged
  <2>3. WritesInv /\ OffInv
    BY <1>2, <1>4, <1>5 DEF WritesInv, OffInv
  <2> QED BY <1>2, <2>1, <2>2, <2>3 DEF KnownParts, Known
<1> QED BY <1>1, <1>6, <1>7, <1>8 DEF ValidationInv, KnownInv

LEMMA NothingForgotten == ValidationInv => NoneForgotten
<1> SUFFICES ASSUME ValidationInv, Quiet, room.validation, Regular, NEW y \in Present
             PROVE  yamls[y].status # "Unknown"
  BY DEF NoneForgotten, Regular
<1>1. Known
  BY DEF ValidationInv, KnownInv, KnownParts
<1>2. \A h \in Handlers : handler[h].pc = "idle" /\ handler[h] = Idle
  BY DEF Quiet, Busy, ValidationInv, TypeInv, StateInv, StageOK
<1>3. ~Answer(y)
  BY DEF Answer, Live, Quiet
<1>4. ~Will(y)
  BY <1>2 DEF Will
<1>5. ~Unjudged(y)
  BY <1>1, <1>3, <1>4 DEF Known, Cleared
<1>6. ~Locked(y)
  BY <1>2, IdleFacts DEF Locked
<1> QED BY <1>5, <1>6 DEF Unjudged

LEMMA ValidationStep ==
  ASSUME ValidationInv, [Next]_validationVars
  PROVE  ValidationInv'
<1>0. StateInv /\ HeldInv /\ UploadInv /\ TimeInv /\ PastInv /\ past \subseteq HappeningKinds
  BY DEF ValidationInv, TypeInv, HappeningKinds
<1>1. TypeInv'
  BY <1>0, StepState, StepPast DEF TypeInv, HappeningKinds
<1>2. HeldInv' /\ UploadInv' /\ TimeInv' /\ PastInv'
  BY <1>0, HeldStep, TimeStep, PastStep
<1> QED BY <1>1, <1>2, KnownStep DEF ValidationInv

(* Once every job is answered, each YAML of a room that validates has a    *)
(* status, whatever was edited, retried, refreshed or moved, as long as    *)
(* requests do not overlap or fail.                                        *)
THEOREM NoYamlIsForgotten == Spec => []NoneForgotten
<1>1. ValidationInv /\ [Next]_validationVars => ValidationInv'
  BY ValidationStep
<1> QED BY <1>1, InitValidation, NothingForgotten, PTL DEF Spec

-----------------------------------------------------------------------------
(* Verdicts are on the room's release: what steps leave as it is           *)

LEMMA FineSame ==
  ASSUME NEW y, Fine(y), Offered(index') = Offered(index), yamls'[y].time = yamls[y].time,
         yamls'[y].apworlds \in {yamls[y].apworlds, Offered(index)},
         \A job \in JobRecords : job.yaml = y => (Live(job)' <=> Live(job))
  PROVE  Fine(y)'
<1>1. \A job \in JobRecords : Current(job, y)' <=> Current(job, y)
  BY DEF Current, Offered
<1>2. Offered(index)' = Offered(index)
  BY DEF Offered
<1>3. yamls'[y].apworlds = Offered(index) \/ \E c \in JobRecords : Current(c, y) /\ yamls'[y].time <= c.time
  BY DEF Fine
<1>4. ASSUME NEW job \in JobRecords, Live(job), job.yaml = y, job.apworlds # Offered(index)
      PROVE  job.time < yamls'[y].time \/ \E c \in JobRecords : Current(c, y) /\ job.time < c.time
  BY <1>4 DEF Fine
<1> QED BY <1>1, <1>2, <1>3, <1>4 DEF Fine

LEMMA OutdatedSame ==
  ASSUME NEW y, Outdated(y), index' = index, yamls'[y].apworlds = yamls[y].apworlds,
         \A job \in JobRecords : job.yaml = y /\ Live(job)' => Live(job)
  PROVE  Outdated(y)'
BY DEF Outdated, Current, Offered

LEMMA LiveSame ==
  ASSUME UNCHANGED <<queue, worker>>
  PROVE  \A job : Live(job)' <=> Live(job)
BY DEF Live, Reports

(* The requests that a step is not about                                   *)
LEMMA RequestsKept ==
  ASSUME NEW g \in Handlers, handler'[g] = handler[g], RequestOK(g), index' = index,
         \A y \in Yamls : yamls[y] # None => yamls'[y] # None, StateInv
  PROVE  RequestOK(g)'
<1>1. DOMAIN handler[g].rows \in SUBSET Yamls
  BY MapFacts DEF StateInv, Locals
<1> QED BY <1>1 DEF RequestOK, Offered

(* A step of a request that only reads                                     *)
LEMMA FreshReads ==
  ASSUME StateInv, NEW h \in Handlers, Others(h), FreshParts, UNCHANGED <<room, index, yamls, queue, worker>>,
         RequestOK(h)', \A y \in Present : ComingBy(h, y) => ComingBy(h, y)'
  PROVE  FreshParts'
<1>1. Present' = Present /\ Seen' = Seen
  BY DEF Present, Seen
<1>2. \A job : Live(job)' <=> Live(job)
  BY LiveSame
<1>3. JobsInv' /\ RowsInv' /\ ChecksInv'
  BY <1>1, <1>2 DEF FreshParts, JobsInv, RowsInv, ChecksInv
<1>4. \A g \in Handlers : RequestOK(g)'
  <2> TAKE g \in Handlers
  <2>1. g # h => RequestOK(g)'
    BY RequestsKept DEF Others, FreshParts
  <2> QED BY <2>1
<1>5. ASSUME NEW y \in Present PROVE Fine(y)' \/ \E g \in Handlers : ComingBy(g, y)'
  <2>1. Fine(y) => Fine(y)'
    BY <1>2, FineSame
  <2>2. Outdated(y) => Outdated(y)'
    BY <1>2, OutdatedSame
  <2>3. ASSUME NEW g \in Handlers, g # h, ComingBy(g, y) PROVE ComingBy(g, y)'
    BY <2>2, <2>3 DEF ComingBy, Others
  <2>4. Fine(y) \/ \E g \in Handlers : ComingBy(g, y)
    BY DEF FreshParts
  <2> QED BY <2>1, <2>3, <2>4
<1> QED BY <1>1, <1>3, <1>4, <1>5 DEF FreshParts

LEMMA FreshBegins ==
  ASSUME StateInv, NEW h \in Handlers, NEW y \in Yamls,
         UploadYaml(h, y) \/ EditYaml(h, y) \/ RetryYaml(h, y), FreshParts
  PROVE  FreshParts'
<1>1. handler[h].pc = "idle" /\ UNCHANGED <<room, index, yamls, queue, worker>>
  BY DEF UploadYaml, EditYaml, RetryYaml, Begin
<1>2. \A z \in Present : ~ComingBy(h, z)
  BY <1>1 DEF ComingBy
<1>3. /\ Others(h) /\ DOMAIN handler'[h].writes = {} /\ handler'[h].pc # "store"
      /\ \/ handler'[h].pc = "validate"
         \/ RetryYaml(h, y) /\ DOMAIN handler'[h].rows = {y}
  BY UploadBegins, EditBegins, RetryBegins
<1>4. RetryYaml(h, y) => yamls[y] # None
  BY DEF RetryYaml, Present
<1>5. RequestOK(h)'
  BY <1>1, <1>3, <1>4 DEF RequestOK
<1> QED BY <1>1, <1>2, <1>3, <1>5, FreshReads

LEMMA FreshList ==
  ASSUME StateInv, NEW h \in Handlers, ListRooms(h), FreshParts
  PROVE  FreshParts'
<1>1. handler[h].pc = "list" /\ UNCHANGED <<room, index, yamls, queue, worker>>
  BY DEF ListRooms
<1>2. Others(h) /\ handler'[h].pc = "revalidate" /\ DOMAIN handler'[h].writes = {}
  BY ListFacts
<1>3. \A y \in Present : ComingBy(h, y) => ComingBy(h, y)'
  <2> TAKE y \in Present
  <2>1. Outdated(y) => Outdated(y)'
    BY <1>1, LiveSame, OutdatedSame
  <2> QED BY <1>1, <1>2, <2>1 DEF ComingBy
<1>4. RequestOK(h)'
  BY <1>2 DEF RequestOK
<1> QED BY <1>1, <1>2, <1>3, <1>4, FreshReads

(* The release of the room is the one the index offers, and it offers one. *)
LEMMA RoomRelease ==
  ASSUME StateInv, FreshParts, NewReleasesOnly
  PROVE  ReleaseFor(room) = Offered(index) /\ Offered(index) \in Releases /\ room.validation /\ None \notin Seen
<1>1. ReleaseFor(room) = Offered(index) /\ room.validation
  BY DEF FreshParts, ReleaseFor, Offered
<1>2. Offered(index) # None
  BY DEF NewReleasesOnly, StateInv
<1>3. ReleaseFor(room) \in Releases \cup {None}
  BY ReleaseType DEF StateInv
<1>4. None \notin Seen
  BY DEF Seen, NewReleasesOnly
<1> QED BY <1>1, <1>2, <1>3, <1>4

LEMMA FreshValidate ==
  ASSUME StateInv, NEW h \in Handlers, ValidateYaml(h), FreshParts, NewReleasesOnly, RoomStage(handler[h])
  PROVE  FreshParts'
<1>1. UNCHANGED <<room, index, yamls, queue, worker>>
  BY DEF ValidateYaml
<1>2. /\ Others(h) /\ handler[h].pc = "validate" /\ DOMAIN handler'[h].writes = {}
      /\ \/ handler'[h] = Idle
         \/ /\ handler'[h].pc = "store"
            /\ handler[h].room.validation =>
                 /\ handler'[h].result.apworlds = ReleaseFor(handler[h].room)
                 /\ handler'[h].result.basis.apworlds = ReleaseFor(handler[h].room)
  BY ValidateFacts
<1>3. Idle.pc = "idle"
  BY DEF Idle
<1>4. handler[h].room = room
  BY <1>2 DEF RoomStage
<1>5. RequestOK(h)'
  BY <1>1, <1>2, <1>3, <1>4, RoomRelease DEF RequestOK
<1>6. \A y \in Present : ~ComingBy(h, y)
  BY <1>2 DEF ComingBy
<1> QED BY <1>1, <1>2, <1>5, <1>6, FreshReads

LEMMA FreshRevalidate ==
  ASSUME StateInv, NEW h \in Handlers, Revalidate(h), FreshParts, NewReleasesOnly, RoomStage(handler[h])
  PROVE  FreshParts'
<1>1. UNCHANGED <<room, index, yamls, queue, worker>>
  BY DEF Revalidate
<1>2. handler[h].pc = "revalidate" /\ DOMAIN handler'[h].writes = {} /\ Others(h)
  BY RevalidateFacts
<1>3. handler[h].room = room
  BY <1>2 DEF RoomStage
<1>4. /\ handler'[h].pc = "queue"
      /\ DOMAIN handler'[h].rows = {y \in Present : ShouldRevalidate(yamls[y], ReleaseFor(room), handler[h].old)}
  BY <1>3, RevalidateFacts, RoomRelease
<1>5. RequestOK(h)'
  <2>1. \A y \in Present : yamls[y] # None
    BY DEF Present
  <2> QED BY <1>1, <1>2, <1>4, <2>1 DEF RequestOK
<1>6. ASSUME NEW y \in Present, ComingBy(h, y) PROVE ComingBy(h, y)'
  <2>1. yamls[y].apworlds # Offered(index)
    BY <1>2, <1>6 DEF ComingBy, Outdated
  <2>2. yamls[y].apworlds # None
    BY RoomRelease DEF FreshParts, RowsInv
  <2>3. ShouldRevalidate(yamls[y], ReleaseFor(room), handler[h].old)
    BY <2>1, <2>2, RoomRelease DEF ShouldRevalidate
  <2> QED BY <1>4, <2>3 DEF ComingBy
<1> QED BY <1>1, <1>2, <1>5, <1>6, FreshReads

(* The steps of a request that is alone                                    *)
LEMMA FreshAlone ==
  ASSUME NEW h \in Handlers, Alone(h), FreshParts
  PROVE  \A y \in Present : Fine(y) \/ ComingBy(h, y)
<1>1. Idle.pc = "idle"
  BY DEF Idle
<1>2. \A g \in Handlers, y \in Present : ComingBy(g, y) => g = h
  BY <1>1 DEF Alone, ComingBy
<1> QED BY <1>2 DEF FreshParts

LEMMA FreshSet ==
  ASSUME NEW h \in Handlers, Others(h), Alone(h), FreshParts, room' = room, JobsInv', RowsInv', ChecksInv',
         RequestOK(h)', \A y \in Present' : Fine(y)' \/ ComingBy(h, y)'
  PROVE  FreshParts'
<1>1. Idle.pc = "idle" /\ DOMAIN Idle.writes = {}
  BY IdleFacts DEF Idle
<1>2. \A g \in Handlers : g # h => handler'[g] = Idle
  BY DEF Alone, Others
<1>3. \A g \in Handlers : RequestOK(g)'
  BY <1>1, <1>2 DEF RequestOK
<1> QED BY <1>3 DEF FreshParts

(* A new release is none that the room has had.                            *)
LEMMA NewRelease ==
  ASSUME StateInv, NewReleasesOnly, index + 1 \in Indexes, index' = index + 1
  PROVE  Seen \subseteq Seen' /\ (Offered(index') = Offered(index) \/ Offered(index') \notin Seen)
<1>1. index \in Nat /\ Indexes \subseteq Nat /\ index' \in Indexes
  BY ConstantsAssumption DEF StateInv
<1>2. Seen \subseteq Seen'
  BY <1>1 DEF Seen
<1>3. ASSUME NEW k \in Indexes, k <= index, Offered(index') = Offered(k) PROVE Offered(index') = Offered(index)
  <2>1. k <= index' /\ index <= index'
    BY <1>1, <1>3
  <2>2. \A j \in Indexes : k <= j /\ j <= index' => Offered(j) = Offered(k)
    BY <1>1, <1>3, <2>1 DEF NewReleasesOnly
  <2> QED BY <1>1, <1>3, <2>1, <2>2 DEF StateInv
<1> QED BY <1>2, <1>3 DEF Seen

LEMMA FreshRefresh ==
  ASSUME StateInv, NEW h \in Handlers, RefreshWorlds(h), Alone(h), FreshParts, NewReleasesOnly
  PROVE  FreshParts'
<1>1. /\ handler[h].pc = "idle" /\ index + 1 \in Indexes /\ index' = index + 1
      /\ UNCHANGED <<room, yamls, queue, worker>>
  BY DEF RefreshWorlds, Begin
<1>2. Others(h) /\ handler'[h].pc = "list" /\ DOMAIN handler'[h].writes = {}
  BY RefreshBegins
<1>3. Seen \subseteq Seen' /\ (Offered(index') = Offered(index) \/ Offered(index') \notin Seen)
  BY <1>1, NewRelease
<1>4. Present' = Present /\ \A job : Live(job)' <=> Live(job)
  BY <1>1, LiveSame DEF Present
<1>5. JobsInv' /\ RowsInv' /\ ChecksInv'
  BY <1>1, <1>3, <1>4 DEF FreshParts, JobsInv, RowsInv, ChecksInv
<1>6. RequestOK(h)'
  BY <1>2 DEF RequestOK
<1>7. ASSUME NEW y \in Present PROVE Fine(y)' \/ ComingBy(h, y)'
  <2>1. Fine(y)
    BY <1>1, FreshAlone DEF ComingBy
  <2>2. CASE Offered(index') = Offered(index)
    BY <1>1, <1>4, <2>1, <2>2, FineSame
  <2>3. CASE Offered(index') \notin Seen
    <3>1. yamls[y].apworlds # Offered(index') /\ \A job \in JobRecords : Live(job) => job.apworlds # Offered(index')
      BY <2>3 DEF FreshParts, RowsInv, JobsInv
    <3>2. Outdated(y)'
      BY <1>1, <1>4, <3>1 DEF Outdated, Current, Offered
    <3> QED BY <1>2, <3>2 DEF ComingBy
  <2> QED BY <1>3, <2>2, <2>3
<1> QED BY <1>1, <1>2, <1>4, <1>5, <1>6, <1>7, FreshSet

LEMMA FreshUpload ==
  ASSUME StateInv, UploadInv, NEW h \in Handlers, StoreUpload(h), Alone(h), FreshParts
  PROVE  FreshParts'
<1> PICK y : y = handler[h].yaml
  OBVIOUS
<1>1. UNCHANGED <<room, index, queue, worker>>
  BY DEF StoreUpload
<1>2. /\ StateInv' /\ Others(h) /\ handler'[h] = Idle /\ handler[h].pc = "store" /\ y \in Yamls /\ yamls[y] = None
      /\ \A z \in Yamls : z # y => yamls'[z] = yamls[z]
      /\ yamls'[y] \in Rows /\ yamls'[y].status = handler[h].result.status
      /\ yamls'[y].apworlds = handler[h].result.apworlds /\ yamls'[y].basis = handler[h].result.basis
  BY UploadStored DEF UploadInv
<1>3. Idle.pc = "idle" /\ DOMAIN Idle.writes = {}
  BY IdleFacts DEF Idle
<1>4. Present \in SUBSET Yamls /\ y \notin Present /\ Present' = Present \cup {y}
  BY <1>2, NoneAssumption DEF Present
<1>5. Seen' = Seen /\ Offered(index) \in Seen /\ Offered(index') = Offered(index)
  BY <1>1, ConstantsAssumption DEF Seen, StateInv
<1>6. \A job : Live(job)' <=> Live(job)
  BY <1>1, LiveSame
<1>7. \A job \in JobRecords : Live(job) => job.yaml # y
  BY <1>2 DEF FreshParts, JobsInv
<1>8. /\ yamls'[y].apworlds = Offered(index)
      /\ yamls'[y].status \in {"Validated", "Failed"} => yamls'[y].basis.apworlds = Offered(index)
  BY <1>2 DEF FreshParts, RequestOK
<1>9. JobsInv'
  BY <1>2, <1>5, <1>6, <1>7 DEF FreshParts, JobsInv, JobRecords
<1>10. RowsInv'
  BY <1>2, <1>4, <1>5, <1>8 DEF FreshParts, RowsInv
<1>11. ChecksInv'
  <2> SUFFICES ASSUME NEW w \in Workers, worker[w].pc \in {"version", "update"}, worker[w].job.yaml \in Present'
               PROVE  yamls'[worker[w].job.yaml].time <= worker[w].job.time
    BY <1>1 DEF ChecksInv
  <2>1. Reports(w) /\ worker[w].job \in JobRecords
    BY WorkerFacts DEF Reports
  <2>2. worker[w].job.yaml # y
    BY <1>7, <2>1 DEF Live
  <2> QED BY <1>2, <1>4, <2>2 DEF FreshParts, ChecksInv
<1>12. RequestOK(h)'
  BY <1>2, <1>3 DEF RequestOK
<1>13. Fine(y)'
  BY <1>5, <1>6, <1>7, <1>8 DEF Fine, Offered
<1>14. ASSUME NEW z \in Present PROVE Fine(z)'
  <2>1. Fine(z)
    BY <1>2, FreshAlone DEF ComingBy
  <2>2. yamls'[z] = yamls[z]
    BY <1>2, <1>4
  <2> QED BY <1>5, <1>6, <2>1, <2>2, FineSame
<1> QED BY <1>1, <1>2, <1>4, <1>9, <1>10, <1>11, <1>12, <1>13, <1>14, FreshSet

(* Statements that leave the time of a row alone and either its release,   *)
(* or put the room's in its place                                          *)
LEMMA FreshRows ==
  ASSUME StateInv, NEW h \in Handlers, Others(h), Alone(h), FreshParts,
         UNCHANGED <<room, index, queue, worker>>, RequestOK(h)', Present' = Present,
         \A y \in Yamls : yamls[y] # None => yamls'[y] # None,
         \A y \in Present :
           /\ yamls'[y].time = yamls[y].time /\ yamls'[y].apworlds \in {yamls[y].apworlds, Offered(index)}
           /\ yamls'[y].status \in {"Validated", "Failed"} => yamls'[y].basis.apworlds = yamls'[y].apworlds,
         \A y \in Present : ComingBy(h, y) => ComingBy(h, y)'
  PROVE  FreshParts'
<1>1. Seen' = Seen /\ Offered(index) \in Seen /\ Offered(index') = Offered(index)
  BY ConstantsAssumption DEF Seen, StateInv
<1>2. \A job : Live(job)' <=> Live(job)
  BY LiveSame
<1>3. JobsInv'
  BY <1>1, <1>2 DEF FreshParts, JobsInv, JobRecords
<1>4. RowsInv'
  BY <1>1 DEF FreshParts, RowsInv
<1>5. ChecksInv'
  BY DEF FreshParts, ChecksInv
<1>6. ASSUME NEW y \in Present PROVE Fine(y)' \/ ComingBy(h, y)'
  <2>1. Fine(y) => Fine(y)'
    BY <1>1, <1>2, FineSame
  <2> QED BY <2>1, FreshAlone
<1> QED BY <1>3, <1>4, <1>5, <1>6, FreshSet

LEMMA FreshEdit ==
  ASSUME StateInv, NEW h \in Handlers, StoreEdit(h), Alone(h), FreshParts
  PROVE  FreshParts'
<1> PICK y : y = handler[h].yaml
  OBVIOUS
<1>1. UNCHANGED <<room, index, queue, worker>>
  BY DEF StoreEdit
<1>2. /\ StateInv' /\ Others(h) /\ handler'[h] = Idle /\ handler[h].pc = "store" /\ y \in Yamls
      /\ \A z \in Yamls : z # y \/ z \notin Present => yamls'[z] = yamls[z]
      /\ y \in Present =>
           /\ yamls'[y] \in Rows /\ yamls'[y].status = handler[h].result.status /\ yamls'[y].time = yamls[y].time
           /\ yamls'[y].apworlds = handler[h].result.apworlds /\ yamls'[y].basis = handler[h].result.basis
  BY EditStored
<1>3. Idle.pc = "idle" /\ DOMAIN Idle.writes = {}
  BY IdleFacts DEF Idle
<1>4. Present \in SUBSET Yamls /\ Present' = Present
  BY <1>2, NoneAssumption DEF Present
<1>5. /\ handler[h].result.apworlds = Offered(index)
      /\ handler[h].result.status \in {"Validated", "Failed"} => handler[h].result.basis.apworlds = Offered(index)
  BY <1>2 DEF FreshParts, RequestOK
<1>6. ASSUME NEW z \in Present
      PROVE  /\ yamls'[z].time = yamls[z].time /\ yamls'[z].apworlds \in {yamls[z].apworlds, Offered(index)}
             /\ yamls'[z].status \in {"Validated", "Failed"} => yamls'[z].basis.apworlds = yamls'[z].apworlds
  BY <1>2, <1>4, <1>5 DEF FreshParts, RowsInv
<1>7. \A z \in Yamls : yamls[z] # None => yamls'[z] # None
  BY <1>2, NoneAssumption
<1>8. RequestOK(h)'
  BY <1>2, <1>3 DEF RequestOK
<1>9. \A z \in Present : ~ComingBy(h, z)
  BY <1>2 DEF ComingBy
<1> QED BY <1>1, <1>2, <1>4, <1>6, <1>7, <1>8, <1>9, FreshRows

LEMMA FreshReset ==
  ASSUME StateInv, NEW h \in Handlers, QueueReset(h), Alone(h), FreshParts
  PROVE  FreshParts'
<1> PICK y : y = First(h)
  OBVIOUS
<1>1. UNCHANGED <<room, index, queue, worker>>
  BY DEF QueueReset
<1>2. /\ StateInv' /\ Others(h) /\ handler[h].pc = "queue" /\ handler'[h].pc = "enqueue" /\ y \in Yamls
      /\ handler'[h].rows = handler[h].rows
      /\ \A z \in Yamls : z # y => yamls'[z] = yamls[z]
      /\ \A z \in DOMAIN handler[h].writes : z # y => handler'[h].writes[z] = handler[h].writes[z]
      /\ \/ handler'[h].writes = handler[h].writes /\ yamls'[y] = yamls[y]
         \/ /\ y \in Present /\ yamls'[y] = yamls[y]
            /\ DOMAIN handler'[h].writes = DOMAIN handler[h].writes \cup {y}
            /\ handler'[h].writes[y] = Reset(yamls[y])
         \/ y \in Present /\ handler'[h].writes = handler[h].writes /\ yamls'[y] = Reset(yamls[y])
  BY ResetQueued
<1>3. y \in Present =>
        /\ Reset(yamls[y]) \in Rows /\ Reset(yamls[y]).status = "Unknown"
        /\ Reset(yamls[y]).apworlds = yamls[y].apworlds /\ Reset(yamls[y]).time = yamls[y].time
  BY <1>2, PresentFacts, ResetFacts
<1>4. Present \in SUBSET Yamls /\ Present' = Present
  BY <1>2, <1>3, NoneAssumption DEF Present
<1>5. ASSUME NEW z \in Present
      PROVE  /\ yamls'[z].time = yamls[z].time /\ yamls'[z].apworlds \in {yamls[z].apworlds, Offered(index)}
             /\ yamls'[z].status \in {"Validated", "Failed"} => yamls'[z].basis.apworlds = yamls'[z].apworlds
  BY <1>2, <1>3, <1>4 DEF FreshParts, RowsInv
<1>6. \A z \in Yamls : yamls[z] # None => yamls'[z] # None
  BY <1>2, <1>3, NoneAssumption
<1>7. RequestOK(h)'
  <2>0. DOMAIN handler[h].rows \in SUBSET Yamls
    BY MapFacts DEF StateInv, Locals
  <2>1. \A z \in DOMAIN handler'[h].rows : yamls'[z] # None
    BY <1>2, <1>6, <2>0 DEF FreshParts, RequestOK
  <2>2. \A z \in DOMAIN handler[h].writes : handler[h].writes[z].status \notin {"Unsupported", "Failed"}
    BY DEF FreshParts, RequestOK
  <2>3. \A z \in DOMAIN handler'[h].writes : handler'[h].writes[z].status \notin {"Unsupported", "Failed"}
    BY <1>2, <1>3, <2>2
  <2> QED BY <1>2, <2>1, <2>3 DEF RequestOK
<1>8. \A z \in Present : ComingBy(h, z) => ComingBy(h, z)'
  BY <1>2 DEF ComingBy
<1> QED BY <1>1, <1>2, <1>4, <1>5, <1>6, <1>7, <1>8, FreshRows

LEMMA FreshQueued ==
  ASSUME StateInv, HeldInv, WritesInv, NEW h \in Handlers, Queued(h), Alone(h), FreshParts
  PROVE  FreshParts'
<1>1. UNCHANGED <<room, index, queue, worker>>
  BY DEF Queued
<1>2. /\ StateInv' /\ Others(h) /\ handler'[h] = Idle /\ handler[h].pc = "queue" /\ DOMAIN handler[h].rows = {}
      /\ DOMAIN handler[h].writes \in SUBSET Yamls
  BY QueuedFacts
<1>3. ASSUME NEW y \in Yamls
      PROVE  yamls'[y] = IF y \in DOMAIN handler[h].writes THEN Reset(yamls[y]) ELSE yamls[y]
  <2>1. y \in DOMAIN handler[h].writes => handler[h].writes[y] = Reset(yamls[y])
    BY DEF WritesInv, FreshParts, RequestOK
  <2>2. yamls'[y] = IF y \in DOMAIN handler[h].writes THEN handler[h].writes[y] ELSE yamls[y]
    BY DEF Queued
  <2> QED BY <2>1, <2>2
<1>4. ASSUME NEW y \in Present
      PROVE  /\ Reset(yamls[y]) \in Rows /\ Reset(yamls[y]).status = "Unknown"
             /\ Reset(yamls[y]).apworlds = yamls[y].apworlds /\ Reset(yamls[y]).time = yamls[y].time
  BY PresentFacts, ResetFacts
<1>5. DOMAIN handler[h].writes \subseteq Present
  BY DEF HeldInv
<1>6. Present \in SUBSET Yamls /\ Present' = Present
  BY <1>3, <1>4, <1>5, NoneAssumption DEF Present
<1>7. \A y \in Yamls : yamls[y] # None => yamls'[y] # None
  BY <1>3, <1>4, <1>5, NoneAssumption
<1>8. ASSUME NEW y \in Present
      PROVE  /\ yamls'[y].time = yamls[y].time /\ yamls'[y].apworlds \in {yamls[y].apworlds, Offered(index)}
             /\ yamls'[y].status \in {"Validated", "Failed"} => yamls'[y].basis.apworlds = yamls'[y].apworlds
  BY <1>3, <1>4, <1>6 DEF FreshParts, RowsInv
<1>9. RequestOK(h)'
  BY <1>2, IdleFacts DEF RequestOK, Idle
<1>10. \A y \in Present : ~ComingBy(h, y)
  BY <1>2 DEF ComingBy
<1> QED BY <1>1, <1>2, <1>6, <1>7, <1>8, <1>9, <1>10, FreshRows

LEMMA FreshEnqueue ==
  ASSUME StateInv, TimeInv, NEW h \in Handlers, Enqueue(h), Alone(h), FreshParts, RoomStage(handler[h]), NewReleasesOnly
  PROVE  FreshParts'
<1> PICK y : y = First(h)
  OBVIOUS
<1>1. UNCHANGED <<room, index, yamls, worker>>
  BY DEF Enqueue
<1>2. /\ StateInv' /\ Others(h) /\ handler[h].pc = "enqueue" /\ handler'[h].pc = "queue" /\ y \in Yamls
      /\ y \in DOMAIN handler[h].rows /\ handler'[h].writes = handler[h].writes
      /\ DOMAIN handler'[h].rows = DOMAIN handler[h].rows \ {y} /\ clock < clock' /\ clock' \in Nat
  BY EnqueueFacts
<1>3. PICK c \in JobRecords : /\ queue' = queue \cup {c} /\ c.yaml = y /\ c.version = handler[h].room.version
                              /\ c.apworlds = handler[h].result /\ c.time = clock'
  BY EnqueueFacts
<1>4. Seen' = Seen /\ Offered(index) \in Seen /\ Offered(index') = Offered(index) /\ Present' = Present
  BY <1>1, ConstantsAssumption DEF Seen, StateInv, Present
<1>5. c.version = FirstVersion /\ c.apworlds = Offered(index)
  <2>1. handler[h].room = room /\ handler[h].result = ReleaseFor(room)
    BY <1>2 DEF RoomStage
  <2> QED BY <1>3, <2>1, RoomRelease DEF FreshParts
<1>6. \A job : Live(job)' <=> Live(job) \/ job = c
  BY <1>1, <1>3 DEF Live, Reports
<1>7. JobsInv'
  <2>1. yamls[y] # None
    BY <1>2 DEF FreshParts, RequestOK
  <2> QED BY <1>1, <1>3, <1>4, <1>5, <1>6, <2>1 DEF FreshParts, JobsInv
<1>8. RowsInv' /\ ChecksInv'
  BY <1>1, <1>4 DEF FreshParts, RowsInv, ChecksInv
<1>9. RequestOK(h)'
  BY <1>1, <1>2 DEF FreshParts, RequestOK
<1>10. ASSUME y \in Present PROVE Fine(y)'
  <2>1. Current(c, y)'
    BY <1>3, <1>4, <1>5, <1>6 DEF Current, Offered
  <2>2. yamls[y].time \in Nat /\ yamls[y].time <= clock /\ clock \in Nat
    BY <1>10, PresentFacts DEF TimeInv, Rows, StateInv
  <2>3. yamls'[y].time <= c.time
    BY <1>1, <1>2, <1>3, <2>2
  <2>4. ASSUME NEW job \in JobRecords, Live(job)', job.apworlds # Offered(index)' PROVE job.time < c.time
    <3>1. Live(job)
      BY <1>4, <1>5, <1>6, <2>4 DEF Offered
    <3>2. job.time <= clock /\ job.time \in Nat
      BY <3>1 DEF TimeInv, JobRecords
    <3> QED BY <1>2, <1>3, <2>2, <3>2
  <2> QED BY <2>1, <2>3, <2>4 DEF Fine
<1>11. ASSUME NEW z \in Present, z # y PROVE Fine(z)' \/ ComingBy(h, z)'
  <2>1. Fine(z) => Fine(z)'
    BY <1>1, <1>3, <1>4, <1>6, <1>11, FineSame
  <2>2. ComingBy(h, z) => ComingBy(h, z)'
    BY <1>2, <1>11 DEF ComingBy
  <2> QED BY <2>1, <2>2, FreshAlone
<1> QED BY <1>1, <1>2, <1>4, <1>7, <1>8, <1>9, <1>10, <1>11, FreshSet

-----------------------------------------------------------------------------
(* Verdicts are on the room's release: deletions and answers               *)

LEMMA FreshKept ==
  ASSUME StateInv, FreshParts, UNCHANGED <<room, index, handler>>, JobsInv', RowsInv', ChecksInv', Present' \subseteq Present,
         \A y \in Yamls : yamls[y] # None => yamls'[y] # None,
         \A y \in Present' : (Fine(y) => Fine(y)') /\ (Outdated(y) => Outdated(y)')
  PROVE  FreshParts'
<1>1. \A h \in Handlers : RequestOK(h)'
  BY RequestsKept DEF FreshParts
<1>2. ASSUME NEW y \in Present', NEW h \in Handlers, ComingBy(h, y) PROVE ComingBy(h, y)'
  BY <1>2 DEF ComingBy
<1>3. ASSUME NEW y \in Present' PROVE Fine(y)' \/ \E h \in Handlers : ComingBy(h, y)'
  BY <1>2 DEF FreshParts
<1> QED BY <1>1, <1>3 DEF FreshParts

LEMMA FreshDelete ==
  ASSUME StateInv, NEW h \in Handlers, NEW y \in Yamls, DeleteYaml(h, y), FreshParts
  PROVE  FreshParts'
<1>1. UNCHANGED <<room, index, queue, worker, handler>>
  BY DEF DeleteYaml
<1>2. y \in Present /\ yamls'[y] = Deleted /\ \A z \in Yamls : z # y => yamls'[z] = yamls[z]
  BY DeleteFacts
<1>3. Present \in SUBSET Yamls /\ Present' = Present \ {y}
  BY <1>2 DEF Present
<1>4. Seen' = Seen /\ Offered(index') = Offered(index) /\ \A job : Live(job)' <=> Live(job)
  BY <1>1, LiveSame DEF Seen
<1>5. \A z \in Yamls : yamls[z] # None => yamls'[z] # None
  BY <1>2, NoneAssumption
<1>6. JobsInv'
  BY <1>4, <1>5 DEF FreshParts, JobsInv, JobRecords
<1>7. RowsInv' /\ ChecksInv'
  BY <1>1, <1>2, <1>3, <1>4 DEF FreshParts, RowsInv, ChecksInv
<1>8. ASSUME NEW z \in Present' PROVE (Fine(z) => Fine(z)') /\ (Outdated(z) => Outdated(z)')
  <2>1. yamls'[z] = yamls[z]
    BY <1>2, <1>3
  <2> QED BY <1>1, <1>4, <2>1, FineSame, OutdatedSame
<1> QED BY <1>1, <1>3, <1>5, <1>6, <1>7, <1>8, FreshKept

LEMMA FreshResolve ==
  ASSUME StateInv, NEW w \in Workers, NEW job \in queue, WorkerResolves(w, job), FreshParts
  PROVE  FreshParts'
<1>1. UNCHANGED <<room, index, yamls, handler>> /\ queue' = queue \ {job}
  BY DEF WorkerResolves
<1>2. /\ ~Reports(w) /\ worker'[w] \in Reporting /\ worker'[w].job = job
      /\ \A v \in Workers : v # w => worker'[v] = worker[v]
  BY ResolveFacts
<1>3. worker'[w].pc = "read"
  <2>1. PICK status \in {"Validated", "Failed"} : SetWorker(w, [pc |-> "read", job |-> job, status |-> status])
    BY DEF WorkerResolves
  <2> QED BY <2>1 DEF SetWorker, StateInv
<1>4. \A j : Live(j)' <=> Live(j)
  BY <1>1, <1>2, <1>3 DEF Live, Reports
<1>5. Seen' = Seen /\ Offered(index') = Offered(index) /\ Present' = Present
  BY <1>1 DEF Seen, Present
<1>6. JobsInv' /\ RowsInv'
  BY <1>1, <1>4, <1>5 DEF FreshParts, JobsInv, RowsInv
<1>7. ChecksInv'
  BY <1>1, <1>2, <1>3, <1>5 DEF FreshParts, ChecksInv
<1>8. \A y \in Present' : (Fine(y) => Fine(y)') /\ (Outdated(y) => Outdated(y)')
  BY <1>1, <1>4, <1>5, FineSame, OutdatedSame
<1> QED BY <1>1, <1>5, <1>6, <1>7, <1>8, FreshKept

(* An answer leaves a worker: no other does, and none comes.               *)
LEMMA AnswerLeaves ==
  ASSUME StateInv, NEW w \in Workers, Reports(w), worker'[w] = WorkerIdle, queue' = queue,
         \A v \in Workers : v # w => worker'[v] = worker[v]
  PROVE  \A job : (Live(job)' => Live(job)) /\ (Live(job) /\ job # worker[w].job => Live(job)')
<1>1. WorkerIdle.pc = "idle"
  BY DEF WorkerIdle
<1> QED BY <1>1 DEF Live, Reports

(* A result that is dropped comes too late.                                *)
LEMMA FineDropped ==
  ASSUME StateInv, NEW y \in Present, Fine(y), NEW d \in JobRecords, d.yaml = y => d.time < yamls[y].time,
         UNCHANGED <<index, yamls>>,
         \A job : (Live(job)' => Live(job)) /\ (Live(job) /\ job # d => Live(job)')
  PROVE  Fine(y)'
<1>0. Offered(index') = Offered(index) /\ yamls'[y] = yamls[y]
  OBVIOUS
<1>1. yamls[y].time \in Nat /\ \A job \in JobRecords : job.time \in Nat
  BY PresentFacts DEF Rows, JobRecords
<1>2. \A c \in JobRecords : Current(c, y) /\ c # d => Current(c, y)'
  BY DEF Current, Offered
<1>3. yamls[y].apworlds = Offered(index) \/ \E c \in JobRecords : Current(c, y)' /\ yamls[y].time <= c.time
  <2>1. ASSUME NEW c \in JobRecords, Current(c, y), yamls[y].time <= c.time PROVE Current(c, y)'
    BY <1>1, <1>2, <2>1 DEF Current
  <2> QED BY <2>1 DEF Fine
<1>4. ASSUME NEW job \in JobRecords, Live(job)', job.yaml = y, job.apworlds # Offered(index)
      PROVE  job.time < yamls[y].time \/ \E c \in JobRecords : Current(c, y)' /\ job.time < c.time
  <2>1. ASSUME NEW c \in JobRecords, Current(c, y), job.time < c.time
        PROVE  job.time < yamls[y].time \/ Current(c, y)'
    BY <1>1, <1>2, <2>1 DEF Current
  <2> QED BY <1>4, <2>1 DEF Fine
<1> QED BY <1>0, <1>3, <1>4 DEF Fine, Offered

LEMMA FreshCheck ==
  ASSUME StateInv, NEW w \in Workers, CallbackRead(w) \/ CallbackVersion(w), FreshParts
  PROVE  FreshParts'
<1> PICK d : d = worker[w].job
  OBVIOUS
<1>1. /\ Reports(w) /\ worker[w] \in Reporting /\ UNCHANGED <<room, index, yamls, queue, handler>>
      /\ \A v \in Workers : v # w => worker'[v] = worker[v]
      /\ \/ worker'[w] \in Reporting /\ worker'[w].job = d
         \/ /\ worker'[w] = WorkerIdle
            /\ \/ d.yaml \notin Present
               \/ ~(yamls[d.yaml].time <= d.time)
               \/ d.version # room.version
  BY CheckFacts
<1>2. d \in JobRecords /\ Live(d) /\ d.time \in Nat /\ d.version = room.version /\ WorkerIdle.pc = "idle"
  <2>1. d \in JobRecords /\ Live(d)
    BY <1>1 DEF Live, Reporting
  <2> QED BY <2>1 DEF FreshParts, JobsInv, WorkerIdle, JobRecords
<1>3. worker'[w] = WorkerIdle \/ (d.yaml \in Present => yamls[d.yaml].time <= d.time)
  <2>1. CASE CallbackRead(w)
    BY <2>1 DEF CallbackRead, SetWorker, StateInv
  <2>2. CASE CallbackVersion(w)
    <3>1. worker[w].pc = "version"
      BY <2>2 DEF CallbackVersion
    <3> QED BY <3>1 DEF FreshParts, ChecksInv
  <2> QED BY <2>1, <2>2
<1>4. Seen' = Seen /\ Offered(index') = Offered(index) /\ Present' = Present
  BY <1>1 DEF Seen, Present
<1>5. ChecksInv'
  BY <1>1, <1>2, <1>3, <1>4 DEF FreshParts, ChecksInv
<1>6. CASE worker'[w] \in Reporting /\ worker'[w].job = d
  <2>1. worker'[w].pc # "idle"
    BY <1>6 DEF Reporting
  <2>2. \A j : Live(j)' <=> Live(j)
    BY <1>1, <1>6, <2>1 DEF Live, Reports
  <2>3. JobsInv' /\ RowsInv'
    BY <1>1, <1>4, <2>2 DEF FreshParts, JobsInv, RowsInv
  <2>4. \A y \in Present' : (Fine(y) => Fine(y)') /\ (Outdated(y) => Outdated(y)')
    BY <1>1, <1>4, <2>2, FineSame, OutdatedSame
  <2> QED BY <1>1, <1>4, <1>5, <2>3, <2>4, FreshKept
<1>7. CASE worker'[w] = WorkerIdle /\ (d.yaml \notin Present \/ ~(yamls[d.yaml].time <= d.time))
  <2>1. \A j : (Live(j)' => Live(j)) /\ (Live(j) /\ j # d => Live(j)')
    BY <1>1, <1>7, AnswerLeaves
  <2>2. JobsInv' /\ RowsInv'
    BY <1>1, <1>4, <2>1 DEF FreshParts, JobsInv, RowsInv
  <2>3. ASSUME NEW y \in Present, Fine(y) PROVE Fine(y)'
    <3>1. yamls[y].time \in Nat
      BY PresentFacts DEF Rows
    <3>2. d.yaml = y => d.time < yamls[y].time
      BY <1>2, <1>7, <3>1
    <3> QED BY <1>1, <1>2, <2>1, <2>3, <3>2, FineDropped
  <2>4. ASSUME NEW y \in Present, Outdated(y) PROVE Outdated(y)'
    BY <1>1, <2>1, <2>4, OutdatedSame
  <2> QED BY <1>1, <1>4, <1>5, <2>2, <2>3, <2>4, FreshKept
<1> QED BY <1>1, <1>2, <1>6, <1>7

(* A result that is written: it is on the room's release, or one that is   *)
(* will follow.                                                            *)
LEMMA FineWritten ==
  ASSUME StateInv, NEW y \in Present, Fine(y), NEW d \in JobRecords, d.yaml = y, Live(d), yamls[y].time <= d.time,
         index' = index, yamls'[y].apworlds = d.apworlds, yamls'[y].time = d.time,
         \A job : (Live(job)' => Live(job)) /\ (Live(job) /\ job # d => Live(job)')
  PROVE  Fine(y)'
<1>0. Offered(index') = Offered(index)
  OBVIOUS
<1>1. yamls[y].time \in Nat /\ \A job \in JobRecords : job.time \in Nat
  BY PresentFacts DEF Rows, JobRecords
<1>2. \A c \in JobRecords : Current(c, y) /\ c # d => Current(c, y)'
  BY DEF Current, Offered
<1>3. d.apworlds = Offered(index) \/ \E c \in JobRecords : Current(c, y)' /\ d.time <= c.time
  <2>1. CASE d.apworlds # Offered(index)
    <3>1. ~(d.time < yamls[y].time)
      BY <1>1
    <3>2. PICK c \in JobRecords : Current(c, y) /\ d.time < c.time
      BY <2>1, <3>1 DEF Fine
    <3>3. c # d /\ d.time <= c.time
      BY <1>1, <3>2
    <3> QED BY <1>2, <3>2, <3>3
  <2> QED BY <2>1
<1>4. ASSUME NEW job \in JobRecords, Live(job)', job.yaml = y, job.apworlds # Offered(index)
      PROVE  job.time < d.time \/ \E c \in JobRecords : Current(c, y)' /\ job.time < c.time
  <2>1. ASSUME NEW c \in JobRecords, Current(c, y), job.time < c.time
        PROVE  job.time < d.time \/ Current(c, y)'
    BY <1>2, <2>1
  <2>2. job.time < yamls[y].time => job.time < d.time
    BY <1>1
  <2> QED BY <1>4, <2>1, <2>2 DEF Fine
<1> QED BY <1>0, <1>3, <1>4 DEF Fine, Offered

LEMMA FreshUpdate ==
  ASSUME StateInv, NEW w \in Workers, CallbackUpdate(w), \A v \in Workers : v # w => ~Reports(v), FreshParts
  PROVE  FreshParts'
<1> PICK d : d = worker[w].job
  OBVIOUS
<1>1. /\ UNCHANGED <<room, index, queue, handler>> /\ worker[w].pc = "update"
  BY DEF CallbackUpdate
<1>2. /\ StateInv' /\ Reports(w) /\ worker[w] \in Reporting /\ worker'[w] = WorkerIdle
      /\ \A v \in Workers : v # w => worker'[v] = worker[v]
      /\ \A y \in Yamls : y # d.yaml \/ y \notin Present => yamls'[y] = yamls[y]
      /\ d.yaml \in Present =>
           /\ yamls'[d.yaml] \in Rows /\ yamls'[d.yaml].apworlds = d.apworlds
           /\ yamls'[d.yaml].time = d.time /\ yamls'[d.yaml].basis.apworlds = d.apworlds
  BY UpdateFacts
<1>3. d \in JobRecords /\ Live(d) /\ d.yaml \in Yamls /\ d.apworlds \in Seen
  <2>1. d \in JobRecords /\ Live(d)
    BY <1>2 DEF Live, Reporting
  <2> QED BY <2>1 DEF FreshParts, JobsInv, JobRecords
<1>4. \A j : (Live(j)' => Live(j)) /\ (Live(j) /\ j # d => Live(j)')
  BY <1>1, <1>2, AnswerLeaves
<1>5. Seen' = Seen /\ Offered(index') = Offered(index) /\ Present \in SUBSET Yamls /\ Present' = Present
  BY <1>1, <1>2, <1>3, NoneAssumption DEF Seen, Present
<1>6. \A y \in Yamls : yamls[y] # None => yamls'[y] # None
  BY <1>2, NoneAssumption
<1>7. JobsInv'
  BY <1>4, <1>5, <1>6 DEF FreshParts, JobsInv, JobRecords
<1>8. RowsInv'
  BY <1>2, <1>3, <1>5 DEF FreshParts, RowsInv
<1>9. ChecksInv'
  BY <1>2 DEF ChecksInv, Reports, WorkerIdle
<1>10. ASSUME NEW y \in Present PROVE (Fine(y) => Fine(y)') /\ (Outdated(y) => Outdated(y)')
  <2>1. CASE y # d.yaml
    <3>1. yamls'[y] = yamls[y] /\ \A j : j.yaml = y => (Live(j)' <=> Live(j))
      BY <1>2, <1>4, <1>5, <2>1
    <3> QED BY <1>1, <1>5, <3>1, FineSame, OutdatedSame
  <2>2. CASE y = d.yaml
    <3>1. yamls[y].time <= d.time
      BY <1>1, <2>2 DEF FreshParts, ChecksInv
    <3>2. Fine(y) => Fine(y)'
      BY <1>1, <1>2, <1>3, <1>4, <2>2, <3>1, FineWritten
    <3>3. ASSUME Outdated(y) PROVE Outdated(y)'
      <4>1. d.apworlds # Offered(index)
        BY <1>3, <2>2, <3>3 DEF Outdated, Current
      <4> QED BY <1>1, <1>2, <1>4, <2>2, <3>3, <4>1 DEF Outdated, Current, Offered
    <3> QED BY <3>2, <3>3
  <2> QED BY <2>1, <2>2
<1> QED BY <1>1, <1>5, <1>6, <1>7, <1>8, <1>9, <1>10, FreshKept

-----------------------------------------------------------------------------
(* Verdicts are on the room's release                                      *)

(* Only requests that the property excepts change the room.                *)
LEMMA CalmRequests ==
  ASSUME StateInv, PastInv, PastInv', past \subseteq past', past' \subseteq {"retry"}, NEW h \in Handlers
  PROVE  /\ \A manifest \in Manifests, validation \in BOOLEAN : ~EditRoom(h, manifest, validation)
         /\ \A target \in Versions : ~SwitchBase(h, target)
         /\ ~UpdateRoomReset(h) /\ ~UpdateRoom(h) /\ ~SwitchCommit(h) /\ ~SwitchReread(h)
<1>1. handler[h].kind \notin {"editRoom", "switch"} /\ handler'[h].kind \notin {"editRoom", "switch"}
  BY DEF PastInv, Happening
<1>2. handler[h].pc \notin {"reset", "write", "commit", "reread"}
  BY <1>1 DEF StateInv, StageOK
<1>3. ASSUME NEW manifest \in Manifests, NEW validation \in BOOLEAN, EditRoom(h, manifest, validation) PROVE FALSE
  BY <1>1, <1>3, RoomEditBegins
<1>4. ASSUME NEW target \in Versions, SwitchBase(h, target) PROVE FALSE
  BY <1>1, <1>4, MoveBegins
<1>5. ~UpdateRoomReset(h) /\ ~UpdateRoom(h) /\ ~SwitchCommit(h) /\ ~SwitchReread(h)
  BY <1>2 DEF UpdateRoomReset, UpdateRoom, SwitchCommit, SwitchReread
<1> QED BY <1>3, <1>4, <1>5

LEMMA FreshRequest ==
  ASSUME StateInv, HeldInv, UploadInv, TimeInv, PastInv, PastInv', past \subseteq past', Calm', NEW h \in Handlers,
         HandlerStep(h), \A y \in Yamls : ~DeleteYaml(h, y), Alone(h), KnownParts, FreshParts
  PROVE  FreshParts'
<1>0. NewReleasesOnly /\ RoomStage(handler[h]) /\ WritesInv /\ past' \subseteq {"retry"}
  BY DEF Calm, NewReleasesOnly, KnownParts
<1>1. CASE \E y \in Yamls : UploadYaml(h, y) \/ EditYaml(h, y) \/ RetryYaml(h, y)
  BY <1>1, FreshBegins
<1>2. CASE RefreshWorlds(h)
  BY <1>0, <1>2, FreshRefresh
<1>3. CASE ListRooms(h)
  BY <1>3, FreshList
<1>4. CASE Revalidate(h)
  BY <1>0, <1>4, FreshRevalidate
<1>5. CASE ValidateYaml(h)
  BY <1>0, <1>5, FreshValidate
<1>6. CASE StoreUpload(h)
  BY <1>6, FreshUpload
<1>7. CASE StoreEdit(h)
  BY <1>7, FreshEdit
<1>8. CASE QueueUnsupported(h)
  <2>1. handler[h].pc = "queue" /\ ReleaseFor(handler[h].room) = None
    BY <1>8 DEF QueueUnsupported
  <2>2. handler[h].room = room
    BY <1>0, <2>1 DEF RoomStage
  <2> QED BY <1>0, <2>1, <2>2, RoomRelease, NoneAssumption
<1>9. CASE QueueReset(h)
  BY <1>9, FreshReset
<1>10. CASE Enqueue(h)
  BY <1>0, <1>10, FreshEnqueue
<1>11. CASE Queued(h)
  BY <1>0, <1>11, FreshQueued
<1>12. /\ \A manifest \in Manifests, validation \in BOOLEAN : ~EditRoom(h, manifest, validation)
       /\ \A target \in Versions : ~SwitchBase(h, target)
       /\ ~UpdateRoomReset(h) /\ ~UpdateRoom(h) /\ ~SwitchCommit(h) /\ ~SwitchReread(h)
  BY <1>0, CalmRequests
<1> QED BY <1>1, <1>2, <1>3, <1>4, <1>5, <1>6, <1>7, <1>8, <1>9, <1>10, <1>11, <1>12 DEF HandlerStep

LEMMA FreshStep ==
  ASSUME ValidationInv, FreshInv, [Next]_validationVars
  PROVE  FreshInv'
<1> SUFFICES ASSUME Calm' PROVE FreshParts'
  BY DEF FreshInv
<1>0. StateInv /\ HeldInv /\ UploadInv /\ TimeInv /\ PastInv /\ past \subseteq HappeningKinds
  BY DEF ValidationInv, TypeInv, HappeningKinds
<1>1. StateInv' /\ PastInv' /\ past \subseteq past'
  BY <1>0, StepState, PastStep, StepPast
<1>2. past \subseteq {"retry"} /\ past' \subseteq {"retry"} /\ Regular /\ Regular'
  BY <1>1 DEF Calm, Regular
<1>3. Calm /\ NewReleasesOnly
  BY <1>2 DEF Calm, NewReleasesOnly
<1>4. FreshParts /\ KnownParts
  BY <1>2, <1>3 DEF FreshInv, ValidationInv, KnownInv
<1>5. ASSUME NEW h \in Handlers, HandlerStep(h), \A y \in Yamls : ~DeleteYaml(h, y) PROVE FreshParts'
  <2>1. Others(h) /\ (handler[h].pc # "idle" \/ handler'[h].pc # "idle")
    BY <1>0, <1>5, HandlerBusy DEF Request
  <2>2. Alone(h)
    BY <1>0, <1>1, <1>2, <2>1, IsAlone
  <2> QED BY <1>0, <1>1, <1>4, <1>5, <2>2, FreshRequest
<1>6. ASSUME NEW h \in Handlers, NEW y \in Yamls, DeleteYaml(h, y) PROVE FreshParts'
  BY <1>0, <1>4, <1>6, FreshDelete
<1>7. ASSUME NEW w \in Workers, WorkerStep(w) PROVE FreshParts'
  <2>1. CASE CallbackUpdate(w)
    <3>1. Reports(w)
      BY <2>1 DEF CallbackUpdate, Reports
    <3>2. \A v \in Workers : v # w => ~Reports(v)
      BY <1>0, <1>2, <3>1 DEF PastInv, Happening
    <3> QED BY <1>0, <1>4, <2>1, <3>2, FreshUpdate
  <2> QED BY <1>0, <1>4, <1>7, <2>1, FreshResolve, FreshCheck DEF WorkerStep
<1>8. CASE UNCHANGED validationVars
  <2>1. UNCHANGED <<room, index, yamls, queue, worker, handler>>
    BY <1>8 DEF validationVars
  <2>2. Seen' = Seen /\ Offered(index') = Offered(index) /\ Present' = Present /\ \A job : Live(job)' <=> Live(job)
    BY <2>1, LiveSame DEF Seen, Present
  <2>3. JobsInv' /\ RowsInv' /\ ChecksInv'
    BY <1>4, <2>1, <2>2 DEF FreshParts, JobsInv, RowsInv, ChecksInv
  <2>4. \A y \in Present' : (Fine(y) => Fine(y)') /\ (Outdated(y) => Outdated(y)')
    BY <2>1, <2>2, FineSame, OutdatedSame
  <2> QED BY <1>0, <1>4, <2>1, <2>2, <2>3, <2>4, FreshKept
<1>9. "failure" \notin past' /\ "unreadable" \notin past'
  BY <1>2
<1> QED BY <1>5, <1>6, <1>7, <1>8, <1>9 DEF Next

LEMMA InitFresh == Init => FreshInv
<1> SUFFICES ASSUME Init, NewReleasesOnly PROVE FreshParts
  BY DEF FreshInv, Calm
<1>1. /\ queue = {} /\ (\A h \in Handlers : handler[h] = Idle) /\ (\A w \in Workers : worker[w] = WorkerIdle)
      /\ room = [version |-> FirstVersion, manifest |-> FirstManifest, validation |-> TRUE] /\ index = 0
  BY DEF Init
<1>2. Idle.pc = "idle" /\ WorkerIdle.pc = "idle" /\ DOMAIN Idle.writes = {}
  BY IdleFacts DEF Idle, WorkerIdle
<1>3. \A job : ~Live(job)
  BY <1>1, <1>2 DEF Live, Reports
<1>4. ASSUME NEW y \in Present PROVE yamls[y].apworlds = Offered(0) /\ yamls[y].basis.apworlds = Offered(0)
  <2>1. y \in Yamls /\ yamls[y] # None
    BY DEF Present
  <2> QED BY <2>1 DEF Init, Basis, Offered
<1>5. Offered(0) \in Seen
  BY <1>1, ConstantsAssumption DEF Seen
<1>6. JobsInv /\ RowsInv /\ ChecksInv
  BY <1>1, <1>2, <1>3, <1>4, <1>5 DEF JobsInv, RowsInv, ChecksInv
<1>7. \A h \in Handlers : RequestOK(h)
  BY <1>1, <1>2 DEF RequestOK
<1>8. \A y \in Present : Fine(y)
  BY <1>1, <1>3, <1>4 DEF Fine
<1> QED BY <1>1, <1>6, <1>7, <1>8 DEF FreshParts

LEMMA FreshVerdicts == StateInv /\ FreshInv => VerdictOnRoomRelease
<1> SUFFICES ASSUME StateInv, FreshInv, Quiet, Calm, NEW y \in Judgements
             PROVE  yamls[y].basis.apworlds = ReleaseFor(room)
  BY DEF VerdictOnRoomRelease, Calm
<1>1. FreshParts /\ y \in Present /\ yamls[y].status \in {"Validated", "Failed"}
  BY DEF FreshInv, Judgements
<1>2. \A job : ~Live(job)
  BY DEF Live, Quiet
<1>3. \A h \in Handlers : ~ComingBy(h, y)
  BY DEF ComingBy, Quiet, Busy
<1>4. Fine(y)
  BY <1>1, <1>3 DEF FreshParts
<1>5. yamls[y].apworlds = Offered(index)
  BY <1>2, <1>4 DEF Fine, Current
<1>6. yamls[y].basis.apworlds = yamls[y].apworlds
  BY <1>1 DEF FreshParts, RowsInv
<1> QED BY <1>1, <1>5, <1>6, RoomRelease DEF Calm

(* Once every job is answered, each verdict was found with the release the *)
(* room has in the loaded index: in whatever order the index is refreshed, *)
(* YAMLs are uploaded, edited, retried and deleted and results come in,    *)
(* the time check of the callback drops exactly the results that a newer   *)
(* one has overtaken.  Nothing may overlap, fail or expire, the room stays *)
(* as it is, and the indexes bring only new releases.                      *)
THEOREM VerdictsOnRoomRelease == Spec => []VerdictOnRoomRelease
<1>1. Init => ValidationInv /\ FreshInv
  BY InitValidation, InitFresh
<1>2. ValidationInv /\ FreshInv /\ [Next]_validationVars => ValidationInv' /\ FreshInv'
  BY ValidationStep, FreshStep
<1>3. ValidationInv /\ FreshInv => VerdictOnRoomRelease
  BY FreshVerdicts DEF ValidationInv, TypeInv
<1> QED BY <1>1, <1>2, <1>3, PTL DEF Spec

=============================================================================
