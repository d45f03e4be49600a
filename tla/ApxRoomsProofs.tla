---------------------------- MODULE ApxRoomsProofs ----------------------------
(***************************************************************************)
(* Proofs about what runs inside the rooms of apx, for any number of       *)
(* clients, slots, messages, rooms and games: the bounces of a room        *)
(* (Bounces), and the data packages of the rooms (DataPackages).           *)
(***************************************************************************)
EXTENDS ApxRooms, FiniteSetTheorems, TLAPS

-----------------------------------------------------------------------------
(* Bounces                                                                 *)

BounceRules == [isolated : SUBSET B!PlayedSlots, excluded : [B!PlayedSlots -> SUBSET B!Tags]]
BounceTask ==
  [pc : {"idle", "count", "chance", "cooldown", "own", "limit", "strip", "others", "done"},
   msg : Messages \cup {B!NoMessage}, tags : SUBSET B!Tags, at : Nat, got : SUBSET Clients,
   dropped : BOOLEAN, always : BounceRules, ever : BounceRules]

BounceType ==
  /\ isolated \subseteq B!PlayedSlots
  /\ excluded \in [B!PlayedSlots -> SUBSET B!Tags]
  /\ last \in Int /\ now \in Nat
  /\ task \in [Clients -> BounceTask]
  /\ accepts \in Seq(Int)

(* The death links that passed are apart, and none is later than the last. *)
Apart ==
  /\ B!DeathsApart
  /\ \A i \in DOMAIN accepts : accepts[i] <= last

(* While a message is handled, the rules in force are between the ones     *)
(* that were all the while and the ones that were at some moment.          *)
Between(c) ==
  task[c].pc # "idle" =>
    /\ task[c].always.isolated \subseteq isolated
    /\ isolated \subseteq task[c].ever.isolated
    /\ \A s \in B!PlayedSlots : /\ task[c].always.excluded[s] \subseteq excluded[s]
                                /\ excluded[s] \subseteq task[c].ever.excluded[s]

(* Where a message is on its way, and whom it has reached so far.          *)
OnItsWay(c) ==
  LET t == task[c]
      own == {r \in Clients : SlotOf[r] = SlotOf[c] /\ B!Matches(r, t.msg.tags, t.msg)}
      stripped == t.msg.tags \ t.ever.excluded[SlotOf[c]]
      kept == t.msg.tags \ t.always.excluded[SlotOf[c]]
  IN  /\ t.pc \in {"count", "chance", "cooldown", "own"} => ~t.dropped /\ t.tags = t.msg.tags
      /\ t.pc \in {"limit", "strip", "others"} => ~t.dropped /\ t.got = own
      /\ t.pc \in {"limit", "strip"} => t.tags = t.msg.tags
      /\ t.pc \in {"strip", "others"} => SlotOf[c] \notin t.always.isolated
      /\ t.pc = "others" => stripped \subseteq t.tags /\ t.tags \subseteq kept

(* What DeliveredAsRuled says of the message of client c.                  *)
Delivered(c) ==
  LET t == task[c] IN
  t.pc = "done" =>
    /\ t.dropped => t.got = {c}
    /\ \A r \in t.got : SlotOf[r] # SlotOf[c] =>
         /\ {SlotOf[c], SlotOf[r]} \cap t.always.isolated = {}
         /\ B!Matches(r, t.msg.tags \ t.always.excluded[SlotOf[c]], t.msg)
    /\ ~t.dropped => \A r \in Clients \ t.got :
         IF SlotOf[r] = SlotOf[c] THEN ~B!Matches(r, t.msg.tags, t.msg)
         ELSE \/ ~B!Matches(r, t.msg.tags \ t.ever.excluded[SlotOf[c]], t.msg)
              \/ {SlotOf[r], SlotOf[c]} \cap t.ever.isolated # {}

Handled(c) == Between(c) /\ OnItsWay(c) /\ Delivered(c)

BounceInv == BounceType /\ Apart /\ \A c \in Clients : Handled(c)

LEMMA BounceTaskType ==
  ASSUME NEW m \in Messages, NEW pc \in {"own", "count"}, BounceType
  PROVE  B!Task(pc, m, isolated, excluded) \in BounceTask
BY DEF B!Task, B!Rules, BounceTask, BounceRules, BounceType, B!Tags

LEMMA BounceIdleType == B!Idle \in BounceTask
BY DEF B!Idle, B!Task, B!Rules, BounceTask, BounceRules, B!NoMessage

LEMMA BounceTaskEdit ==
  ASSUME NEW t \in BounceTask
  PROVE  LET Pcs == {"chance", "cooldown", "own", "limit", "strip", "others", "done"} IN
         /\ \A pc \in Pcs : [t EXCEPT !.pc = pc] \in BounceTask
         /\ \A pc \in Pcs, x \in Nat : [t EXCEPT !.pc = pc, !.at = x] \in BounceTask
         /\ \A pc \in Pcs, g \in SUBSET Clients :
              /\ [t EXCEPT !.pc = pc, !.got = g, !.dropped = TRUE] \in BounceTask
              /\ [t EXCEPT !.got = g, !.pc = pc] \in BounceTask
         /\ \A pc \in Pcs, u \in SUBSET B!Tags : [t EXCEPT !.tags = u, !.pc = pc] \in BounceTask
         /\ \A a, e \in BounceRules : [t EXCEPT !.always = a, !.ever = e] \in BounceTask
BY DEF BounceTask

LEMMA BounceTypeStep ==
  ASSUME BounceType, [B!Next]_B!vars PROVE BounceType'
<1> USE DEF BounceType
<1>1. CASE B!Tick
  BY <1>1 DEF B!Tick
<1>2. CASE B!SetProbability
  BY <1>2 DEF B!SetProbability
<1>3. ASSUME NEW s \in B!PlayedSlots, B!Limit(s) \/ \E t \in B!Tags : B!Exclude(s, t)
      PROVE BounceType'
  <2>1. isolated' \subseteq B!PlayedSlots /\ excluded' \in [B!PlayedSlots -> SUBSET B!Tags]
    BY <1>3 DEF B!Limit, B!Exclude
  <2>2. B!Note(isolated', excluded')
    BY <1>3 DEF B!Limit, B!Exclude
  <2>3. ASSUME NEW c \in Clients
        PROVE  /\ B!Rules(task[c].always.isolated \cap isolated',
                          [x \in B!PlayedSlots |-> task[c].always.excluded[x] \cap excluded'[x]])
                    \in BounceRules
               /\ B!Rules(task[c].ever.isolated \cup isolated',
                          [x \in B!PlayedSlots |-> task[c].ever.excluded[x] \cup excluded'[x]])
                    \in BounceRules
    <3>1. task[c].always \in BounceRules /\ task[c].ever \in BounceRules
      BY DEF BounceTask
    <3> QED BY <3>1, <2>1 DEF BounceRules, B!Rules
  <2>4. task' \in [Clients -> BounceTask]
    BY <2>2, <2>3, BounceTaskEdit DEF B!Note
  <2> QED BY <1>3, <2>1, <2>4 DEF B!Limit, B!Exclude
<1>4. ASSUME NEW c \in Clients, B!Step(c) PROVE BounceType'
  <2>0. task[c] \in BounceTask /\ task[c].at \in Nat /\ task[c].got \subseteq Clients
        /\ task[c].tags \subseteq B!Tags /\ {c} \subseteq Clients
    BY DEF BounceTask
  <2>9. /\ [task[c] EXCEPT !.pc = "cooldown", !.at = now] \in BounceTask
        /\ [task[c] EXCEPT !.pc = "own"] \in BounceTask
        /\ [task[c] EXCEPT !.pc = "done", !.got = {c}, !.dropped = TRUE] \in BounceTask
    BY <2>0 DEF BounceTask
  <2>1. CASE \E m \in Messages : B!HandleBounce(c, m)
    BY <2>1, BounceTaskType DEF B!HandleBounce
  <2>2. CASE B!Malformed(c) \/ B!Done(c)
    BY <2>2, BounceIdleType DEF B!Malformed, B!Done
  <2>3. CASE B!CountDeath(c) \/ B!CheckLimit(c)
    BY <2>0, <2>3, BounceTaskEdit DEF B!CountDeath, B!CheckLimit, B!Goto
  <2>4. CASE B!Chance(c)
    BY <2>0, <2>9, <2>4 DEF B!Chance, B!Drop
  <2>5. CASE B!Cooldown(c)
    <3>1. task' \in [Clients -> BounceTask]
      BY <2>9, <2>5 DEF B!Cooldown, B!Drop, B!Goto
    <3>2. last' \in Int /\ accepts' \in Seq(Int)
      BY <2>0, <2>5 DEF B!Cooldown
    <3> QED BY <2>5, <3>1, <3>2 DEF B!Cooldown
  <2>6. CASE B!ToOwnSlot(c)
    BY <2>0, <2>6, BounceTaskEdit DEF B!ToOwnSlot, B!OwnClients
  <2>7. CASE B!StripTags(c)
    <3>1. task[c].tags \ excluded[SlotOf[c]] \in SUBSET B!Tags
      BY <2>0
    <3> QED BY <2>0, <2>7, <3>1, BounceTaskEdit DEF B!StripTags
  <2>8. CASE B!ToOthers(c)
    <3>1. task[c].got \cup B!OtherClients(c) \in SUBSET Clients
      BY <2>0 DEF B!OtherClients
    <3> QED BY <2>0, <2>8, <3>1, BounceTaskEdit DEF B!ToOthers
  <2> QED BY <1>4, <2>1, <2>2, <2>3, <2>4, <2>5, <2>6, <2>7, <2>8 DEF B!Step
<1>5. CASE UNCHANGED B!vars
  BY <1>5 DEF B!vars
<1> QED BY <1>1, <1>2, <1>3, <1>4, <1>5 DEF B!Next

(* Only the cooldown accepts a death link, and not before the time is due. *)
LEMMA ApartStep ==
  ASSUME Throttle \in Nat, BounceType, Apart, [B!Next]_B!vars PROVE Apart'
<1> USE DEF BounceType
<1>1. CASE UNCHANGED <<last, accepts>>
  BY <1>1 DEF Apart, B!DeathsApart
<1>2. ASSUME NEW c \in Clients, B!Cooldown(c), B!CanSendDeathlink(task[c].at) PROVE Apart'
  <2>1. task[c].at \in Int
    BY DEF BounceTask
  <2>2. last' = task[c].at /\ accepts' = Append(accepts, task[c].at) /\ task[c].at - last >= Throttle
    BY <1>2 DEF B!Cooldown, B!CanSendDeathlink
  <2>3. /\ DOMAIN accepts = 1 .. Len(accepts) /\ DOMAIN accepts' = 1 .. (Len(accepts) + 1)
        /\ Len(accepts) \in Nat
        /\ \A i \in DOMAIN accepts : accepts'[i] = accepts[i] /\ accepts[i] \in Int
        /\ accepts'[Len(accepts) + 1] = task[c].at
    BY <2>1, <2>2
  <2>4. \A i \in DOMAIN accepts : task[c].at - accepts[i] >= Throttle
    BY <2>1, <2>2, <2>3 DEF Apart
  <2>5. B!DeathsApart'
    BY <2>3, <2>4 DEF Apart, B!DeathsApart
  <2>6. \A i \in DOMAIN accepts' : accepts'[i] <= last'
    BY <2>1, <2>2, <2>3, <2>4
  <2> QED BY <2>5, <2>6 DEF Apart
<1>3. ASSUME NEW c \in Clients, B!Step(c) PROVE Apart'
  <2>1. CASE B!Cooldown(c)
    BY <2>1, <1>1, <1>2 DEF B!Cooldown
  <2>2. CASE ~B!Cooldown(c)
    BY <1>3, <2>2, <1>1 DEF B!Step, B!HandleBounce, B!Malformed, B!CountDeath, B!Chance, B!ToOwnSlot,
      B!CheckLimit, B!StripTags, B!ToOthers, B!Done
  <2> QED BY <2>1, <2>2
<1> QED BY <1>1, <1>3 DEF B!Next, B!Tick, B!SetProbability, B!Limit, B!Exclude, B!vars

LEMMA DeliveredToAll ==
  ASSUME \A c \in Clients : Delivered(c), BounceType PROVE B!DeliveredAsRuled
<1>1. B!StaysInside
  BY DEF Delivered, B!StaysInside, B!At
<1>2. B!ReachesMatches
  BY DEF Delivered, B!ReachesMatches, B!Sent, B!At
<1> QED BY <1>1, <1>2 DEF B!DeliveredAsRuled

(* A change of the rules: of what was in force all the while less is left, *)
(* of what was at some moment there is more, and nothing else changes.     *)
LEMMA NoteHandled ==
  ASSUME BounceType, BounceType', B!Note(isolated', excluded'), NEW c \in Clients, Handled(c)
  PROVE  Handled(c)'
<1> USE DEF BounceType
<1>1. CASE task[c].pc = "idle"
  <2>1. task'[c] = task[c]
    BY <1>1 DEF B!Note, B!At
  <2> QED BY <1>1, <2>1 DEF Handled, Between, OnItsWay, Delivered
<1>2. CASE task[c].pc # "idle"
  <2>0. task[c] \in BounceTask /\ SlotOf[c] \in B!PlayedSlots
    BY DEF B!PlayedSlots
  <2>1. /\ task'[c].pc = task[c].pc /\ task'[c].msg = task[c].msg /\ task'[c].tags = task[c].tags
        /\ task'[c].got = task[c].got /\ task'[c].dropped = task[c].dropped
        /\ task'[c].always.isolated = task[c].always.isolated \cap isolated'
        /\ task'[c].ever.isolated = task[c].ever.isolated \cup isolated'
        /\ \A s \in B!PlayedSlots :
             /\ task'[c].always.excluded[s] = task[c].always.excluded[s] \cap excluded'[s]
             /\ task'[c].ever.excluded[s] = task[c].ever.excluded[s] \cup excluded'[s]
    BY <1>2, <2>0 DEF B!Note, B!At, B!Rules, BounceTask
  <2>2. Between(c)'
    BY <2>1 DEF Between
  <2>3. OnItsWay(c)'
    <3>1. OnItsWay(c)
      BY DEF Handled
    <3>2. \A r \in Clients : B!Matches(r, task[c].msg.tags, task[c].msg)' =
                            B!Matches(r, task[c].msg.tags, task[c].msg)
      BY <2>1 DEF B!Matches
    <3>3. /\ task[c].msg.tags \ task'[c].ever.excluded[SlotOf[c]]
              \subseteq task[c].msg.tags \ task[c].ever.excluded[SlotOf[c]]
          /\ task[c].msg.tags \ task[c].always.excluded[SlotOf[c]]
              \subseteq task[c].msg.tags \ task'[c].always.excluded[SlotOf[c]]
      BY <2>0, <2>1
    <3> QED BY <2>1, <3>1, <3>2, <3>3 DEF OnItsWay
  <2>4. Delivered(c)'
    <3>1. Delivered(c)
      BY DEF Handled
    <3> SUFFICES ASSUME task[c].pc = "done" PROVE Delivered(c)'
      BY <2>1 DEF Delivered
    <3>2. \A r \in task[c].got : SlotOf[r] # SlotOf[c] =>
            /\ {SlotOf[c], SlotOf[r]} \cap task'[c].always.isolated = {}
            /\ B!Matches(r, task[c].msg.tags \ task'[c].always.excluded[SlotOf[c]], task[c].msg)
      BY <2>0, <2>1, <3>1 DEF Delivered, B!Matches
    <3>3. ~task[c].dropped => \A r \in Clients \ task[c].got :
            IF SlotOf[r] = SlotOf[c] THEN ~B!Matches(r, task[c].msg.tags, task[c].msg)
            ELSE \/ ~B!Matches(r, task[c].msg.tags \ task'[c].ever.excluded[SlotOf[c]], task[c].msg)
                 \/ {SlotOf[r], SlotOf[c]} \cap task'[c].ever.isolated # {}
      BY <2>0, <2>1, <3>1 DEF Delivered, B!Matches
    <3> QED BY <2>1, <3>1, <3>2, <3>3 DEF Delivered, B!Matches
  <2> QED BY <2>2, <2>3, <2>4 DEF Handled
<1> QED BY <1>1, <1>2

(* A step of the client's own goroutine. *)
LEMMA StepHandled ==
  ASSUME BounceType, NEW c \in Clients, Handled(c), B!Step(c)
  PROVE  Handled(c)'
<1> USE DEF BounceType
<1>0. task[c] \in BounceTask /\ SlotOf[c] \in B!PlayedSlots /\ UNCHANGED <<isolated, excluded>>
  BY DEF B!PlayedSlots, B!Step, B!HandleBounce, B!Malformed, B!CountDeath, B!Chance, B!Cooldown,
    B!ToOwnSlot, B!CheckLimit, B!StripTags, B!ToOthers, B!Done
<1>1. CASE \E m \in Messages : B!HandleBounce(c, m)
  BY <1>0, <1>1 DEF B!HandleBounce, B!Task, B!Rules, Handled, Between, OnItsWay, Delivered
<1>2. CASE B!Malformed(c) \/ B!Done(c)
  BY <1>2 DEF B!Malformed, B!Done, B!Idle, B!Task, Handled, Between, OnItsWay, Delivered
<1> DEFINE SameRules == task'[c].always = task[c].always /\ task'[c].ever = task[c].ever
                        /\ task'[c].msg = task[c].msg
<1>3. CASE B!CountDeath(c)
  <2>1. SameRules /\ task'[c].tags = task[c].tags /\ task'[c].dropped = task[c].dropped
        /\ task[c].pc = "count" /\ task'[c].pc = "chance"
    BY <1>0, <1>3 DEF B!CountDeath, B!Goto, B!At, BounceTask
  <2> QED BY <1>0, <2>1 DEF Handled, Between, OnItsWay, Delivered
<1>4. CASE B!Chance(c) \/ B!Cooldown(c)
  <2>1. /\ SameRules /\ task'[c].tags = task[c].tags /\ task[c].pc \in {"chance", "cooldown"}
        /\ \/ task'[c].pc \in {"cooldown", "own"} /\ task'[c].dropped = task[c].dropped
           \/ task'[c].pc = "done" /\ task'[c].dropped /\ task'[c].got = {c}
    BY <1>0, <1>4 DEF B!Chance, B!Cooldown, B!Drop, B!Goto, B!At, BounceTask
  <2> QED BY <1>0, <2>1 DEF Handled, Between, OnItsWay, Delivered
<1>5. CASE B!ToOwnSlot(c)
  <2>1. SameRules /\ task'[c].tags = task[c].tags /\ task'[c].dropped = task[c].dropped
        /\ task[c].pc = "own" /\ task'[c].pc = "limit" /\ task'[c].got = B!OwnClients(c)
    BY <1>0, <1>5 DEF B!ToOwnSlot, B!At, BounceTask
  <2> QED BY <1>0, <2>1 DEF Handled, Between, OnItsWay, Delivered, B!OwnClients, B!Matches
<1>6. CASE B!CheckLimit(c)
  <2>1. SameRules /\ task'[c].tags = task[c].tags /\ task'[c].dropped = task[c].dropped
        /\ task'[c].got = task[c].got /\ task[c].pc = "limit"
        /\ task'[c].pc = IF SlotOf[c] \in isolated THEN "done" ELSE "strip"
    BY <1>0, <1>6 DEF B!CheckLimit, B!Goto, B!At, BounceTask
  <2>2. Between(c)' /\ OnItsWay(c)'
    BY <1>0, <2>1 DEF Handled, Between, OnItsWay, B!Matches
  <2>3. Delivered(c)'
    BY <1>0, <2>1 DEF Handled, Between, OnItsWay, Delivered, B!Matches
  <2> QED BY <2>2, <2>3 DEF Handled
<1>7. CASE B!StripTags(c)
  <2>1. SameRules /\ task'[c].tags = task[c].tags \ excluded[SlotOf[c]]
        /\ task'[c].dropped = task[c].dropped /\ task'[c].got = task[c].got
        /\ task[c].pc = "strip" /\ task'[c].pc = "others"
    BY <1>0, <1>7 DEF B!StripTags, B!At, BounceTask
  <2> QED BY <1>0, <2>1 DEF Handled, Between, OnItsWay, Delivered, B!Matches
<1>8. CASE B!ToOthers(c)
  <2>1. SameRules /\ task'[c].dropped = task[c].dropped
        /\ task'[c].got = task[c].got \cup B!OtherClients(c)
        /\ task[c].pc = "others" /\ task'[c].pc = "done"
    BY <1>0, <1>8 DEF B!ToOthers, B!At, BounceTask
  <2>2. Between(c)' /\ OnItsWay(c)'
    BY <1>0, <2>1 DEF Handled, Between, OnItsWay
  <2>3. Delivered(c)'
    BY <1>0, <2>1 DEF Handled, Between, OnItsWay, Delivered, B!OtherClients, B!Matches
  <2> QED BY <2>2, <2>3 DEF Handled
<1> QED BY <1>1, <1>2, <1>3, <1>4, <1>5, <1>6, <1>7, <1>8 DEF B!Step

LEMMA BounceStep ==
  ASSUME Throttle \in Nat, BounceInv, [B!Next]_B!vars PROVE BounceInv'
<1> USE DEF BounceInv
<1>1. BounceType' /\ Apart'
  BY BounceTypeStep, ApartStep
<1>2. ASSUME NEW c \in Clients PROVE Handled(c)'
  <2>1. CASE task'[c] = task[c] /\ UNCHANGED <<isolated, excluded>>
    BY <2>1 DEF Handled, Between, OnItsWay, Delivered, B!Matches
  <2>2. ASSUME NEW s \in B!PlayedSlots, B!Limit(s) \/ \E t \in B!Tags : B!Exclude(s, t)
        PROVE Handled(c)'
    BY <1>1, <2>2, NoteHandled DEF B!Limit, B!Exclude
  <2>3. ASSUME NEW d \in Clients, B!Step(d) PROVE Handled(c)'
    <3>1. CASE c = d
      BY <2>3, <3>1, StepHandled
    <3>2. CASE c # d
      <4>1. task'[c] = task[c] /\ UNCHANGED <<isolated, excluded>>
        BY <2>3, <3>2 DEF BounceType, B!Step, B!HandleBounce, B!Malformed, B!CountDeath, B!Chance,
          B!Cooldown, B!ToOwnSlot, B!CheckLimit, B!StripTags, B!ToOthers, B!Done, B!Goto, B!Drop
      <4> QED BY <4>1, <2>1
    <3> QED BY <3>1, <3>2
  <2> QED BY <2>1, <2>2, <2>3 DEF B!Next, B!Tick, B!SetProbability, B!vars
<1> QED BY <1>1, <1>2

LEMMA BounceInitial == ASSUME Throttle \in Nat, B!Init PROVE BounceInv
<1>1. BounceType
  BY BounceIdleType DEF B!Init, BounceType
<1>2. Apart
  BY DEF B!Init, Apart, B!DeathsApart
<1>3. \A c \in Clients : Handled(c)
  BY DEF B!Init, B!Idle, B!Task, Handled, Between, OnItsWay, Delivered
<1> QED BY <1>1, <1>2, <1>3 DEF BounceInv

(* BroadcastBounceFromSlot: whatever rules an administrator changes while  *)
(* bounces are on their way, nothing leaves or reaches a slot that was     *)
(* limited all the while, a tag excluded all the while carries nothing to  *)
(* other slots, and every client a bounce names gets it unless a rule of   *)
(* some moment kept it from it.  CanSendDeathlink: with any number of      *)
(* clients dying at the same time, the death links that pass are at least  *)
(* the throttle apart, although each client's time is taken before the     *)
(* lock.                                                                   *)
THEOREM BouncesAreDelivered ==
  ASSUME Throttle \in Nat PROVE B!Spec => []BouncesAsRuled
<1>1. B!Init => BounceInv
  BY BounceInitial
<1>2. BounceInv /\ [B!Next]_B!vars => BounceInv'
  BY BounceStep
<1>3. BounceInv => B!DeliveredAsRuled
  BY DeliveredToAll DEF BounceInv, Handled
<1>4. BounceInv => BouncesAsRuled
  BY <1>3 DEF BounceInv, Apart, BouncesAsRuled
<1> QED BY <1>1, <1>2, <1>4, PTL DEF B!Spec
-----------------------------------------------------------------------------
(* Data packages                                                           *)

(* The server's rooms and games are finitely many, and a room's are games. *)
PackageConstants == IsFiniteSet(Servers) /\ IsFiniteSet(Games) /\ Info \in [Servers -> SUBSET Games]

PackageRoom == [pc : {"absent", "adding", "ready"}, todo : SUBSET Games, packages : SUBSET Games]

PackageType ==
  /\ byGameKey \in [D!Keys -> Nat]
  /\ byChecksum \in [D!Checksums -> Nat]
  /\ room \in [Servers -> PackageRoom]

(* A game is added once to a room's packages, and only a game of the room. *)
AddedOnce ==
  \A r \in Servers : /\ room[r].todo \cap room[r].packages = {}
                     /\ room[r].todo \cup room[r].packages \subseteq Info[r]
                     /\ room[r].pc = "absent" => room[r].packages = {}

PackageInv == PackageType /\ AddedOnce /\ D!CountsAreExact

LEMMA SameCardinality == ASSUME NEW S PROVE D!Cardinality(S) = Cardinality(S)
BY DEF D!Cardinality, Cardinality

LEMMA KeysAreFinite ==
  ASSUME PackageConstants PROVE IsFiniteSet(D!Keys)
<1>1. IsFiniteSet(Servers \X Games)
  BY FS_Product DEF PackageConstants
<1> DEFINE f == [p \in Servers \X Games |-> Checksum[p[1]][p[2]]]
<1>2. f \in Surjection(Servers \X Games, D!Checksums)
  <2>1. f \in [Servers \X Games -> D!Checksums]
    BY DEF D!Checksums
  <2>2. ASSUME NEW x \in D!Checksums PROVE \E p \in Servers \X Games : f[p] = x
    <3>1. PICK r \in Servers, g \in Games : x = Checksum[r][g]
      BY DEF D!Checksums
    <3>2. <<r, g>> \in Servers \X Games /\ f[<<r, g>>] = x
      BY <3>1
    <3> QED BY <3>2
  <2> QED BY <2>1, <2>2 DEF Surjection
<1>3. IsFiniteSet(D!Checksums)
  BY <1>1, <1>2, FS_Surjection
<1> QED BY <1>3, FS_Product DEF D!Keys, PackageConstants

LEMMA CountedSetsAreFinite ==
  ASSUME PackageConstants
  PROVE  /\ \A k : IsFiniteSet(D!Holders(k)) /\ Cardinality(D!Holders(k)) \in Nat
         /\ \A x : IsFiniteSet(D!Wrappers(x)) /\ Cardinality(D!Wrappers(x)) \in Nat
<1>1. ASSUME NEW k PROVE IsFiniteSet(D!Holders(k))
  BY FS_Subset DEF D!Holders, PackageConstants
<1>2. ASSUME NEW x PROVE IsFiniteSet(D!Wrappers(x))
  BY KeysAreFinite, FS_Subset DEF D!Wrappers
<1> QED BY <1>1, <1>2, FS_CardinalityType

LEMMA CountsOf ==
  D!CountsAreExact <=> /\ \A k \in D!Keys : byGameKey[k] = Cardinality(D!Holders(k))
                       /\ \A x \in D!Checksums : byChecksum[x] = Cardinality(D!Wrappers(x))
BY SameCardinality DEF D!CountsAreExact

(* A wrapper for a room that did not hold one of that game *)
LEMMA AddPreserves ==
  ASSUME PackageConstants, PackageInv, NEW r \in Servers, NEW g \in Games, D!AddDataPackage(r, g)
  PROVE  PackageInv'
<1> USE DEF PackageInv
<1> DEFINE x0 == Checksum[r][g]
           k0 == <<x0, g>>
<1>0. /\ room[r] \in PackageRoom /\ g \in room[r].todo /\ g \notin room[r].packages
      /\ x0 \in D!Checksums /\ k0 \in D!Keys /\ g \in Info[r]
  BY DEF PackageType, AddedOnce, D!AddDataPackage, D!Checksums, D!Keys
<1>1. /\ room' = [room EXCEPT ![r] = [room[r] EXCEPT !.todo = room[r].todo \ {g},
                                                     !.packages = room[r].packages \cup {g}]]
      /\ byGameKey' = [byGameKey EXCEPT ![k0] = byGameKey[k0] + 1]
      /\ byChecksum' = [byChecksum EXCEPT ![x0] = IF byGameKey[k0] > 0 THEN byChecksum[x0]
                                                  ELSE byChecksum[x0] + 1]
  BY DEF D!AddDataPackage, D!GetOrAdd
<1>2. PackageType'
  <2>1. [room[r] EXCEPT !.todo = room[r].todo \ {g}, !.packages = room[r].packages \cup {g}]
          \in PackageRoom
    BY <1>0 DEF PackageRoom
  <2> QED BY <1>0, <1>1, <2>1 DEF PackageType
<1>3. \A q \in Servers : /\ q # r => room'[q] = room[q]
                         /\ q = r => /\ room'[q].packages = room[r].packages \cup {g}
                                     /\ room'[q].todo = room[r].todo \ {g}
                                     /\ room'[q].pc = "adding"
  BY <1>0, <1>1 DEF PackageType, PackageRoom, D!AddDataPackage
<1>4. AddedOnce'
  BY <1>0, <1>3 DEF AddedOnce
<1>5. ASSUME NEW k \in D!Keys PROVE byGameKey'[k] = Cardinality(D!Holders(k)')
  <2>1. byGameKey[k] = Cardinality(D!Holders(k))
    BY CountsOf
  <2>2. CASE k = k0
    <3>1. D!Holders(k)' = D!Holders(k) \cup {r} /\ r \notin D!Holders(k)
      BY <1>0, <1>3, <2>2 DEF D!Holders
    <3>2. Cardinality(D!Holders(k)') = Cardinality(D!Holders(k)) + 1
      BY <3>1, CountedSetsAreFinite, FS_AddElement
    <3> QED BY <1>0, <1>1, <2>1, <2>2, <3>2 DEF PackageType
  <2>3. CASE k # k0
    <3>1. k = <<k[1], k[2]>>
      BY DEF D!Keys
    <3>2. D!Holders(k)' = D!Holders(k)
      BY <1>0, <1>3, <2>3, <3>1 DEF D!Holders
    <3> QED BY <1>0, <1>1, <2>1, <2>3, <3>2 DEF PackageType
  <2> QED BY <2>2, <2>3
<1>6. ASSUME NEW x \in D!Checksums PROVE byChecksum'[x] = Cardinality(D!Wrappers(x)')
  <2>1. byChecksum[x] = Cardinality(D!Wrappers(x))
    BY CountsOf
  <2>2. \A k \in D!Keys : byGameKey'[k] > 0 <=> (byGameKey[k] > 0 \/ k = k0)
    BY <1>0, <1>1 DEF PackageType
  <2>3. CASE x = x0 /\ ~(byGameKey[k0] > 0)
    <3>1. D!Wrappers(x)' = D!Wrappers(x) \cup {k0} /\ k0 \notin D!Wrappers(x)
      BY <1>0, <2>2, <2>3 DEF D!Wrappers
    <3>2. Cardinality(D!Wrappers(x)') = Cardinality(D!Wrappers(x)) + 1
      BY <3>1, CountedSetsAreFinite, FS_AddElement
    <3> QED BY <1>0, <1>1, <2>1, <2>3, <3>2 DEF PackageType
  <2>4. CASE ~(x = x0 /\ ~(byGameKey[k0] > 0))
    <3>1. D!Wrappers(x)' = D!Wrappers(x)
      BY <1>0, <2>2, <2>4 DEF D!Wrappers
    <3> QED BY <1>0, <1>1, <2>1, <2>4, <3>1 DEF PackageType
  <2> QED BY <2>3, <2>4
<1>7. D!CountsAreExact'
  BY <1>5, <1>6, SameCardinality DEF D!CountsAreExact
<1> QED BY <1>2, <1>4, <1>7

(* The room gives back what it holds: it is counted in each of its keys. *)
LEMMA ReleasePreserves ==
  ASSUME PackageConstants, PackageInv, NEW r \in Servers, D!Release(r)
  PROVE  PackageInv'
<1> USE DEF PackageInv
<1> DEFINE keys == {<<Checksum[r][g], g>> : g \in room[r].packages}
           gone == {k \in keys : byGameKey[k] <= 1}
<1>0. /\ byGameKey' = [k \in D!Keys |-> IF k \in keys THEN byGameKey[k] - 1 ELSE byGameKey[k]]
      /\ byChecksum' = [x \in D!Checksums |->
                          byChecksum[x] - Cardinality({k \in gone : k[1] = x})]
      /\ room' = [room EXCEPT ![r] = D!Absent]
  BY SameCardinality DEF D!Release
<1>1. keys \subseteq D!Keys
  BY DEF PackageType, PackageRoom, D!Keys, D!Checksums
<1>2. \A k \in D!Keys : k \in keys <=> r \in D!Holders(k)
  BY DEF D!Holders, D!Keys
<1>3. \A k \in D!Keys : D!Holders(k)' = D!Holders(k) \ {r}
  BY <1>0 DEF D!Holders, PackageType, D!Absent
<1>4. ASSUME NEW k \in D!Keys
      PROVE  byGameKey'[k] = Cardinality(D!Holders(k)') /\ byGameKey'[k] \in Nat
  <2>1. byGameKey[k] = Cardinality(D!Holders(k))
    BY CountsOf
  <2>2. IsFiniteSet(D!Holders(k)) /\ IsFiniteSet(D!Holders(k)')
    BY <1>3, CountedSetsAreFinite, FS_RemoveElement
  <2>3. Cardinality(D!Holders(k)') = IF r \in D!Holders(k) THEN Cardinality(D!Holders(k)) - 1
                                   ELSE Cardinality(D!Holders(k))
    BY <1>3, <2>2, FS_RemoveElement
  <2> QED BY <1>0, <1>2, <2>1, <2>2, <2>3, FS_CardinalityType
<1>5. \A k \in keys : byGameKey[k] \in Nat /\ byGameKey[k] >= 1
  <2> SUFFICES ASSUME NEW k \in keys PROVE byGameKey[k] \in Nat /\ byGameKey[k] >= 1
    OBVIOUS
  <2>1. byGameKey[k] = Cardinality(D!Holders(k)) /\ D!Holders(k) # {} /\ byGameKey[k] \in Nat
    BY <1>1, <1>2, CountsOf DEF PackageType
  <2> QED BY <2>1, CountedSetsAreFinite, FS_EmptySet
<1>6. ASSUME NEW x \in D!Checksums
      PROVE  byChecksum'[x] = Cardinality(D!Wrappers(x)') /\ byChecksum'[x] \in Nat
  <2> DEFINE lost == {k \in gone : k[1] = x}
  <2>1. byChecksum[x] = Cardinality(D!Wrappers(x))
    BY CountsOf
  <2>2. lost \subseteq D!Wrappers(x)
    BY <1>1, <1>5 DEF D!Wrappers
  <2>3. \A k \in D!Keys : byGameKey'[k] > 0 <=> (byGameKey[k] > 0 /\ k \notin gone)
    BY <1>0, <1>5 DEF PackageType
  <2>4. D!Wrappers(x)' = D!Wrappers(x) \ lost
    BY <2>3 DEF D!Wrappers
  <2>5. D!Wrappers(x) \cap lost = lost
    BY <2>2
  <2>6. Cardinality(D!Wrappers(x) \ lost) = Cardinality(D!Wrappers(x)) - Cardinality(lost)
        /\ Cardinality(D!Wrappers(x) \ lost) \in Nat
    BY <2>5, CountedSetsAreFinite, FS_Difference, FS_CardinalityType
  <2> QED BY <1>0, <2>1, <2>4, <2>6
<1>7. PackageType' /\ AddedOnce'
  BY <1>0, <1>4, <1>6 DEF PackageType, PackageRoom, AddedOnce, D!Absent
<1>8. D!CountsAreExact'
  BY <1>4, <1>6, SameCardinality DEF D!CountsAreExact
<1> QED BY <1>7, <1>8

LEMMA PackageStep ==
  ASSUME PackageConstants, PackageInv, [D!Next]_D!vars PROVE PackageInv'
<1>1. ASSUME NEW r \in Servers, D!Prefetch(r) \/ D!Ready(r) PROVE PackageInv'
  <2> USE DEF PackageInv
  <2>1. PackageType' /\ UNCHANGED <<byGameKey, byChecksum>>
    <3>1. room[r] \in PackageRoom
      BY DEF PackageType
    <3>2. [room[r] EXCEPT !.pc = "ready"] \in PackageRoom
      BY <3>1 DEF PackageRoom
    <3>3. \A a \in SUBSET Info[r] : [D!Absent EXCEPT !.pc = "adding", !.todo = a] \in PackageRoom
      BY DEF PackageRoom, D!Absent, PackageConstants
    <3> QED BY <1>1, <3>2, <3>3 DEF D!Prefetch, D!Ready, PackageType
  <2>2. /\ \A q \in Servers : q # r => room'[q] = room[q]
        /\ room'[r].packages = room[r].packages
        /\ room'[r].pc # "absent"
        /\ room'[r].todo \cap room'[r].packages = {}
        /\ room'[r].todo \cup room'[r].packages \subseteq Info[r]
    <3>1. CASE D!Ready(r)
      BY <3>1 DEF D!Ready, PackageType, PackageRoom, AddedOnce
    <3>2. CASE D!Prefetch(r)
      <4>1. PICK a \in SUBSET Info[r] :
              room' = [room EXCEPT ![r] = [pc |-> "adding", todo |-> a, packages |-> {}]]
        BY <3>2 DEF D!Prefetch, D!Absent
      <4>2. room[r].packages = {}
        BY <3>2 DEF D!Prefetch, AddedOnce
      <4> QED BY <4>1, <4>2 DEF PackageType
    <3> QED BY <1>1, <3>1, <3>2
  <2>3. AddedOnce'
    BY <2>2 DEF AddedOnce
  <2>4. \A k \in D!Keys : D!Holders(k)' = D!Holders(k)
    BY <2>2 DEF D!Holders
  <2>5. \A x \in D!Checksums : D!Wrappers(x)' = D!Wrappers(x)
    BY <2>1 DEF D!Wrappers
  <2> QED BY <2>1, <2>3, <2>4, <2>5 DEF D!CountsAreExact
<1>2. CASE UNCHANGED D!vars
  BY <1>2 DEF D!vars, PackageInv, PackageType, AddedOnce, D!CountsAreExact, D!Holders, D!Wrappers
<1> QED BY <1>1, <1>2, AddPreserves, ReleasePreserves DEF D!Next, D!vars
LEMMA PackageInitial == ASSUME PackageConstants, D!Init PROVE PackageInv
<1>1. PackageType /\ AddedOnce
  BY DEF D!Init, D!Absent, PackageType, PackageRoom, AddedOnce
<1>2. \A k \in D!Keys : D!Holders(k) = {}
  BY DEF D!Init, D!Absent, D!Holders
<1>3. \A x \in D!Checksums : D!Wrappers(x) = {}
  BY DEF D!Init, D!Wrappers
<1> QED BY <1>1, <1>2, <1>3, CountsOf, FS_EmptySet DEF D!Init, PackageInv

LEMMA AnswersAreRight == ASSUME PackageInv PROVE D!AnswersWhatIsAsked
<1> SUFFICES ASSUME NEW r \in Servers, NEW asked \in D!GameLists,
                    D!Wanted(r, asked).names \subseteq room[r].packages
             PROVE  /\ D!Wanted(r, asked).names \subseteq D!SendDataPackages(r, asked)
                    /\ D!SendDataPackages(r, asked) \subseteq Info[r]
                    /\ r \notin Optimized => D!SendDataPackages(r, asked) = D!Wanted(r, asked).names
  BY DEF D!AnswersWhatIsAsked
<1>1. D!Wanted(r, asked).names \subseteq Info[r]
  BY DEF D!Wanted
<1>2. room[r].packages \subseteq Info[r]
  BY DEF PackageInv, AddedOnce
<1> QED BY <1>1, <1>2 DEF D!SendDataPackages

(* GlobalDataPackageCache: however rooms start and stop at the same time,  *)
(* a wrapper counts the rooms that hold its game and a package its         *)
(* wrappers, so nothing is dropped that a room still holds and nothing is  *)
(* kept that none does; and every request is answered with the games it    *)
(* asks for.                                                               *)
THEOREM PackagesAreServed ==
  ASSUME PackageConstants PROVE D!Spec => []PackagesServed
<1>1. D!Init => PackageInv
  BY PackageInitial
<1>2. PackageInv /\ [D!Next]_D!vars => PackageInv'
  BY PackageStep
<1>3. PackageInv => PackagesServed
  BY AnswersAreRight DEF PackageInv, D!PackagesServed, PackagesServed
<1> QED BY <1>1, <1>2, <1>3, PTL DEF D!Spec
-----------------------------------------------------------------------------
(* The checked locations of a room                                         *)

(* A refresh that holds what it fetched. *)
Holding(p) == refresh[p].pc \in {"compare", "activity", "set"}
(* A refresh that has compared, and has not yet set what it fetched. *)
Setting(p) == refresh[p].pc \in {"activity", "set"}

(* The server's locations only grow: what apx knows and what refreshes     *)
(* have fetched are earlier states of them, one of which has the other.    *)
Chained ==
  \A s \in Slots :
    /\ checked[s] \subseteq server[s]
    /\ \A p \in P!Refreshers :
         /\ refresh[p].new[s] \subseteq server[s]
         /\ refresh[p].new[s] \subseteq checked[s] \/ checked[s] \subseteq refresh[p].new[s]
         /\ \A q \in P!Refreshers : \/ refresh[p].new[s] \subseteq refresh[q].new[s]
                                    \/ refresh[q].new[s] \subseteq refresh[p].new[s]

(* A request about a slot that no refresh overlapped finds what is checked *)
(* as it read it.                                                          *)
RequestsApart ==
  \A q \in Askers : request[q].pc # "idle" =>
    /\ request[q].slot \in Slots
    /\ request[q].slot \notin overlap =>
         /\ \A p \in P!Refreshers : ~Setting(p)
         /\ request[q].pc = "put" => request[q].read = checked[request[q].slot]

(* An answer of the cache is made from what is checked, and a refresh that *)
(* is about to set something else has made it dirty.                       *)
Fresh ==
  \A s \in Slots \ overlap : P!Hit(s) =>
    /\ cache[s] = checked[s]
    /\ \A p \in P!Refreshers : Setting(p) => refresh[p].new[s] = checked[s]

(* The times: whoever knows what the server had at some moment, the        *)
(* activity is no earlier than the last location of that moment.           *)
Timed ==
  /\ progress <= now /\ activity <= now
  /\ checked = server => activity >= progress
  /\ \A p \in P!Refreshers : Holding(p) =>
       /\ refresh[p].upTo <= now /\ refresh[p].ok
       /\ refresh[p].new = server => refresh[p].upTo = progress
       /\ refresh[p].new = checked => activity >= refresh[p].upTo
       /\ \A q \in P!Refreshers : Holding(q) /\ refresh[p].new = refresh[q].new =>
            refresh[p].upTo = refresh[q].upTo
       /\ refresh[p].pc = "activity" /\ ~refresh[p].changed => activity >= refresh[p].upTo
       /\ refresh[p].pc = "set" => activity >= refresh[p].upTo
  /\ refresh["killer"].pc = "decide" /\ refresh["killer"].ok => activity >= refresh["killer"].upTo

ProgressInv ==
  /\ P!TypeOK /\ Chained /\ RequestsApart /\ Fresh /\ Timed
  /\ P!CompleteIsComplete /\ P!KilledWasIdle

LEMMA SameCardinality2 == ASSUME NEW S PROVE P!Cardinality(S) = Cardinality(S)
BY DEF P!Cardinality, Cardinality

(* Comparing the numbers of locations is enough: of two states of the      *)
(* server one has the other.                                               *)
LEMMA UnchangedIsEqual ==
  ASSUME IsFiniteSet(Locations), P!TypeOK, Chained, NEW p \in P!Refreshers, NEW s \in Slots,
         s \notin P!Changed(refresh[p].new)
  PROVE  refresh[p].new[s] = checked[s]
<1>1. checked[s] \subseteq Locations /\ refresh[p].new[s] \subseteq Locations
  BY DEF P!TypeOK, P!Progress, P!Refresh
<1>2. IsFiniteSet(checked[s]) /\ IsFiniteSet(refresh[p].new[s])
  BY <1>1, FS_Subset
<1>3. Cardinality(checked[s]) = Cardinality(refresh[p].new[s])
  BY SameCardinality2 DEF P!Changed
<1>4. checked[s] \subseteq refresh[p].new[s] \/ refresh[p].new[s] \subseteq checked[s]
  BY DEF Chained
<1> QED BY <1>2, <1>3, <1>4, FS_Subset
LEMMA RefreshEdit ==
  ASSUME NEW r \in P!Refresh
  PROVE  LET Pcs == {"idle", "fetch", "compare", "activity", "set", "decide"} IN
         /\ \A pc \in Pcs : [r EXCEPT !.pc = pc] \in P!Refresh
         /\ \A pc \in Pcs, t \in Int : [r EXCEPT !.pc = pc, !.deadline = t] \in P!Refresh
         /\ \A pc \in Pcs, b \in BOOLEAN :
              /\ [r EXCEPT !.pc = pc, !.ok = b] \in P!Refresh
              /\ [r EXCEPT !.pc = pc, !.changed = b] \in P!Refresh
         /\ \A pc \in Pcs, n \in P!Progress, t \in Int :
              [r EXCEPT !.pc = pc, !.new = n, !.ok = TRUE, !.upTo = t] \in P!Refresh
         /\ \A pc \in Pcs, n \in P!Progress :
              [r EXCEPT !.pc = pc, !.new = n, !.changed = FALSE] \in P!Refresh
BY DEF P!Refresh

LEMMA RestingType ==
  P!Resting \in P!Refresh /\ P!Resting.new \in P!Progress /\ P!Resting.pc = "idle"
  /\ \A s \in Slots : P!Resting.new[s] = {}
BY DEF P!Resting, P!Refresh, P!Progress

LEMMA ProgressTypeStep ==
  ASSUME P!TypeOK, Timeout \in Nat, RequestsApart, [P!Next]_P!vars PROVE P!TypeOK'
<1> USE DEF P!TypeOK
<1>1. CASE P!Tick
  BY <1>1 DEF P!Tick
<1>2. ASSUME NEW s \in Slots, NEW l \in Locations, P!Check(s, l) PROVE P!TypeOK'
  BY <1>2 DEF P!Check, P!Progress
<1>3. CASE P!Poll
  BY <1>3, RefreshEdit DEF P!Poll, P!Goto, P!Refreshers
<1>4. CASE P!KillerLooks
  <2>1. refresh["killer"] \in P!Refresh /\ now - Timeout \in Int
    BY DEF P!Refreshers
  <2>2. [refresh["killer"] EXCEPT !.pc = "fetch", !.deadline = now - Timeout] \in P!Refresh
    BY <2>1, RefreshEdit
  <2> QED BY <1>4, <2>2 DEF P!KillerLooks
<1>5. CASE P!KillerDecides
  BY <1>5, RestingType DEF P!KillerDecides, P!Refreshers
<1>6. ASSUME NEW p \in P!Refreshers, P!RefreshStep(p) PROVE P!TypeOK'
  <2>0. refresh[p] \in P!Refresh /\ P!AfterRefresh(p) \in {"decide", "idle"}
        /\ refresh[p].new \in P!Progress
    BY DEF P!AfterRefresh, P!Refresh
  <2>1. CASE P!Fetch(p)
    BY <2>0, <2>1, RefreshEdit DEF P!Fetch
  <2>2. CASE P!FetchFails(p)
    <3>1. [refresh[p] EXCEPT !.pc = P!AfterRefresh(p), !.ok = FALSE] \in P!Refresh
      BY <2>0, RefreshEdit
    <3> QED BY <2>2, <3>1 DEF P!FetchFails
  <2>3. CASE P!Compare(p)
    <3>1. [refresh[p] EXCEPT !.pc = "activity", !.changed = (P!Changed(refresh[p].new) # {})]
            \in P!Refresh
      BY <2>0, RefreshEdit
    <3>2. P!Overlapping \subseteq Slots
      BY DEF P!Overlapping, RequestsApart
    <3> QED BY <2>3, <3>1, <3>2 DEF P!Compare
  <2>4. CASE P!NoteActivity(p)
    BY <2>0, <2>4, RefreshEdit DEF P!NoteActivity, P!Goto
  <2>5. CASE P!SetChecked(p)
    <3>1. P!Overlapping \subseteq Slots
      BY DEF P!Overlapping, RequestsApart
    <3> QED BY <2>0, <2>5, <3>1, RefreshEdit, RestingType DEF P!SetChecked
  <2> QED BY <1>6, <2>1, <2>2, <2>3, <2>4, <2>5 DEF P!RefreshStep
<1>7. ASSUME NEW q \in Askers,
             (\E s \in Slots : P!Ask(q, s)) \/ P!ReadChecked(q) \/ P!Put(q)
      PROVE  P!TypeOK'
  <2>0. request[q] \in P!Request /\ request[q].read \subseteq Locations
    BY DEF P!Request
  <2>1. ASSUME NEW s \in Slots, P!Ask(q, s) PROVE P!TypeOK'
    BY <2>1 DEF P!Ask, P!Request
  <2>2. CASE P!ReadChecked(q)
    <3>1. request[q].slot \in Slots
      BY <2>2 DEF RequestsApart, P!ReadChecked
    <3>2. [request[q] EXCEPT !.pc = "put", !.read = checked[request[q].slot]] \in P!Request
      BY <2>0, <3>1 DEF P!Request, P!Progress
    <3> QED BY <2>2, <3>2 DEF P!ReadChecked
  <2>3. CASE P!Put(q)
    <3>1. P!NoRequest \in P!Request
      BY DEF P!NoRequest, P!Request
    <3>2. cache' \in [Slots -> (SUBSET Locations) \cup {None}] /\ dirty' \in [Slots -> BOOLEAN]
      BY <2>0, <2>3 DEF P!Put
    <3> QED BY <2>3, <3>1, <3>2 DEF P!Put
  <2> QED BY <1>7, <2>1, <2>2, <2>3
<1>8. CASE P!Incomplete
  BY <1>8 DEF P!Incomplete
<1>9. CASE UNCHANGED P!vars
  BY <1>9 DEF P!vars
<1> QED BY <1>1, <1>2, <1>3, <1>4, <1>5, <1>6, <1>7, <1>8, <1>9 DEF P!Next
(* Steps of requests, of the clock and of who asks for sphere 1 leave      *)
(* refreshes alone.                                                        *)
LEMMA ProgressOtherStep ==
  ASSUME ProgressInv, P!TypeOK',
         \/ P!Tick \/ P!Incomplete \/ UNCHANGED P!vars
         \/ \E q \in Askers : (\E s \in Slots : P!Ask(q, s)) \/ P!ReadChecked(q) \/ P!Put(q)
  PROVE  ProgressInv'
<1> USE DEF ProgressInv
<1>0. /\ UNCHANGED <<server, checked, activity, refresh, killed, progress>>
      /\ now' \in {now, now + 1}
  BY DEF P!Tick, P!Incomplete, P!vars, P!Ask, P!ReadChecked, P!Put
<1>1. Chained'
  BY <1>0 DEF Chained
<1>2. Timed'
  BY <1>0 DEF Timed, Holding, P!TypeOK, P!Refresh
<1>3. P!KilledWasIdle'
  BY <1>0 DEF P!KilledWasIdle
<1>4. P!CompleteIsComplete'
  <2>1. CASE P!Incomplete
    BY <2>1 DEF P!Incomplete, P!IsSphere1Incomplete, P!CompleteIsComplete, Chained
  <2>2. CASE complete' = complete
    BY <1>0, <2>2 DEF P!CompleteIsComplete
  <2> QED BY <2>1, <2>2 DEF P!Tick, P!vars, P!Ask, P!ReadChecked, P!Put
<1>5. RequestsApart' /\ Fresh'
  <2>1. CASE UNCHANGED <<request, cache, dirty, overlap>>
    BY <1>0, <2>1 DEF RequestsApart, Fresh, P!Hit, Setting
  <2>2. ASSUME NEW q \in Askers, NEW s \in Slots, P!Ask(q, s) PROVE RequestsApart' /\ Fresh'
    <3>1. /\ UNCHANGED <<cache, dirty>> /\ overlap \subseteq overlap' /\ overlap' \subseteq overlap \cup {s}
          /\ request' = [request EXCEPT ![q] = [pc |-> "read", slot |-> s, read |-> {}]]
          /\ s \notin overlap' => \A p \in P!Refreshers : ~Setting(p)
      BY <2>2 DEF P!Ask, Setting
    <3>2. /\ \A x \in Askers : x # q => request'[x] = request[x]
          /\ request'[q].pc = "read" /\ request'[q].slot = s
      BY <3>1 DEF P!TypeOK
    <3>3. RequestsApart'
      BY <1>0, <3>1, <3>2 DEF RequestsApart, Setting
    <3>4. Fresh'
      BY <1>0, <3>1 DEF Fresh, P!Hit, Setting
    <3> QED BY <3>3, <3>4
  <2>3. ASSUME NEW q \in Askers, P!ReadChecked(q) PROVE RequestsApart' /\ Fresh'
    <3>1. /\ \A x \in Askers : x # q => request'[x] = request[x]
          /\ request[q].pc = "read" /\ request'[q].pc = "put" /\ request'[q].slot = request[q].slot
          /\ request'[q].read = checked[request[q].slot]
          /\ UNCHANGED <<cache, dirty, overlap>>
      BY <2>3 DEF P!ReadChecked, P!TypeOK, P!Request
    <3> QED BY <1>0, <3>1 DEF RequestsApart, Fresh, P!Hit, Setting
  <2>4. ASSUME NEW q \in Askers, P!Put(q) PROVE RequestsApart' /\ Fresh'
    <3> DEFINE s == request[q].slot
    <3>1. /\ \A x \in Askers : x # q => request'[x] = request[x]
          /\ request[q].pc = "put" /\ request'[q].pc = "idle"
          /\ UNCHANGED overlap
      BY <2>4 DEF P!Put, P!TypeOK, P!NoRequest
    <3>2. s \in Slots /\ cache'[s] = request[q].read /\ ~dirty'[s]
          /\ \A x \in Slots : x # s => cache'[x] = cache[x] /\ dirty'[x] = dirty[x]
      BY <2>4, <3>1 DEF P!Put, RequestsApart, P!TypeOK
    <3>3. RequestsApart'
      BY <1>0, <3>1 DEF RequestsApart, Setting
    <3>4. ASSUME NEW x \in Slots \ overlap, P!Hit(x)'
          PROVE  /\ cache'[x] = checked'[x]
                 /\ \A p \in P!Refreshers : Setting(p)' => refresh'[p].new[x] = checked'[x]
      <4>1. CASE x = s
        BY <1>0, <3>1, <3>2, <4>1 DEF RequestsApart, Setting
      <4>2. CASE x # s
        BY <1>0, <3>2, <3>4, <4>2 DEF Fresh, P!Hit, Setting
      <4> QED BY <4>1, <4>2
    <3> QED BY <3>1, <3>3, <3>4 DEF Fresh
  <2> QED BY <2>1, <2>2, <2>3, <2>4 DEF P!Tick, P!Incomplete, P!vars
<1> QED BY <1>1, <1>2, <1>3, <1>4, <1>5

(* A refresher begins, fails to fetch or decides: none of what refreshes   *)
(* hold changes.                                                           *)
LEMMA ProgressControlStep ==
  ASSUME ProgressInv, P!TypeOK',
         P!Poll \/ P!KillerLooks \/ P!KillerDecides \/ \E p \in P!Refreshers : P!FetchFails(p)
  PROVE  ProgressInv'
<1> USE DEF ProgressInv
<1>0. /\ UNCHANGED <<server, checked, cache, dirty, complete, activity, now, request, progress, overlap>>
      /\ \A p \in P!Refreshers : refresh'[p] = refresh[p]
           \/ /\ ~Holding(p) /\ ~Holding(p)'
              /\ refresh'[p].new = refresh[p].new \/ refresh'[p] = P!Resting
              /\ refresh'[p].pc = "decide" => ~refresh'[p].ok
  BY DEF P!Poll, P!KillerLooks, P!KillerDecides, P!FetchFails, P!Goto, P!AfterRefresh, P!TypeOK, P!Refresh,
    Holding, P!Refreshers, P!Resting
<1>1. Chained'
  BY <1>0, RestingType DEF Chained
<1>2. \A p \in P!Refreshers : /\ Setting(p)' => Setting(p) /\ refresh'[p] = refresh[p]
                              /\ Holding(p)' => Holding(p) /\ refresh'[p] = refresh[p]
  BY <1>0 DEF Setting, Holding
<1>3. RequestsApart'
  BY <1>0, <1>2 DEF RequestsApart
<1>4. Fresh'
  BY <1>0, <1>2 DEF Fresh, P!Hit
<1>5. Timed'
  BY <1>0, <1>2 DEF Timed, P!Refreshers
<1>6. P!CompleteIsComplete'
  BY <1>0 DEF P!CompleteIsComplete
<1>7. P!KilledWasIdle'
  <2>1. CASE UNCHANGED killed
    BY <2>1 DEF P!KilledWasIdle
  <2>2. CASE P!KillerDecides
    <3>1. refresh["killer"] \in P!Refresh
      BY DEF P!TypeOK, P!Refreshers
    <3> QED BY <2>2, <3>1 DEF P!KillerDecides, P!KilledWasIdle, Timed, P!TypeOK, P!Refresh
  <2> QED BY <2>1, <2>2 DEF P!Poll, P!KillerLooks, P!FetchFails
<1> QED BY <1>1, <1>3, <1>4, <1>5, <1>6, <1>7
(* A location is checked on the server: nobody has its new state yet. *)
LEMMA ProgressCheck ==
  ASSUME ProgressInv, P!TypeOK', NEW s \in Slots, NEW l \in Locations, P!Check(s, l)
  PROVE  ProgressInv'
<1> USE DEF ProgressInv
<1>0. /\ UNCHANGED <<checked, cache, dirty, complete, activity, now, refresh, request, killed, overlap>>
      /\ progress' = now /\ l \notin server[s] /\ l \in server'[s]
      /\ \A x \in Slots : server[x] \subseteq server'[x]
  BY DEF P!Check, P!TypeOK, P!Progress
<1>1. Chained'
  BY <1>0 DEF Chained
<1>2. checked # server' /\ \A p \in P!Refreshers : refresh[p].new # server'
  BY <1>0 DEF Chained
<1>3. Timed'
  BY <1>0, <1>2 DEF Timed, Holding, P!TypeOK
<1>4. RequestsApart' /\ Fresh'
  BY <1>0 DEF RequestsApart, Fresh, P!Hit, Setting
<1>5. P!CompleteIsComplete' /\ P!KilledWasIdle'
  BY <1>0 DEF P!CompleteIsComplete, P!KilledWasIdle, P!TypeOK
<1> QED BY <1>1, <1>3, <1>4, <1>5

LEMMA ProgressFetch ==
  ASSUME ProgressInv, P!TypeOK', NEW p \in P!Refreshers, P!Fetch(p)
  PROVE  ProgressInv'
<1> USE DEF ProgressInv
<1>0. /\ UNCHANGED <<server, checked, cache, dirty, complete, activity, now, request, killed, progress, overlap>>
      /\ \A q \in P!Refreshers : q # p => refresh'[q] = refresh[q]
      /\ refresh[p].pc = "fetch" /\ refresh'[p].pc = "compare" /\ refresh'[p].new = server
      /\ refresh'[p].ok /\ refresh'[p].upTo = progress
  BY DEF P!Fetch, P!TypeOK, P!Refresh
<1>1. Chained'
  BY <1>0 DEF Chained
<1>2. Timed'
  <2>1. /\ progress' <= now' /\ activity' <= now'
        /\ checked' = server' => activity' >= progress'
        /\ refresh'["killer"].pc = "decide" /\ refresh'["killer"].ok
             => activity' >= refresh'["killer"].upTo
    BY <1>0 DEF Timed, P!Refreshers
  <2>2. ASSUME NEW x \in P!Refreshers, Holding(x)'
        PROVE  /\ refresh'[x].upTo <= now /\ refresh'[x].ok
               /\ refresh'[x].new = server => refresh'[x].upTo = progress
               /\ refresh'[x].new = checked => activity >= refresh'[x].upTo
               /\ \A q \in P!Refreshers : Holding(q)' /\ refresh'[x].new = refresh'[q].new =>
                    refresh'[x].upTo = refresh'[q].upTo
               /\ refresh'[x].pc = "activity" /\ ~refresh'[x].changed => activity >= refresh'[x].upTo
               /\ refresh'[x].pc = "set" => activity >= refresh'[x].upTo
    BY <1>0, <2>2 DEF Timed, Holding
  <2> QED BY <1>0, <2>1, <2>2 DEF Timed
<1>3. RequestsApart' /\ Fresh'
  BY <1>0 DEF RequestsApart, Fresh, P!Hit, Setting
<1>4. P!CompleteIsComplete' /\ P!KilledWasIdle'
  BY <1>0 DEF P!CompleteIsComplete, P!KilledWasIdle
<1> QED BY <1>1, <1>2, <1>3, <1>4

(* The numbers of locations are compared: a slot whose answer stays in the *)
(* cache is as it was fetched.                                             *)
LEMMA ProgressCompare ==
  ASSUME IsFiniteSet(Locations), ProgressInv, P!TypeOK', NEW p \in P!Refreshers, P!Compare(p)
  PROVE  ProgressInv'
<1> USE DEF ProgressInv
<1> DEFINE changed == P!Changed(refresh[p].new)
<1>0. /\ UNCHANGED <<server, checked, cache, complete, activity, now, request, killed, progress>>
      /\ \A q \in P!Refreshers : /\ q # p => refresh'[q] = refresh[q]
                                 /\ refresh'[q].new = refresh[q].new /\ refresh'[q].upTo = refresh[q].upTo
                                 /\ refresh'[q].ok = refresh[q].ok
      /\ refresh[p].pc = "compare" /\ refresh'[p].pc = "activity"
      /\ refresh'[p].changed = (changed # {})
      /\ \A s \in Slots : dirty'[s] = (dirty[s] \/ s \in changed)
      /\ overlap' = overlap \cup P!Overlapping
  BY DEF P!Compare, P!TypeOK, P!Refresh
<1>1. \A s \in Slots \ changed : refresh[p].new[s] = checked[s]
  BY UnchangedIsEqual
<1>2. changed = {} => refresh[p].new = checked
  BY <1>1 DEF P!TypeOK, P!Refresh, P!Progress
<1>3. Chained'
  BY <1>0 DEF Chained
<1>4. \A q \in P!Refreshers : Holding(q)' <=> Holding(q)
  BY <1>0 DEF Holding
<1>5. Timed'
  <2>1. ASSUME NEW x \in P!Refreshers, Holding(x)
        PROVE  /\ refresh'[x].upTo <= now /\ refresh'[x].ok
               /\ refresh'[x].new = server => refresh'[x].upTo = progress
               /\ refresh'[x].new = checked => activity >= refresh'[x].upTo
               /\ \A q \in P!Refreshers : Holding(q)' /\ refresh'[x].new = refresh'[q].new =>
                    refresh'[x].upTo = refresh'[q].upTo
               /\ refresh'[x].pc = "activity" /\ ~refresh'[x].changed => activity >= refresh'[x].upTo
               /\ refresh'[x].pc = "set" => activity >= refresh'[x].upTo
    <3>1. /\ refresh[x].upTo <= now /\ refresh[x].ok
          /\ refresh[x].new = server => refresh[x].upTo = progress
          /\ refresh[x].new = checked => activity >= refresh[x].upTo
          /\ refresh[x].pc = "activity" /\ ~refresh[x].changed => activity >= refresh[x].upTo
          /\ refresh[x].pc = "set" => activity >= refresh[x].upTo
      BY <2>1 DEF Timed
    <3>2. \A q \in P!Refreshers : Holding(q)' /\ refresh'[x].new = refresh'[q].new =>
            refresh'[x].upTo = refresh'[q].upTo
      BY <1>0, <1>4, <2>1 DEF Timed
    <3>3. refresh'[x].pc = "activity" /\ ~refresh'[x].changed => activity >= refresh[x].upTo
      BY <1>0, <1>2, <3>1
    <3> QED BY <1>0, <3>1, <3>2, <3>3
  <2>2. refresh'["killer"].pc = "decide" /\ refresh'["killer"].ok => activity' >= refresh'["killer"].upTo
    BY <1>0 DEF Timed, P!Refreshers
  <2> QED BY <1>0, <1>4, <2>1, <2>2 DEF Timed
<1>6. RequestsApart'
  BY <1>0 DEF RequestsApart, P!Overlapping
<1>7. Fresh'
  <2> SUFFICES ASSUME NEW s \in Slots \ overlap', P!Hit(s)'
               PROVE  /\ cache[s] = checked[s]
                      /\ \A q \in P!Refreshers : Setting(q)' => refresh[q].new[s] = checked[s]
    BY <1>0 DEF Fresh
  <2>1. P!Hit(s) /\ s \notin changed /\ s \notin overlap
    BY <1>0 DEF P!Hit, P!TypeOK
  <2>2. \A q \in P!Refreshers : q # p => (Setting(q)' <=> Setting(q))
    BY <1>0 DEF Setting
  <2> QED BY <1>1, <2>1, <2>2 DEF Fresh
<1>8. P!CompleteIsComplete' /\ P!KilledWasIdle'
  BY <1>0 DEF P!CompleteIsComplete, P!KilledWasIdle
<1> QED BY <1>3, <1>5, <1>6, <1>7, <1>8

LEMMA ProgressNote ==
  ASSUME ProgressInv, P!TypeOK', NEW p \in P!Refreshers, P!NoteActivity(p)
  PROVE  ProgressInv'
<1> USE DEF ProgressInv
<1>0. /\ UNCHANGED <<server, checked, cache, dirty, complete, now, request, killed, progress, overlap>>
      /\ activity' = IF refresh[p].changed THEN now ELSE activity
      /\ \A q \in P!Refreshers : /\ q # p => refresh'[q] = refresh[q]
                                 /\ refresh'[q].new = refresh[q].new /\ refresh'[q].upTo = refresh[q].upTo
                                 /\ refresh'[q].ok = refresh[q].ok /\ refresh'[q].changed = refresh[q].changed
      /\ refresh[p].pc = "activity" /\ refresh'[p].pc = "set"
  BY DEF P!NoteActivity, P!Goto, P!TypeOK, P!Refresh
<1>1. Chained'
  BY <1>0 DEF Chained
<1>2. \A q \in P!Refreshers : (Holding(q)' <=> Holding(q)) /\ (Setting(q)' <=> Setting(q))
  BY <1>0 DEF Holding, Setting
<1>3. Timed'
  <2>1. activity' \in Int /\ activity <= activity' /\ activity' <= now
    BY <1>0 DEF Timed, P!TypeOK
  <2>2. \A q \in P!Refreshers : refresh[q].upTo \in Int
    BY DEF P!TypeOK, P!Refresh
  <2>3. activity' >= refresh[p].upTo
    BY <1>0, <2>2 DEF Timed, Holding, P!TypeOK
  <2>4. progress \in Int /\ activity \in Int /\ now \in Int
    BY DEF P!TypeOK
  <2>5. /\ progress' <= now' /\ activity' <= now'
        /\ checked' = server' => activity' >= progress'
    BY <1>0, <2>1, <2>4 DEF Timed
  <2>6. refresh'["killer"].pc = "decide" /\ refresh'["killer"].ok => activity' >= refresh'["killer"].upTo
    BY <1>0, <2>1, <2>2, <2>4 DEF Timed, P!Refreshers
  <2>7. ASSUME NEW x \in P!Refreshers, Holding(x)
        PROVE  /\ refresh'[x].upTo <= now /\ refresh'[x].ok
               /\ refresh'[x].new = server => refresh'[x].upTo = progress
               /\ refresh'[x].new = checked => activity' >= refresh'[x].upTo
               /\ \A q \in P!Refreshers : Holding(q)' /\ refresh'[x].new = refresh'[q].new =>
                    refresh'[x].upTo = refresh'[q].upTo
               /\ refresh'[x].pc = "activity" /\ ~refresh'[x].changed => activity' >= refresh'[x].upTo
               /\ refresh'[x].pc = "set" => activity' >= refresh'[x].upTo
    BY <1>0, <1>2, <2>1, <2>2, <2>3, <2>4, <2>7 DEF Timed
  <2> QED BY <1>0, <1>2, <2>5, <2>6, <2>7 DEF Timed
<1>4. RequestsApart' /\ Fresh'
  BY <1>0, <1>2 DEF RequestsApart, Fresh, P!Hit
<1>5. P!CompleteIsComplete' /\ P!KilledWasIdle'
  BY <1>0 DEF P!CompleteIsComplete, P!KilledWasIdle
<1> QED BY <1>1, <1>3, <1>4, <1>5

LEMMA ProgressSet ==
  ASSUME ProgressInv, P!TypeOK', NEW p \in P!Refreshers, P!SetChecked(p)
  PROVE  ProgressInv'
<1> USE DEF ProgressInv
<1>0. /\ UNCHANGED <<server, cache, dirty, complete, activity, now, request, killed, progress>>
      /\ checked' = refresh[p].new
      /\ \A q \in P!Refreshers : q # p => refresh'[q] = refresh[q]
      /\ refresh[p].pc = "set" /\ refresh'[p].pc = P!AfterRefresh(p)
      /\ refresh'[p].new = P!Resting.new /\ refresh'[p].upTo = refresh[p].upTo
      /\ overlap' = overlap \cup P!Overlapping
  BY DEF P!SetChecked, P!TypeOK, P!Refresh
<1>1. Chained'
  BY <1>0, RestingType DEF Chained
<1>2. ~Holding(p)' /\ ~Setting(p)' /\ Holding(p) /\ Setting(p)
  BY <1>0 DEF Holding, Setting, P!AfterRefresh
<1>3. \A q \in P!Refreshers : q # p => (Holding(q)' <=> Holding(q)) /\ (Setting(q)' <=> Setting(q))
  BY <1>0 DEF Holding, Setting
<1>4. Timed'
  <2>1. activity >= refresh[p].upTo /\ refresh[p].ok
    BY <1>0, <1>2 DEF Timed
  <2>2. /\ progress' <= now' /\ activity' <= now'
        /\ checked' = server' => activity' >= progress'
    BY <1>0, <1>2, <2>1 DEF Timed
  <2>3. refresh'["killer"].pc = "decide" /\ refresh'["killer"].ok => activity' >= refresh'["killer"].upTo
    BY <1>0, <2>1 DEF Timed, P!Refreshers
  <2>4. ASSUME NEW x \in P!Refreshers, Holding(x)'
        PROVE  /\ refresh'[x].upTo <= now /\ refresh'[x].ok
               /\ refresh'[x].new = server => refresh'[x].upTo = progress
               /\ refresh'[x].new = checked' => activity >= refresh'[x].upTo
               /\ \A q \in P!Refreshers : Holding(q)' /\ refresh'[x].new = refresh'[q].new =>
                    refresh'[x].upTo = refresh'[q].upTo
               /\ refresh'[x].pc = "activity" /\ ~refresh'[x].changed => activity >= refresh'[x].upTo
               /\ refresh'[x].pc = "set" => activity >= refresh'[x].upTo
    BY <1>0, <1>2, <1>3, <2>1, <2>4 DEF Timed
  <2> QED BY <1>0, <2>2, <2>3, <2>4 DEF Timed
<1>5. RequestsApart'
  BY <1>0 DEF RequestsApart, P!Overlapping
<1>6. Fresh'
  BY <1>0, <1>2, <1>3 DEF Fresh, P!Hit
<1>7. P!CompleteIsComplete' /\ P!KilledWasIdle'
  BY <1>0 DEF P!CompleteIsComplete, P!KilledWasIdle
<1> QED BY <1>1, <1>4, <1>5, <1>6, <1>7

LEMMA ProgressStep ==
  ASSUME IsFiniteSet(Locations), Timeout \in Nat, ProgressInv, [P!Next]_P!vars
  PROVE  ProgressInv'
<1>1. P!TypeOK'
  BY ProgressTypeStep DEF ProgressInv
<1>2. ASSUME NEW p \in P!Refreshers, P!RefreshStep(p) PROVE ProgressInv'
  BY <1>1, <1>2, ProgressControlStep, ProgressFetch, ProgressCompare, ProgressNote, ProgressSet
    DEF P!RefreshStep
<1> QED BY <1>1, <1>2, ProgressOtherStep, ProgressControlStep, ProgressCheck DEF P!Next

LEMMA ProgressInitial == ASSUME P!Init PROVE ProgressInv
<1>1. P!TypeOK
  <2>1. P!NoRequest \in P!Request
    BY DEF P!NoRequest, P!Request
  <2>2. [x \in Slots |-> {}] \in P!Progress
    BY DEF P!Progress
  <2> QED BY <2>1, <2>2, RestingType DEF P!Init, P!TypeOK
<1>2. \A p \in P!Refreshers : ~Holding(p) /\ ~Setting(p) /\ refresh[p].pc # "decide"
  BY RestingType DEF P!Init, Holding, Setting
<1>3. Chained
  BY RestingType DEF P!Init, Chained
<1>4. RequestsApart /\ Fresh
  BY DEF P!Init, P!NoRequest, RequestsApart, Fresh, P!Hit
<1>5. Timed
  BY <1>2 DEF P!Init, Timed, P!Refreshers
<1>6. P!CompleteIsComplete /\ P!KilledWasIdle
  BY DEF P!Init, P!CompleteIsComplete, P!KilledWasIdle
<1> QED BY <1>1, <1>3, <1>4, <1>5, <1>6 DEF ProgressInv

(* refreshCheckedLocations: with the poller's and the killer's refreshes   *)
(* and any number of requests interleaved, an answer of the cache is made  *)
(* from the locations apx knows, a slot noted as through with sphere 1 is, *)
(* and the killer goes by a fetch that shows no location since the         *)
(* deadline. Comparing numbers of locations suffices because the server    *)
(* only adds to them.                                                      *)
THEOREM ProgressStaysTrue ==
  ASSUME IsFiniteSet(Locations), Timeout \in Nat PROVE P!Spec => []ProgressIsTrue
<1>1. P!Init => ProgressInv
  BY ProgressInitial
<1>2. ProgressInv /\ [P!Next]_P!vars => ProgressInv'
  BY ProgressStep
<1>3. ProgressInv => ProgressIsTrue
  BY DEF ProgressInv, ProgressIsTrue, P!ProgressIsTrue, P!CacheIsFresh, Fresh
<1> QED BY <1>1, <1>2, <1>3, PTL DEF P!Spec
=============================================================================
