-------------------------------- MODULE Bounces --------------------------------
(***************************************************************************)
(* apx: bounces and death links of a room (bounce.go, server.go).  Each    *)
(* client's goroutine handles one Bounce message at a time: a death link   *)
(* is counted, may be dropped by the room's probability or its cooldown,   *)
(* and is then broadcast like every other bounce, to the clients of the    *)
(* sender's slot first.  The room's settings change between the steps: a   *)
(* slot may be limited to itself, and tags of a slot excluded.             *)
(*                                                                         *)
(* A client matches a message by a tag, its game or its slot.  Who is      *)
(* connected, and with which tags, is fixed here (see ConnectionRegistry). *)
(***************************************************************************)
EXTENDS Integers, Sequences, FiniteSets

CONSTANTS
  Clients,    \* registered clients
  SlotOf,     \* their slots
  GameOf,     \* their games
  TagsOf,     \* their tags
  Messages,   \* bounces: [tags, games, slots]
  Throttle,   \* deathlinkThrottle
  MaxTime,    \* bound: the clock
  MaxSent,    \* bound: messages
  MaxEdits    \* bound: changes of the settings

VARIABLES
  isolated,   \* bounceInfoStore.ownSlotOnly
  excluded,   \* bounceInfoStore.excludedByTag
  certain,    \* whether deathlinkProbability is 1
  last,       \* bounceInfoStore.lastDeathlink
  counts,     \* bounceInfoStore.counts
  now,        \* the clock
  task,       \* the message each client's goroutine handles, and who got it
  accepts,    \* history: the times death links passed the cooldown with
  sent,       \* bound: messages begun
  edits       \* bound: changes made

vars == <<isolated, excluded, certain, last, counts, now, task, accepts, sent, edits>>

PlayedSlots == {SlotOf[c] : c \in Clients}
Tags == UNION {m.tags : m \in Messages}
NoMessage == [tags |-> {}, games |-> {}, slots |-> {}]

(* always, ever: history of the handling of a message: what was in force   *)
(* from its beginning on, and what was at some moment.                     *)
Rules(i, e) == [isolated |-> i, excluded |-> e]
Task(pc, msg, i, e) ==
  [pc |-> pc, msg |-> msg, tags |-> msg.tags, at |-> 0, got |-> {}, dropped |-> FALSE,
   always |-> Rules(i, e), ever |-> Rules(i, e)]
Idle == Task("idle", NoMessage, {}, [s \in PlayedSlots |-> {}])

Init ==
  /\ isolated = {}
  /\ excluded = [s \in PlayedSlots |-> {}]
  /\ certain = TRUE
  /\ last = -Throttle
  /\ counts = [s \in PlayedSlots |-> 0]
  /\ now = 0
  /\ task = [c \in Clients |-> Idle]
  /\ accepts = << >>
  /\ sent = 0 /\ edits = 0

At(c, pc) == task[c].pc = pc
Goto(c, pc) == task' = [task EXCEPT ![c].pc = pc]

-----------------------------------------------------------------------------
(* The settings                                                            *)

(* The rules in force change for the messages under way.                   *)
Note(i, e) ==
  task' = [c \in Clients |->
             IF At(c, "idle") THEN task[c]
             ELSE [task[c] EXCEPT
                     !.always = Rules(@.isolated \cap i,
                                      [s \in PlayedSlots |-> @.excluded[s] \cap e[s]]),
                     !.ever = Rules(@.isolated \cup i,
                                    [s \in PlayedSlots |-> @.excluded[s] \cup e[s]])]]

(* LimitToOwnSlot, RemoveLimitToOwnSlot                                    *)
Limit(s) ==
  /\ edits < MaxEdits /\ edits' = edits + 1
  /\ isolated' = IF s \in isolated THEN isolated \ {s} ELSE isolated \cup {s}
  /\ Note(isolated', excluded)
  /\ UNCHANGED <<excluded, certain, last, counts, now, accepts, sent>>

(* ExcludeByTag, UnexcludeByTag                                            *)
Exclude(s, t) ==
  /\ edits < MaxEdits /\ edits' = edits + 1
  /\ excluded' = [excluded EXCEPT ![s] = IF t \in @ THEN @ \ {t} ELSE @ \cup {t}]
  /\ Note(isolated, excluded')
  /\ UNCHANGED <<isolated, certain, last, counts, now, accepts, sent>>

SetProbability ==
  /\ edits < MaxEdits /\ edits' = edits + 1
  /\ certain' = ~certain
  /\ UNCHANGED <<isolated, excluded, last, counts, now, task, accepts, sent>>

Tick ==
  /\ now < MaxTime
  /\ now' = now + 1
  /\ UNCHANGED <<isolated, excluded, certain, last, counts, task, accepts, sent, edits>>

-----------------------------------------------------------------------------
(* handleBounce, handleDeathLink                                           *)

HandleBounce(c, msg) ==
  /\ At(c, "idle") /\ sent < MaxSent
  /\ sent' = sent + 1
  /\ task' = [task EXCEPT ![c] =
       Task(IF "DeathLink" \in msg.tags THEN "count" ELSE "own", msg, isolated, excluded)]
  /\ UNCHANGED <<isolated, excluded, certain, last, counts, now, accepts, edits>>

(* A packet without a usable time or source is not counted and goes        *)
(* nowhere.                                                                *)
Malformed(c) ==
  /\ At(c, "count")
  /\ task' = [task EXCEPT ![c] = Idle]
  /\ UNCHANGED <<isolated, excluded, certain, last, counts, now, accepts, sent, edits>>

CountDeath(c) ==
  /\ At(c, "count")
  /\ counts' = [counts EXCEPT ![SlotOf[c]] = @ + 1]
  /\ Goto(c, "chance")
  /\ UNCHANGED <<isolated, excluded, certain, last, now, accepts, sent, edits>>

(* What is dropped goes back to the connection it came from, and only      *)
(* there.                                                                  *)
Drop(c) == task' = [task EXCEPT ![c].pc = "done", ![c].got = {c}, ![c].dropped = TRUE]

(* The time is taken before the lock of the cooldown.                      *)
Chance(c) ==
  /\ At(c, "chance")
  /\ \/ task' = [task EXCEPT ![c].pc = "cooldown", ![c].at = now]
     \/ ~certain /\ Drop(c)
  /\ UNCHANGED <<isolated, excluded, certain, last, counts, now, accepts, sent, edits>>

CanSendDeathlink(t) == t - last >= Throttle

Cooldown(c) ==
  /\ At(c, "cooldown")
  /\ IF CanSendDeathlink(task[c].at)
     THEN /\ last' = task[c].at
          /\ accepts' = Append(accepts, task[c].at)
          /\ Goto(c, "own")
     ELSE Drop(c) /\ UNCHANGED <<last, accepts>>
  /\ UNCHANGED <<isolated, excluded, certain, counts, now, sent, edits>>

-----------------------------------------------------------------------------
(* BroadcastBounceFromSlot                                                 *)

Matches(r, tags, msg) ==
  \/ TagsOf[r] \cap tags # {}
  \/ GameOf[r] \in msg.games
  \/ SlotOf[r] \in msg.slots

(* broadcastBounceToSlot: before exclusions                                *)
OwnClients(c) == {r \in Clients : SlotOf[r] = SlotOf[c] /\ Matches(r, task[c].tags, task[c].msg)}

(* Mistake: only the sender's limit counts.                                *)
OtherClientsAll(c) ==
  {r \in Clients : SlotOf[r] # SlotOf[c] /\ Matches(r, task[c].tags, task[c].msg)}

(* broadcastBounce: not to the sender's slot, not to one that is limited   *)
OtherClients(c) ==
  {r \in Clients : /\ SlotOf[r] # SlotOf[c]
                   /\ SlotOf[r] \notin isolated
                   /\ Matches(r, task[c].tags, task[c].msg)}

ToOwnSlot(c) ==
  /\ At(c, "own")
  /\ task' = [task EXCEPT ![c].got = OwnClients(c), ![c].pc = "limit"]
  /\ UNCHANGED <<isolated, excluded, certain, last, counts, now, accepts, sent, edits>>

CheckLimit(c) ==
  /\ At(c, "limit")
  /\ Goto(c, IF SlotOf[c] \in isolated THEN "done" ELSE "strip")
  /\ UNCHANGED <<isolated, excluded, certain, last, counts, now, accepts, sent, edits>>

StripTags(c) ==
  /\ At(c, "strip")
  /\ task' = [task EXCEPT ![c].tags = @ \ excluded[SlotOf[c]], ![c].pc = "others"]
  /\ UNCHANGED <<isolated, excluded, certain, last, counts, now, accepts, sent, edits>>

ToOthers(c) ==
  /\ At(c, "others")
  /\ task' = [task EXCEPT ![c].got = @ \cup OtherClients(c), ![c].pc = "done"]
  /\ UNCHANGED <<isolated, excluded, certain, last, counts, now, accepts, sent, edits>>

(* The goroutine goes on to its next message.                              *)
Done(c) ==
  /\ At(c, "done")
  /\ task' = [task EXCEPT ![c] = Idle]
  /\ UNCHANGED <<isolated, excluded, certain, last, counts, now, accepts, sent, edits>>

-----------------------------------------------------------------------------
Step(c) ==
  \/ \E m \in Messages : HandleBounce(c, m)
  \/ Malformed(c) \/ CountDeath(c) \/ Chance(c) \/ Cooldown(c)
  \/ ToOwnSlot(c) \/ CheckLimit(c) \/ StripTags(c) \/ ToOthers(c) \/ Done(c)

Next ==
  \/ Tick \/ SetProbability
  \/ \E s \in PlayedSlots : Limit(s) \/ \E t \in Tags : Exclude(s, t)
  \/ \E c \in Clients : Step(c)

Spec == Init /\ [][Next]_vars

-----------------------------------------------------------------------------
(* A message that was handled, as it came: the tags may have been stripped *)
(* by the rules in force at some moment.                                   *)
Sent(c) == At(c, "done") /\ ~task[c].dropped

(* BroadcastBounceFromSlot: nothing leaves a slot that was limited to      *)
(* itself, or reaches another one that was, all the while the message was  *)
(* handled; other slots get it by a tag only if the tag was not excluded   *)
(* all the while; a dropped death link reaches nobody else.                *)
StaysInside ==
  \A c \in Clients :
    LET t == task[c]
        others == {r \in t.got : SlotOf[r] # SlotOf[c]}
    IN  At(c, "done") =>
          /\ t.dropped => t.got = {c}
          /\ SlotOf[c] \in t.always.isolated => others = {}
          /\ \A r \in others :
               /\ SlotOf[r] \notin t.always.isolated
               /\ Matches(r, t.msg.tags \ t.always.excluded[SlotOf[c]], t.msg)

(* And the other way round: a message reaches every client of the sender's *)
(* slot that matches it, and every other one that matches it and that no   *)
(* rule in force at any moment kept it from.                               *)
ReachesMatches ==
  \A c \in Clients : Sent(c) => \A r \in Clients \ task[c].got :
    LET t == task[c]
    IN  IF SlotOf[r] = SlotOf[c] THEN ~Matches(r, t.msg.tags, t.msg)
        ELSE \/ ~Matches(r, t.msg.tags \ t.ever.excluded[SlotOf[c]], t.msg)
             \/ {SlotOf[r], SlotOf[c]} \cap t.ever.isolated # {}

(* handleBounce and handleDeathLink: a bounce reaches nobody that limits   *)
(* or exclusions keep from it, and everybody else that it names, whatever  *)
(* rules change on its way.                                                *)
DeliveredAsRuled == StaysInside /\ ReachesMatches

(* "2 Second cooldown to help prevent double-deaths" (bounce.go:15): two   *)
(* death links that pass are that far apart, in the order they pass, with  *)
(* any number of clients dying at the same time.                           *)
DeathsApart ==
  \A i, j \in DOMAIN accepts : i < j => accepts[j] - accepts[i] >= Throttle
=============================================================================
