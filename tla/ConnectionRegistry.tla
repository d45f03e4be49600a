-------------------------- MODULE ConnectionRegistry --------------------------
(***************************************************************************)
(* The clients of one room of apx, the proxy between game clients and the  *)
(* Archipelago server: the goroutine of every websocket connection         *)
(* (server.go serveConn, auth.go), the registry of the clients that are    *)
(* authenticated, which the bounces are sent by (server.go                 *)
(* connectionRegistry), and the reload of the slot passwords from the      *)
(* lobby (lobby.go), which kicks the clients of a slot whose password      *)
(* changed.                                                                *)
(*                                                                         *)
(* A connection reads a packet, handles its messages one after the other   *)
(* and reads again.  The registry's methods hold its mutex, so each is one *)
(* step; the check of the password, the answer of the Archipelago server   *)
(* and the registration are three, and so are the read, the write and the  *)
(* kick of a password reload.  A context that was cancelled closes the     *)
(* websocket at some later time (CloseOnCancel), and only then does a read *)
(* or a write fail for certain.                                            *)
(***************************************************************************)
EXTENDS Integers, FiniteSets, Sequences

CONSTANTS
    Conns,          \* websocket connections
    Slots,          \* the slots of the room's players
    NoSlot,         \* slot 0: what a reply that is not Connected registers
    GameOf,         \* the game of every slot, and "" for NoSlot
    Tags,           \* the tags of Connect and ConnectUpdate
    TagLists,       \* the lists of tags that clients send (bound)
    Passwords,      \* slot passwords
    Refreshers,     \* requests that reload the passwords
    MaxFails,       \* refusals after which a connection is closed (code: 10)
    MaxMessages,    \* messages of each connection (bound)
    MaxRefreshes,   \* reloads per requester (bound)
    None            \* no slot, no password, not registered

ASSUME ConstantsAssumption ==
    /\ IsFiniteSet(Conns)
    /\ NoSlot \notin Slots
    /\ None \notin Slots \cup {NoSlot} \cup Passwords
    /\ TagLists \subseteq Seq(Tags)
    /\ MaxFails \in Nat
    /\ MaxMessages \in [Conns -> Nat]
    /\ MaxRefreshes \in Nat

AllSlots == Slots \cup {NoSlot}

Games == {GameOf[s] : s \in AllSlots}

VARIABLES
    conn,       \* connectionState, its goroutine's place, and its context
    clients,    \* connectionRegistry.clients: slot -> registered clients
    tags,       \* connectionRegistry.tags: client -> its list of tags
    byGame,     \* connectionRegistry.clientsByGame
    byTag,      \* connectionRegistry.clientsByTag: how often a client is in it
    passwords,  \* passwordStore
    refresh,    \* the reloads under way
    kicked,     \* history: clients that Kick disconnected
    late,       \* history: clients past the password check during a Kick
    crossed     \* history: slots with a password that one reload took for unchanged
                \* while another had written its own, and not kicked since

vars == <<conn, clients, tags, byGame, byTag, passwords, refresh, kicked, late, crossed>>

registry == <<clients, tags, byGame, byTag>>

histories == <<kicked, late, crossed>>

(* How often a list names a tag: the client is in the tag's slice as often. *)
Count(list, t) == Cardinality({i \in DOMAIN list : list[i] = t})

-----------------------------------------------------------------------------
(* The state.                                                              *)

Conn == [pc : {"new", "read", "handle", "ap", "register", "ended"},
         batch : Nat,                         \* messages of the packet left
         sent : Nat,                          \* messages received so far
         slot : Slots \cup {None},            \* slotName
         password : Passwords \cup {None},    \* of the Connect under way
         client : AllSlots \cup {None},       \* registeredClient.slotId
         fails : Nat,                         \* authFailCount
         proxy : BOOLEAN,                     \* goroutine server -> client runs
         cancelled : BOOLEAN,                 \* the context is cancelled
         closed : BOOLEAN]                    \* the websocket is closed

NewConn == [pc |-> "new", batch |-> 0, sent |-> 0, slot |-> None,
            password |-> None, client |-> None, fails |-> 0,
            proxy |-> FALSE, cancelled |-> FALSE, closed |-> FALSE]

Refresh == [pc : {"idle", "next", "set", "kick"},
            list : [Slots -> Passwords \cup {None}],
            todo : SUBSET Slots,
            slot : Slots \cup {None},
            current : Passwords \cup {None},
            runs : 0..MaxRefreshes]

IdleRefresh(n) == [pc |-> "idle", list |-> [s \in Slots |-> None], todo |-> {},
                   slot |-> None, current |-> None, runs |-> n]

Init ==
    /\ conn = [c \in Conns |-> NewConn]
    /\ clients = [s \in AllSlots |-> {}]
    /\ tags = [c \in Conns |-> << >>]
    /\ byGame = [g \in Games |-> {}]
    /\ byTag = [t \in Tags |-> [c \in Conns |-> 0]]
    /\ passwords \in [Slots -> Passwords \cup {None}]
    /\ refresh = [r \in Refreshers |-> IdleRefresh(0)]
    /\ kicked = {}
    /\ late = {} /\ crossed = {}

-----------------------------------------------------------------------------
(* connectionRegistry: each method is one critical section.                *)

(* removeClient, once for every tag of a list: it never goes below zero. *)
Less(n, k) == IF k >= n THEN 0 ELSE n - k

Register(c, s, list) ==
    /\ clients' = [clients EXCEPT ![s] = @ \cup {c}]
    /\ tags' = [tags EXCEPT ![c] = list]
    /\ byGame' = [byGame EXCEPT ![GameOf[s]] = @ \cup {c}]
    /\ byTag' = [t \in Tags |->
                   [byTag[t] EXCEPT ![c] = @ + Count(list, t)]]

(* Mutant: the old tags' lists keep the client. *)
UpdateTagsKeepsOld(c, list) ==
    /\ byTag' = [t \in Tags |-> [byTag[t] EXCEPT ![c] = @ + Count(list, t)]]
    /\ tags' = [tags EXCEPT ![c] = list]
    /\ UNCHANGED <<clients, byGame>>

(* Nothing here asks whether the client is registered. *)
UpdateTags(c, list) ==
    /\ byTag' = [t \in Tags |->
                   [byTag[t] EXCEPT ![c] = Less(@, Count(tags[c], t))
                                             + Count(list, t)]]
    /\ tags' = [tags EXCEPT ![c] = list]
    /\ UNCHANGED <<clients, byGame>>

(* Removing a set of clients of one slot from the registry. *)
Remove(s, gone) ==
    /\ clients' = [clients EXCEPT ![s] = @ \ gone]
    /\ tags' = [c \in Conns |-> IF c \in gone THEN << >> ELSE tags[c]]
    /\ byGame' = [byGame EXCEPT ![GameOf[s]] = @ \ gone]
    /\ byTag' = [t \in Tags |->
                   [c \in Conns |-> IF c \in gone
                                    THEN Less(byTag[t][c], Count(tags[c], t))
                                    ELSE byTag[t][c]]]

(* Mutant: the clients are taken out of the indexes, but not disconnected. *)
KickOnlyForgets(s) ==
    /\ Remove(s, clients[s])
    /\ kicked' = kicked \cup clients[s]
    /\ UNCHANGED <<conn, late, crossed>>

(* The clients of the slot are disconnected and taken out of every index. *)
Kick(s) ==
    /\ Remove(s, clients[s])
    /\ conn' = [c \in Conns |-> IF c \in clients[s]
                                THEN [conn[c] EXCEPT !.cancelled = TRUE]
                                ELSE conn[c]]
    /\ kicked' = kicked \cup clients[s]
    /\ late' = late \cup {c \in Conns : /\ conn[c].pc \in {"ap", "register"}
                                        /\ conn[c].slot = s}
    /\ crossed' = crossed \ {s}

(* Mutant: a cancelled client is taken for one that was kicked. *)
UnregisterUnlessCancelled(c) ==
    IF conn[c].client # None /\ ~conn[c].cancelled
    THEN Remove(conn[c].client, {c})
    ELSE UNCHANGED registry

(* A client that Kick removed before is not found: nothing is done. *)
Unregister(c) ==
    LET s == conn[c].client
    IN  IF s # None /\ c \in clients[s]
        THEN Remove(s, {c})
        ELSE UNCHANGED registry

-----------------------------------------------------------------------------
(* serveConn: the connection's goroutine.                                  *)

Set(c, d) == conn' = [conn EXCEPT ![c] = d]

(* The state after a message was handled: on to the packet's next one. *)
Handled(d) == [d EXCEPT !.batch = @ - 1,
                        !.pc = IF d.batch = 1 THEN "read" ELSE "handle"]

Others == UNCHANGED <<registry, passwords, refresh, histories>>

(* The websocket is accepted and RoomInfo written. *)
Accept(c) ==
    /\ conn[c].pc = "new"
    /\ Set(c, [conn[c] EXCEPT !.pc = "read"])
    /\ Others

(* A packet of one or more messages. *)
Read(c) ==
    /\ conn[c].pc = "read"
    /\ ~conn[c].closed
    /\ \E n \in 1..(MaxMessages[c] - conn[c].sent) :
          Set(c, [conn[c] EXCEPT !.pc = "handle", !.batch = n, !.sent = @ + n])
    /\ Others

(* The read fails: the deferred calls unregister the client, cancel and    *)
(* close.  connectionState goes with the goroutine.                        *)
End(c) ==
    /\ conn[c].pc = "read"
    /\ conn[c].closed
    /\ Unregister(c)
    /\ Set(c, [NewConn EXCEPT !.pc = "ended", !.cancelled = TRUE,
                              !.closed = TRUE])
    /\ UNCHANGED <<passwords, refresh, histories>>

(* A message that leaves the connection and the registry alone: GetData-   *)
(* Package, Say, Bounce, what is passed on, and what cannot be read.       *)
PassOn(c) ==
    /\ conn[c].pc = "handle"
    /\ Set(c, Handled(conn[c]))
    /\ Others

-----------------------------------------------------------------------------
(* auth.go: Connect.                                                       *)

(* sendConnectionRefused: a write that fails ends the connection at once,  *)
(* and so does one refusal too many.                                       *)
Refused(d) ==
    LET cut == [d EXCEPT !.cancelled = TRUE, !.closed = TRUE]
    IN  {cut} \cup
        IF d.closed THEN {}
        ELSE {IF d.fails + 1 > MaxFails
              THEN [cut EXCEPT !.fails = @ + 1]
              ELSE [d EXCEPT !.fails = @ + 1]}

(* validatePassword *)
PasswordOk(s, p) == passwords[s] # None /\ p = passwords[s]

(* handleConnect up to its call of connectAP: an unknown name, a wrong     *)
(* password, or a full feed where only the reduced one is allowed, all of  *)
(* which any client may ask for, is refused.                               *)
Connect(c) ==
    /\ conn[c].pc = "handle"
    /\ conn[c].client = None
    /\ \/ \E d \in Refused(conn[c]) : Set(c, Handled(d))
       \/ \E s \in Slots, p \in Passwords :
            /\ PasswordOk(s, p)
            /\ Set(c, [conn[c] EXCEPT !.pc = "ap", !.slot = s, !.password = p])
    /\ Others

(* What Connect was asked for is forgotten when it came to nothing. *)
NotConnected(d) == [d EXCEPT !.slot = None, !.password = None]

(* connectAP fails before the answer is forwarded to the client. *)
ServerFails(c) ==
    /\ conn[c].pc = "ap"
    /\ Set(c, Handled(NotConnected(conn[c])))
    /\ Others

(* The server refuses: the last refusal closes, and does not cancel. *)
RefusedByServer(d) ==
    IF d.fails + 1 > MaxFails
    THEN [d EXCEPT !.fails = @ + 1, !.closed = TRUE]
    ELSE [d EXCEPT !.fails = @ + 1]

ServerRefuses(c) ==
    /\ conn[c].pc = "ap"
    /\ ~conn[c].closed
    /\ Set(c, Handled(RefusedByServer(NotConnected(conn[c]))))
    /\ Others

(* The answer was forwarded and the proxy goroutine started. *)
ServerAnswers(c) ==
    /\ conn[c].pc = "ap"
    /\ ~conn[c].closed
    /\ Set(c, [conn[c] EXCEPT !.pc = "register", !.proxy = TRUE])
    /\ Others

(* The end of handleConnect: the client is registered for the slot of the  *)
(* server's answer, slot 0 with the game "" if no Connected was in it, and *)
(* with the tags of the message.                                           *)
ConnectRegister(c) ==
    /\ conn[c].pc = "register"
    /\ \E s \in {conn[c].slot, NoSlot}, list \in TagLists :
          /\ Register(c, s, list)
          /\ Set(c, Handled([conn[c] EXCEPT !.client = s]))
    /\ UNCHANGED <<passwords, refresh, histories>>

(* handleAuthedConnect: another name closes the connection; otherwise the  *)
(* message goes to the server and, when that worked, the tags are taken    *)
(* (when it did not, the message did nothing: PassOn).                     *)
AuthedConnect(c) ==
    /\ conn[c].pc = "handle"
    /\ conn[c].client # None
    /\ \/ /\ Set(c, Handled([conn[c] EXCEPT !.closed = TRUE]))
          /\ UNCHANGED registry
       \/ /\ Set(c, Handled(conn[c]))
          /\ \E list \in TagLists : UpdateTags(c, list)
    /\ UNCHANGED <<passwords, refresh, histories>>

(* handleConnectUpdate takes the tags before it tells the server. *)
ConnectUpdate(c) ==
    /\ conn[c].pc = "handle"
    /\ conn[c].client # None
    /\ Set(c, Handled(conn[c]))
    /\ \E list \in TagLists : UpdateTags(c, list)
    /\ UNCHANGED <<passwords, refresh, histories>>

-----------------------------------------------------------------------------
(* What ends a connection from outside its goroutine.                      *)

Open(c) == conn[c].pc \notin {"new", "ended"}

(* The connection to the server broke, or a write to the client failed. *)
ProxyEnds(c) ==
    /\ conn[c].proxy
    /\ Set(c, [conn[c] EXCEPT !.proxy = FALSE, !.cancelled = TRUE])
    /\ Others

(* keepalive: the ping was not answered in time. *)
PingTimeout(c) ==
    /\ Open(c)
    /\ ~conn[c].cancelled
    /\ Set(c, [conn[c] EXCEPT !.cancelled = TRUE])
    /\ Others

(* The client goes away. *)
ClientCloses(c) ==
    /\ Open(c)
    /\ ~conn[c].closed
    /\ Set(c, [conn[c] EXCEPT !.closed = TRUE])
    /\ Others

(* The websocket library closes a connection whose context is cancelled. *)
CloseOnCancel(c) ==
    /\ conn[c].cancelled
    /\ ~conn[c].closed
    /\ Set(c, [conn[c] EXCEPT !.closed = TRUE])
    /\ Others

-----------------------------------------------------------------------------
(* lobby.go: the reload of the passwords.                                  *)

SetRefresh(r, d) == refresh' = [refresh EXCEPT ![r] = d]

(* handlePasswordRefresh has fetched the passwords of the lobby. *)
StartRefresh(r) ==
    /\ refresh[r].pc = "idle"
    /\ refresh[r].runs < MaxRefreshes
    /\ \E list \in [Slots -> Passwords \cup {None}] :
          SetRefresh(r, [refresh[r] EXCEPT !.pc = "next", !.list = list,
                                           !.todo = Slots, !.runs = @ + 1])
    /\ UNCHANGED <<conn, registry, passwords, histories>>

(* The next slot: one without a password loses it, and nobody is kicked. *)
RefreshNext(r) ==
    /\ refresh[r].pc = "next"
    /\ \/ /\ refresh[r].todo = {}
          /\ SetRefresh(r, IdleRefresh(refresh[r].runs))
          /\ UNCHANGED passwords
       \/ \E s \in refresh[r].todo :
            LET d == [refresh[r] EXCEPT !.todo = @ \ {s}]
            IN  IF d.list[s] = None
                THEN /\ passwords' = [passwords EXCEPT ![s] = None]
                     /\ SetRefresh(r, d)
                ELSE /\ SetRefresh(r, [d EXCEPT !.pc = "set", !.slot = s,
                                                !.current = passwords[s]])
                     /\ UNCHANGED passwords
    /\ UNCHANGED <<conn, registry, histories>>

(* Mutant: only a slot that had no password is kicked. *)
ChangedUnset(current, new) == current = None /\ current # new

(* Whether the password the store had is another one, or none. *)
Changed(current, new) == current # new

RefreshSet(r) ==
    /\ refresh[r].pc = "set"
    /\ LET s == refresh[r].slot
           new == refresh[r].list[s]
           kick == Changed(refresh[r].current, new)
       IN  /\ passwords' = [passwords EXCEPT ![s] = new]
           /\ SetRefresh(r, [refresh[r] EXCEPT !.pc = IF kick THEN "kick" ELSE "next"])
           /\ crossed' = IF ~kick /\ passwords[s] # refresh[r].current THEN crossed \cup {s}
                         ELSE crossed
    /\ UNCHANGED <<conn, registry, kicked, late>>

RefreshKick(r) ==
    /\ refresh[r].pc = "kick"
    /\ Kick(refresh[r].slot)
    /\ SetRefresh(r, [refresh[r] EXCEPT !.pc = "next"])
    /\ UNCHANGED passwords

-----------------------------------------------------------------------------
(* The steps the goroutine takes by itself, without a client's packet. *)
HandlerStep(c) ==
    \/ PassOn(c) \/ Connect(c) \/ ServerFails(c) \/ ServerRefuses(c)
    \/ ServerAnswers(c) \/ ConnectRegister(c) \/ AuthedConnect(c)
    \/ ConnectUpdate(c) \/ End(c)

ConnNext(c) ==
    \/ Accept(c) \/ Read(c) \/ HandlerStep(c)
    \/ ProxyEnds(c) \/ PingTimeout(c) \/ ClientCloses(c) \/ CloseOnCancel(c)

RefreshStep(r) ==
    StartRefresh(r) \/ RefreshNext(r) \/ RefreshSet(r) \/ RefreshKick(r)

Next ==
    \/ \E c \in Conns : ConnNext(c)
    \/ \E r \in Refreshers : RefreshStep(r)

Spec == Init /\ [][Next]_vars

(* A goroutine runs on once it has something to do, and the library closes *)
(* what is cancelled.                                                      *)
Fairness ==
    \A c \in Conns : WF_vars(HandlerStep(c)) /\ WF_vars(CloseOnCancel(c))

FairSpec == Spec /\ Fairness

-----------------------------------------------------------------------------
(* Properties.                                                             *)

Registered(c) == conn[c].client # None /\ c \in clients[conn[c].client]

(* The type of every variable. *)
TypeOK ==
    /\ conn \in [Conns -> Conn]
    /\ clients \in [AllSlots -> SUBSET Conns]
    /\ tags \in [Conns -> TagLists \cup {<< >>}]
    /\ byGame \in [Games -> SUBSET Conns]
    /\ byTag \in [Tags -> [Conns -> Nat]]
    /\ passwords \in [Slots -> Passwords \cup {None}]
    /\ refresh \in [Refreshers -> Refresh]
    /\ kicked \in SUBSET Conns
    /\ late \in SUBSET Conns
    /\ crossed \in SUBSET Slots

(* The three indexes describe the same clients: a client is under the slot *)
(* and the game it registered with and no other, and in the list of a tag  *)
(* as often as its own list of tags names it, however the registrations,   *)
(* changes of tags, kicks and departures interleave (server.go:235-367).   *)
IndexesAgree ==
    /\ \A s \in AllSlots : clients[s] \subseteq {c \in Conns : conn[c].client = s}
    /\ \A g \in Games :
          byGame[g] = {c \in Conns : Registered(c) /\ GameOf[conn[c].client] = g}
    /\ \A t \in Tags, c \in Conns : byTag[t][c] = Count(tags[c], t)

(* No bounce goes to a connection that has ended: it is in no index, but   *)
(* for one case, a client that was kicked and whose goroutine still had a  *)
(* change of tags to handle: UpdateTags puts it back, and Unregister finds *)
(* nothing to remove (server.go:286, 338).                                 *)
EndedIsForgotten ==
    \A c \in Conns :
       conn[c].pc = "ended" =>
          /\ \A s \in AllSlots : c \notin clients[s]
          /\ \A g \in Games : c \notin byGame[g]
          /\ c \notin kicked => \A t \in Tags : byTag[t][c] = 0

(* A client that is connected holds the present password of its slot, for  *)
(* any number of reloads at a time, unless the slot has lost its password, *)
(* its kick is still to come, it was between its own check and its         *)
(* registration while its slot was kicked, or a reload compared with a     *)
(* password that another one had replaced since (lobby.go:44-58,           *)
(* auth.go:109-147).                                                       *)
KickedOnChange ==
    \A c \in Conns :
       LET s == conn[c].client
       IN  s \in Slots \ crossed /\ Registered(c) /\ c \notin late =>
              \/ passwords[s] \in {None, conn[c].password}
              \/ \E r \in Refreshers : refresh[r].pc = "kick" /\ refresh[r].slot = s

(* A connection that was refused once too often is not let in by a later   *)
(* message of the same packet (auth.go:126-136, 348-370).                  *)
LockedOut ==
    \A c \in Conns : conn[c].fails > MaxFails => ~Registered(c)

(* A client that is kicked is soon disconnected, whatever its goroutine    *)
(* was doing (server.go:313-314, 673-693).                                 *)
KickedEnds ==
    \A c \in Conns : c \in kicked ~> conn[c].pc = "ended"
=============================================================================
