----------------------- MODULE ConnectionRegistryProofs -----------------------
(***************************************************************************)
(* What holds of ConnectionRegistry for every set of connections, slots,   *)
(* tags and passwords, and for every number of messages and reloads.       *)
(***************************************************************************)
EXTENDS ConnectionRegistry, FiniteSetTheorems, TLAPS

Lists == TagLists \cup {<< >>}

\* The types of the registry, and of the password store with its reloads.
RegistryType ==
    /\ conn \in [Conns -> Conn]
    /\ clients \in [AllSlots -> SUBSET Conns]
    /\ tags \in [Conns -> Lists]
    /\ byGame \in [Games -> SUBSET Conns]
    /\ byTag \in [Tags -> [Conns -> Nat]]
    /\ kicked \in SUBSET Conns
    /\ late \in SUBSET Conns

StoreType ==
    /\ passwords \in [Slots -> Passwords \cup {None}]
    /\ refresh \in [Refreshers -> Refresh]
    /\ crossed \in SUBSET Slots

\* What a connection's own state says: a message is being handled, Connect is
\* under way only where nobody is registered, and the lock-out is final.
LocalInv(d) ==
    /\ d.pc \in {"handle", "ap", "register"} => d.batch >= 1
    /\ d.pc \in {"ap", "register"} => d.client = None /\ d.slot \in Slots
    /\ d.pc = "ended" => d.client = None
    /\ d.fails > MaxFails => d.closed /\ d.client = None /\ d.pc # "register"

\* What a connection's state says of the registry: who is authenticated is
\* registered or was kicked, and only they have tags.
EntryInv(c) ==
    /\ conn[c].client # None => Registered(c) \/ c \in kicked
    /\ c \in kicked => conn[c].client # None \/ conn[c].pc = "ended"
    /\ ~Registered(c) /\ c \notin kicked => tags[c] = << >>

RegistryInv ==
    /\ RegistryType
    /\ IndexesAgree
    /\ \A c \in Conns : LocalInv(conn[c])
    /\ \A c \in Conns : EntryInv(c)

LEMMA TypesTogether == TypeOK <=> RegistryType /\ StoreType
BY DEF TypeOK, RegistryType, StoreType, Lists

-----------------------------------------------------------------------------
LEMMA CountType ==
  ASSUME NEW list \in Lists, NEW t
  PROVE  Count(list, t) \in Nat /\ Count(<< >>, t) = 0
<1>1. list \in Seq(Tags)
  <2>1. CASE list \in TagLists BY <2>1, ConstantsAssumption
  <2>2. CASE list = << >> BY <2>2
  <2> QED BY <2>1, <2>2 DEF Lists
<1>2. Len(list) \in Nat /\ DOMAIN list = 1..Len(list)
  BY <1>1
<1>3. IsFiniteSet(1..Len(list))
  BY <1>2, FS_Interval
<1>4. {i \in DOMAIN list : list[i] = t} \subseteq 1..Len(list)
  BY <1>2
<1>5. IsFiniteSet({i \in DOMAIN list : list[i] = t})
  BY <1>3, <1>4, FS_Subset
<1>6. Count(list, t) \in Nat
  BY <1>5, FS_CardinalityType DEF Count
<1>7. {i \in DOMAIN << >> : << >>[i] = t} = {}
  OBVIOUS
<1>8. Count(<< >>, t) = 0
  BY <1>7, FS_EmptySet DEF Count
<1> QED BY <1>6, <1>8

LEMMA LessAll ==
  ASSUME NEW n \in Nat PROVE Less(n, n) = 0
BY DEF Less

-----------------------------------------------------------------------------
\* A step of a connection to d keeps the slot and the password of a client that
\* is authenticated or being let in, and lets in only with the right password.
Credentials(c, d) ==
    /\ d.client # None => d.slot = conn[c].slot /\ d.password = conn[c].password
    /\ d.pc \in {"ap", "register"} =>
          \/ /\ conn[c].pc \in {"ap", "register"}
             /\ d.slot = conn[c].slot /\ d.password = conn[c].password
          \/ PasswordOk(d.slot, d.password)

\* A step of one connection that leaves the registry alone.
Quiet(c) ==
    /\ \E d \in Conn :
          /\ conn' = [conn EXCEPT ![c] = d]
          /\ d.client = conn[c].client
          /\ conn[c].pc = "ended" => d.pc = "ended"
          /\ LocalInv(d)
          /\ Credentials(c, d)
    /\ UNCHANGED <<registry, histories, passwords, refresh>>

LEMMA QuietStep ==
  ASSUME RegistryInv, NEW c \in Conns, Quiet(c)
  PROVE  RegistryInv'
<1>1. PICK d \in Conn : /\ conn' = [conn EXCEPT ![c] = d]
                        /\ d.client = conn[c].client
                        /\ conn[c].pc = "ended" => d.pc = "ended"
                        /\ LocalInv(d)
  BY DEF Quiet
<1>2. UNCHANGED <<clients, tags, byGame, byTag, kicked, late>>
  BY DEF Quiet, registry, histories
<1>3. RegistryType'
  BY <1>1, <1>2 DEF RegistryInv, RegistryType
<1>4. \A e \in Conns : /\ conn'[e].client = conn[e].client
                       /\ conn[e].pc = "ended" => conn'[e].pc = "ended"
                       /\ LocalInv(conn'[e])
  BY <1>1 DEF RegistryInv, RegistryType
<1>5. \A e \in Conns : Registered(e)' <=> Registered(e)
  BY <1>2, <1>4 DEF Registered
<1>6. IndexesAgree'
  BY <1>2, <1>4, <1>5 DEF RegistryInv, IndexesAgree
<1>7. \A e \in Conns : EntryInv(e)'
  BY <1>2, <1>4, <1>5 DEF RegistryInv, EntryInv
<1> QED BY <1>3, <1>4, <1>6, <1>7 DEF RegistryInv

\* A connection's state stays one when its fields are assigned typed values.
LEMMA ConnUpdate ==
  ASSUME NEW d \in Conn, NEW n \in Nat, NEW k \in Nat, NEW b \in BOOLEAN,
         NEW x \in {"new", "read", "handle", "ap", "register", "ended"},
         NEW s \in Slots \cup {None}, NEW p \in Passwords \cup {None},
         NEW a \in AllSlots \cup {None}
  PROVE  /\ [d EXCEPT !.batch = n, !.pc = x] \in Conn
         /\ [d EXCEPT !.pc = x] \in Conn
         /\ [d EXCEPT !.pc = x, !.batch = n, !.sent = k] \in Conn
         /\ [d EXCEPT !.pc = x, !.proxy = TRUE] \in Conn
         /\ [d EXCEPT !.pc = x, !.slot = s, !.password = p] \in Conn
         /\ [d EXCEPT !.slot = None, !.password = None] \in Conn
         /\ [d EXCEPT !.cancelled = TRUE] \in Conn
         /\ [d EXCEPT !.closed = TRUE] \in Conn
         /\ [d EXCEPT !.cancelled = TRUE, !.closed = TRUE] \in Conn
         /\ [d EXCEPT !.proxy = FALSE, !.cancelled = TRUE] \in Conn
         /\ [d EXCEPT !.fails = n] \in Conn
         /\ [d EXCEPT !.fails = n, !.closed = b] \in Conn
         /\ [d EXCEPT !.client = a] \in Conn
<1>1. [d EXCEPT !.batch = n, !.pc = x] \in Conn BY DEF Conn
<1>2. [d EXCEPT !.pc = x] \in Conn BY DEF Conn
<1>3. [d EXCEPT !.pc = x, !.batch = n, !.sent = k] \in Conn BY DEF Conn
<1>4. [d EXCEPT !.pc = x, !.proxy = TRUE] \in Conn BY DEF Conn
<1>5. [d EXCEPT !.pc = x, !.slot = s, !.password = p] \in Conn BY DEF Conn
<1>6. [d EXCEPT !.slot = None, !.password = None] \in Conn BY DEF Conn
<1>7. [d EXCEPT !.cancelled = TRUE] \in Conn BY DEF Conn
<1>8. [d EXCEPT !.closed = TRUE] \in Conn BY DEF Conn
<1>9. [d EXCEPT !.cancelled = TRUE, !.closed = TRUE] \in Conn BY DEF Conn
<1>10. [d EXCEPT !.proxy = FALSE, !.cancelled = TRUE] \in Conn BY DEF Conn
<1>11. [d EXCEPT !.fails = n] \in Conn BY DEF Conn
<1>12. [d EXCEPT !.fails = n, !.closed = b] \in Conn BY DEF Conn
<1>13. [d EXCEPT !.client = a] \in Conn BY DEF Conn
<1> QED BY <1>1, <1>2, <1>3, <1>4, <1>5, <1>6, <1>7, <1>8, <1>9, <1>10, <1>11,
           <1>12, <1>13

\* The state after a message is one of a connection that is at work.
LEMMA HandledState ==
  ASSUME NEW d \in Conn, d.batch >= 1
  PROVE  /\ Handled(d) \in Conn
         /\ Handled(d).client = d.client /\ Handled(d).fails = d.fails
         /\ Handled(d).closed = d.closed
         /\ Handled(d).slot = d.slot /\ Handled(d).password = d.password
         /\ Handled(d).pc \in {"read", "handle"}
         /\ Handled(d).pc = "handle" => Handled(d).batch >= 1
<1> DEFINE e == Handled(d)
<1>1. /\ d.batch \in Nat /\ d.sent \in Nat /\ d.fails \in Nat
  BY DEF Conn
<1>2. e \in Conn
  <2>1. CASE d.batch = 1
    <3>1. e = [d EXCEPT !.batch = 0, !.pc = "read"] BY <2>1 DEF Handled
    <3> HIDE DEF e
    <3> QED BY <3>1, ConnUpdate
  <2>2. CASE d.batch # 1
    <3>1. e = [d EXCEPT !.batch = d.batch - 1, !.pc = "handle"] BY <2>2 DEF Handled
    <3>2. d.batch - 1 \in Nat BY <1>1
    <3> HIDE DEF e
    <3> QED BY <3>1, <3>2, ConnUpdate
  <2> QED BY <2>1, <2>2
<1>3. e.client = d.client /\ e.fails = d.fails /\ e.closed = d.closed
      /\ e.slot = d.slot /\ e.password = d.password
  BY DEF Conn, Handled
<1>4. e.pc = (IF d.batch = 1 THEN "read" ELSE "handle") /\ e.batch = d.batch - 1
  BY DEF Conn, Handled
<1> QED BY <1>1, <1>2, <1>3, <1>4

LEMMA RefusedStates ==
  ASSUME NEW d \in Conn, NEW e \in Refused(d)
  PROVE  /\ e \in Conn /\ e.batch = d.batch /\ e.client = d.client
         /\ e.fails > MaxFails => e.closed
<1> DEFINE cut == [d EXCEPT !.cancelled = TRUE, !.closed = TRUE]
<1>0. cut \in Conn
  BY DEF Conn
<1>a. cut.batch = d.batch /\ cut.client = d.client /\ cut.fails = d.fails
      /\ d.fails \in Nat
  BY DEF Conn
<1>b. cut.closed = TRUE
  BY DEF Conn
<1>1. cut \in Conn /\ cut.batch = d.batch /\ cut.client = d.client
      /\ cut.closed = TRUE /\ cut.fails = d.fails /\ d.fails \in Nat
  BY <1>0, <1>a, <1>b
<1>2. CASE e = cut
  BY <1>1, <1>2
<1>3. CASE e = [cut EXCEPT !.fails = @ + 1]
  <2>1. e = [cut EXCEPT !.fails = cut.fails + 1] BY <1>3
  <2>2. cut.fails + 1 \in Nat BY <1>1
  <2> HIDE DEF cut
  <2>3. e \in Conn BY <1>1, <2>1, <2>2 DEF Conn
  <2>4. e.batch = cut.batch /\ e.client = cut.client /\ e.closed = cut.closed
    BY <1>1, <2>1 DEF Conn
  <2> QED BY <1>1, <2>3, <2>4
<1>4. CASE ~(d.fails + 1 > MaxFails) /\ e = [d EXCEPT !.fails = @ + 1]
  <2>1. e = [d EXCEPT !.fails = d.fails + 1] BY <1>4
  <2>2. d.fails + 1 \in Nat BY <1>1
  <2>3. e \in Conn BY <2>1, <2>2, ConnUpdate
  <2>4. e.batch = d.batch /\ e.client = d.client /\ e.fails = d.fails + 1
    BY <2>1 DEF Conn
  <2> QED BY <1>4, <2>2, <2>3, <2>4, ConstantsAssumption
<1> QED BY <1>2, <1>3, <1>4 DEF Refused

LEMMA ServerRefusedState ==
  ASSUME NEW d \in Conn
  PROVE  /\ RefusedByServer(d) \in Conn
         /\ RefusedByServer(d).batch = d.batch
         /\ RefusedByServer(d).client = d.client
         /\ RefusedByServer(d).fails > MaxFails => RefusedByServer(d).closed
<1> DEFINE e == RefusedByServer(d)
<1>1. d.fails + 1 \in Nat
  BY DEF Conn
<1>2. CASE d.fails + 1 > MaxFails
  <2>1. e = [d EXCEPT !.fails = d.fails + 1, !.closed = TRUE]
    BY <1>2 DEF RefusedByServer
  <2> HIDE DEF e
  <2>2. e \in Conn BY <1>1, <2>1, ConnUpdate
  <2>3. e.batch = d.batch /\ e.client = d.client /\ e.closed = TRUE
    BY <2>1 DEF Conn
  <2>4. QED BY <2>2, <2>3 DEF e
<1>3. CASE ~(d.fails + 1 > MaxFails)
  <2>1. e = [d EXCEPT !.fails = d.fails + 1]
    BY <1>3 DEF RefusedByServer
  <2> HIDE DEF e
  <2>2. e \in Conn BY <1>1, <2>1, ConnUpdate
  <2>3. e.batch = d.batch /\ e.client = d.client /\ e.fails = d.fails + 1
    BY <2>1 DEF Conn
  <2>4. QED BY <1>1, <1>3, <2>2, <2>3, ConstantsAssumption DEF e
<1> QED BY <1>2, <1>3

LEMMA NotConnectedState ==
  ASSUME NEW d \in Conn
  PROVE  /\ NotConnected(d) \in Conn
         /\ NotConnected(d).batch = d.batch /\ NotConnected(d).client = d.client
         /\ NotConnected(d).fails = d.fails /\ NotConnected(d).closed = d.closed
BY DEF NotConnected, Conn

-----------------------------------------------------------------------------
\* What the invariant says of the connection that takes a step.
LEMMA AtWork ==
  ASSUME RegistryInv, NEW c \in Conns
  PROVE  /\ conn[c] \in Conn /\ LocalInv(conn[c])
         /\ conn[c].batch \in Nat /\ conn[c].sent \in Nat /\ conn[c].fails \in Nat
         /\ conn[c].pc \in {"handle", "ap", "register"} => conn[c].batch >= 1
BY DEF RegistryInv, RegistryType, LocalInv, Conn

\* A step to the state d, which leaves the registry alone.
LEMMA QuietBy ==
  ASSUME NEW c \in Conns, NEW d \in Conn, Set(c, d), Others,
         d.client = conn[c].client, conn[c].pc = "ended" => d.pc = "ended",
         LocalInv(d), Credentials(c, d)
  PROVE  Quiet(c)
BY DEF Quiet, Set, Others

LEMMA AcceptQuiet ==
  ASSUME RegistryInv, NEW c \in Conns, Accept(c) PROVE Quiet(c)
<1> DEFINE d == [conn[c] EXCEPT !.pc = "read"]
<1>1. d \in Conn BY AtWork DEF Conn
<1>2. d.client = conn[c].client /\ d.pc = "read" /\ d.fails = conn[c].fails
      /\ d.closed = conn[c].closed /\ d.slot = conn[c].slot
      /\ d.password = conn[c].password
  BY AtWork DEF Conn
<1>3. conn[c].pc = "new" /\ Set(c, d) /\ Others BY DEF Accept
<1> HIDE DEF d
<1>4. LocalInv(d) /\ Credentials(c, d) BY <1>2, AtWork DEF LocalInv, Credentials
<1> QED BY <1>1, <1>2, <1>3, <1>4, QuietBy

LEMMA ReadQuiet ==
  ASSUME RegistryInv, NEW c \in Conns, Read(c) PROVE Quiet(c)
<1>1. PICK n \in 1..(MaxMessages[c] - conn[c].sent) :
         Set(c, [conn[c] EXCEPT !.pc = "handle", !.batch = n, !.sent = @ + n])
  BY DEF Read
<1> DEFINE k == conn[c].sent + n
           d == [conn[c] EXCEPT !.pc = "handle", !.batch = n, !.sent = k]
<1>2. n \in Nat /\ n >= 1 /\ k \in Nat
  BY AtWork, ConstantsAssumption
<1>3. Set(c, d)
  BY <1>1 DEF Set
<1> HIDE DEF k
<1>4. d \in Conn BY <1>2, AtWork, ConnUpdate
<1>5. d.client = conn[c].client /\ d.pc = "handle" /\ d.fails = conn[c].fails
      /\ d.closed = conn[c].closed /\ d.batch = n /\ d.slot = conn[c].slot
      /\ d.password = conn[c].password
  BY AtWork DEF Conn
<1>6. conn[c].pc = "read" /\ Others BY DEF Read
<1> HIDE DEF d
<1>7. LocalInv(d) /\ Credentials(c, d)
  BY <1>2, <1>5, AtWork DEF LocalInv, Credentials
<1> QED BY <1>3, <1>4, <1>5, <1>6, <1>7, QuietBy

\* A message was handled, and its state d left nobody newly authenticated.
LEMMA HandledQuiet ==
  ASSUME RegistryInv, NEW c \in Conns, NEW d \in Conn,
         conn[c].pc \in {"handle", "ap"}, Set(c, Handled(d)), Others,
         d.batch = conn[c].batch, d.client = conn[c].client,
         d.client # None => d.slot = conn[c].slot /\ d.password = conn[c].password,
         d.fails > MaxFails => d.closed /\ d.client = None
  PROVE  Quiet(c)
<1>1. d.batch >= 1 BY AtWork
<1>2. /\ Handled(d) \in Conn /\ Handled(d).client = d.client
      /\ Handled(d).fails = d.fails /\ Handled(d).closed = d.closed
      /\ Handled(d).slot = d.slot /\ Handled(d).password = d.password
      /\ Handled(d).pc \in {"read", "handle"}
      /\ Handled(d).pc = "handle" => Handled(d).batch >= 1
  BY <1>1, HandledState
<1>3. LocalInv(Handled(d)) /\ Credentials(c, Handled(d))
  BY <1>2 DEF LocalInv, Credentials
<1>4. conn[c].pc # "ended" OBVIOUS
<1> QED BY <1>2, <1>3, <1>4, QuietBy

LEMMA PassOnQuiet ==
  ASSUME RegistryInv, NEW c \in Conns, PassOn(c) PROVE Quiet(c)
<1>1. conn[c] \in Conn /\ (conn[c].fails > MaxFails
                            => conn[c].closed /\ conn[c].client = None)
  BY AtWork DEF LocalInv
<1> QED BY <1>1, HandledQuiet DEF PassOn

LEMMA ConnectQuiet ==
  ASSUME RegistryInv, NEW c \in Conns, Connect(c) PROVE Quiet(c)
<1>1. conn[c].pc = "handle" /\ conn[c].client = None /\ Others
  BY DEF Connect
<1>2. ASSUME NEW e \in Refused(conn[c]), Set(c, Handled(e)) PROVE Quiet(c)
  <2>1. /\ e \in Conn /\ e.batch = conn[c].batch /\ e.client = conn[c].client
        /\ e.fails > MaxFails => e.closed
    BY <1>2, AtWork, RefusedStates
  <2> QED BY <1>1, <1>2, <2>1, HandledQuiet
<1>3. ASSUME NEW s \in Slots, NEW p \in Passwords,
             PasswordOk(s, p),
             Set(c, [conn[c] EXCEPT !.pc = "ap", !.slot = s, !.password = p])
      PROVE  Quiet(c)
  <2> DEFINE d == [conn[c] EXCEPT !.pc = "ap", !.slot = s, !.password = p]
  <2>1. d \in Conn BY AtWork DEF Conn
  <2>2. d.client = conn[c].client /\ d.pc = "ap" /\ d.fails = conn[c].fails
        /\ d.closed = conn[c].closed /\ d.batch = conn[c].batch /\ d.slot = s
        /\ d.password = p
    BY AtWork DEF Conn
  <2>3. Set(c, d) BY <1>3
  <2> HIDE DEF d
  <2>4. LocalInv(d) /\ Credentials(c, d)
    BY <1>1, <1>3, <2>2, AtWork DEF LocalInv, Credentials
  <2> QED BY <1>1, <2>1, <2>2, <2>3, <2>4, QuietBy
<1> QED BY <1>2, <1>3 DEF Connect

LEMMA ServerFailsQuiet ==
  ASSUME RegistryInv, NEW c \in Conns, ServerFails(c) PROVE Quiet(c)
<1> DEFINE d == NotConnected(conn[c])
<1>1. /\ d \in Conn /\ d.batch = conn[c].batch /\ d.client = conn[c].client
      /\ d.fails = conn[c].fails /\ d.closed = conn[c].closed
  BY AtWork, NotConnectedState
<1>2. Set(c, Handled(d)) /\ conn[c].pc = "ap" /\ Others BY DEF ServerFails
<1> HIDE DEF d
<1>3. conn[c].client = None /\ (d.fails > MaxFails => d.closed /\ d.client = None)
  BY <1>1, <1>2, AtWork DEF LocalInv
<1> QED BY <1>1, <1>2, <1>3, HandledQuiet

LEMMA ServerRefusesQuiet ==
  ASSUME RegistryInv, NEW c \in Conns, ServerRefuses(c) PROVE Quiet(c)
<1> DEFINE n == NotConnected(conn[c])
           d == RefusedByServer(n)
<1>1. n \in Conn /\ n.batch = conn[c].batch /\ n.client = conn[c].client
  BY AtWork, NotConnectedState
<1>2. Set(c, Handled(d)) /\ conn[c].pc = "ap" /\ Others BY DEF ServerRefuses
<1> HIDE DEF n
<1>3. /\ d \in Conn /\ d.batch = n.batch /\ d.client = n.client
      /\ d.fails > MaxFails => d.closed
  BY <1>1, ServerRefusedState
<1> HIDE DEF d
<1>4. conn[c].client = None BY <1>2, AtWork DEF LocalInv
<1> QED BY <1>1, <1>2, <1>3, <1>4, HandledQuiet

LEMMA ServerAnswersQuiet ==
  ASSUME RegistryInv, NEW c \in Conns, ServerAnswers(c) PROVE Quiet(c)
<1> DEFINE d == [conn[c] EXCEPT !.pc = "register", !.proxy = TRUE]
<1>1. d \in Conn BY AtWork DEF Conn
<1>2. d.client = conn[c].client /\ d.pc = "register" /\ d.fails = conn[c].fails
      /\ d.closed = conn[c].closed /\ d.batch = conn[c].batch
      /\ d.slot = conn[c].slot /\ d.password = conn[c].password
  BY AtWork DEF Conn
<1>3. conn[c].pc = "ap" /\ ~conn[c].closed /\ Set(c, d) /\ Others
  BY DEF ServerAnswers
<1> HIDE DEF d
<1>4. LocalInv(d) /\ Credentials(c, d)
  BY <1>2, <1>3, AtWork DEF LocalInv, Credentials
<1> QED BY <1>1, <1>2, <1>3, <1>4, QuietBy

\* What ends a connection from outside changes only its flags.
LEMMA OutsideQuiet ==
  ASSUME RegistryInv, NEW c \in Conns,
         ProxyEnds(c) \/ PingTimeout(c) \/ ClientCloses(c) \/ CloseOnCancel(c)
  PROVE  Quiet(c)
<1>1. ASSUME NEW d \in Conn, Set(c, d), Others, d.client = conn[c].client,
             d.pc = conn[c].pc, d.batch = conn[c].batch, d.slot = conn[c].slot,
             d.password = conn[c].password, d.fails = conn[c].fails,
             conn[c].closed => d.closed
      PROVE  Quiet(c)
  <2>1. LocalInv(d) /\ Credentials(c, d)
    BY <1>1, AtWork DEF LocalInv, Credentials
  <2> QED BY <1>1, <2>1, QuietBy
<1>2. CASE ProxyEnds(c)
  <2> DEFINE d == [conn[c] EXCEPT !.proxy = FALSE, !.cancelled = TRUE]
  <2>1. d \in Conn BY AtWork DEF Conn
  <2>2. d.client = conn[c].client /\ d.pc = conn[c].pc /\ d.batch = conn[c].batch
        /\ d.slot = conn[c].slot /\ d.fails = conn[c].fails
        /\ d.password = conn[c].password
        /\ d.closed = conn[c].closed
    BY AtWork DEF Conn
  <2>3. Set(c, d) /\ Others BY <1>2 DEF ProxyEnds
  <2> HIDE DEF d
  <2> QED BY <1>1, <2>1, <2>2, <2>3
<1>3. CASE PingTimeout(c)
  <2> DEFINE d == [conn[c] EXCEPT !.cancelled = TRUE]
  <2>1. d \in Conn BY AtWork DEF Conn
  <2>2. d.client = conn[c].client /\ d.pc = conn[c].pc /\ d.batch = conn[c].batch
        /\ d.slot = conn[c].slot /\ d.fails = conn[c].fails
        /\ d.password = conn[c].password
        /\ d.closed = conn[c].closed
    BY AtWork DEF Conn
  <2>3. Set(c, d) /\ Others BY <1>3 DEF PingTimeout
  <2> HIDE DEF d
  <2> QED BY <1>1, <2>1, <2>2, <2>3
<1>4. CASE ClientCloses(c) \/ CloseOnCancel(c)
  <2> DEFINE d == [conn[c] EXCEPT !.closed = TRUE]
  <2>1. d \in Conn BY AtWork DEF Conn
  <2>2. d.client = conn[c].client /\ d.pc = conn[c].pc /\ d.batch = conn[c].batch
        /\ d.slot = conn[c].slot /\ d.fails = conn[c].fails
        /\ d.password = conn[c].password
    BY AtWork DEF Conn
  <2>3. d.closed BY AtWork DEF Conn
  <2>4. Set(c, d) /\ Others BY <1>4 DEF ClientCloses, CloseOnCancel
  <2> HIDE DEF d
  <2> QED BY <1>1, <2>1, <2>2, <2>3, <2>4
<1> QED BY <1>2, <1>3, <1>4

-----------------------------------------------------------------------------
\* The steps that change the registry.

LEMMA RegisterStep ==
  ASSUME RegistryInv, NEW c \in Conns, ConnectRegister(c)
  PROVE  RegistryInv'
<1>1. PICK s \in {conn[c].slot, NoSlot}, list \in TagLists :
         /\ Register(c, s, list)
         /\ Set(c, Handled([conn[c] EXCEPT !.client = s]))
  BY DEF ConnectRegister
<1> DEFINE d == [conn[c] EXCEPT !.client = s]
<1>2. /\ conn[c].pc = "register" /\ conn[c].client = None /\ conn[c].slot \in Slots
      /\ conn[c].batch >= 1 /\ ~(conn[c].fails > MaxFails)
  BY AtWork DEF ConnectRegister, LocalInv
<1>3. s \in AllSlots /\ s # None /\ GameOf[s] \in Games /\ list \in Lists
  BY <1>2, ConstantsAssumption DEF AllSlots, Games, Lists
<1>4. d \in Conn BY <1>3, AtWork DEF Conn
<1>5. d.client = s /\ d.batch = conn[c].batch /\ d.fails = conn[c].fails
  BY AtWork DEF Conn
<1>6. conn' = [conn EXCEPT ![c] = Handled(d)] BY <1>1 DEF Set
<1> HIDE DEF d
<1>7. /\ Handled(d) \in Conn /\ Handled(d).client = s
      /\ ~(Handled(d).fails > MaxFails) /\ Handled(d).pc \in {"read", "handle"}
      /\ Handled(d).pc = "handle" => Handled(d).batch >= 1
  BY <1>2, <1>4, <1>5, HandledState
<1>8. ~Registered(c) /\ c \notin kicked /\ tags[c] = << >>
  BY <1>2 DEF RegistryInv, EntryInv, Registered
<1>9. \A t \in Tags : byTag[t][c] = 0 /\ Count(list, t) \in Nat
  BY <1>3, <1>8, CountType DEF RegistryInv, IndexesAgree
<1>10. kicked' = kicked /\ late' = late
  BY DEF ConnectRegister, histories
<1>11. /\ clients' = [clients EXCEPT ![s] = @ \cup {c}]
       /\ tags' = [tags EXCEPT ![c] = list]
       /\ byGame' = [byGame EXCEPT ![GameOf[s]] = @ \cup {c}]
       /\ byTag' = [t \in Tags |-> [byTag[t] EXCEPT ![c] = @ + Count(list, t)]]
  BY <1>1 DEF Register
<1>12. RegistryType'
  <2>1. conn' \in [Conns -> Conn]
    BY <1>6, <1>7 DEF RegistryInv, RegistryType
  <2>2. clients' \in [AllSlots -> SUBSET Conns] /\ byGame' \in [Games -> SUBSET Conns]
    BY <1>3, <1>11 DEF RegistryInv, RegistryType
  <2>3. tags' \in [Conns -> Lists]
    BY <1>3, <1>11 DEF RegistryInv, RegistryType
  <2>4. byTag' \in [Tags -> [Conns -> Nat]]
    BY <1>9, <1>11 DEF RegistryInv, RegistryType
  <2> QED BY <1>10, <2>1, <2>2, <2>3, <2>4 DEF RegistryInv, RegistryType
<1>13. /\ conn'[c] = Handled(d)
       /\ \A e \in Conns \ {c} : conn'[e] = conn[e] /\ tags'[e] = tags[e]
  BY <1>6, <1>11 DEF RegistryInv, RegistryType
<1>14. Registered(c)'
  BY <1>3, <1>7, <1>11, <1>13 DEF RegistryInv, RegistryType, Registered
<1>15. \A e \in Conns \ {c} : Registered(e)' <=> Registered(e)
  BY <1>3, <1>11, <1>13 DEF RegistryInv, RegistryType, Registered, Conn
<1>16. IndexesAgree'
  <2>1. \A x \in AllSlots : clients'[x] \subseteq {e \in Conns : conn'[e].client = x}
    <3> SUFFICES ASSUME NEW x \in AllSlots, NEW e \in clients'[x]
                 PROVE  e \in Conns /\ conn'[e].client = x
      OBVIOUS
    <3>1. e \in clients[x] \/ (x = s /\ e = c)
      BY <1>3, <1>11 DEF RegistryInv, RegistryType
    <3>2. e \in clients[x] => e # c /\ e \in Conns /\ conn[e].client = x
      BY <1>2, ConstantsAssumption DEF RegistryInv, RegistryType, IndexesAgree, AllSlots
    <3> QED BY <1>7, <1>13, <3>1, <3>2
  <2>2. ASSUME NEW g \in Games
        PROVE  byGame'[g] = {e \in Conns : Registered(e)' /\ GameOf[conn'[e].client] = g}
    <3>1. byGame[g] = {e \in Conns : Registered(e) /\ GameOf[conn[e].client] = g}
      BY DEF RegistryInv, IndexesAgree
    <3>2. byGame'[g] = IF g = GameOf[s] THEN byGame[g] \cup {c} ELSE byGame[g]
      BY <1>3, <1>11 DEF RegistryInv, RegistryType
    <3>3. conn'[c].client = s
      BY <1>7, <1>13
    <3> QED BY <1>8, <1>13, <1>14, <1>15, <3>1, <3>2, <3>3
  <2>3. ASSUME NEW t \in Tags, NEW e \in Conns
        PROVE  byTag'[t][e] = Count(tags'[e], t)
    <3>1. byTag[t][e] = Count(tags[e], t)
      BY DEF RegistryInv, IndexesAgree
    <3>2. byTag'[t][e] = IF e = c THEN byTag[t][c] + Count(list, t) ELSE byTag[t][e]
      BY <1>11 DEF RegistryInv, RegistryType
    <3>3. tags'[c] = list
      BY <1>11 DEF RegistryInv, RegistryType
    <3> QED BY <1>9, <1>13, <3>1, <3>2, <3>3
  <2> QED BY <2>1, <2>2, <2>3 DEF IndexesAgree
<1>17. \A e \in Conns : LocalInv(conn'[e])
  <2>1. LocalInv(conn'[c]) BY <1>7, <1>13 DEF LocalInv
  <2> QED BY <1>13, <2>1 DEF RegistryInv
<1>18. \A e \in Conns : EntryInv(e)'
  <2>1. EntryInv(c)' BY <1>8, <1>10, <1>14 DEF EntryInv
  <2>2. \A e \in Conns \ {c} : EntryInv(e)'
    BY <1>10, <1>13, <1>15 DEF EntryInv, RegistryInv
  <2> QED BY <2>1, <2>2
<1> QED BY <1>12, <1>16, <1>17, <1>18 DEF RegistryInv

LEMMA UpdateTagsStep ==
  ASSUME RegistryInv, NEW c \in Conns, NEW list \in TagLists, UpdateTags(c, list),
         conn[c].pc = "handle", conn[c].client # None,
         Set(c, Handled(conn[c])), UNCHANGED histories
  PROVE  RegistryInv'
<1>1. /\ Handled(conn[c]) \in Conn /\ Handled(conn[c]).client = conn[c].client
      /\ Handled(conn[c]).fails = conn[c].fails
      /\ Handled(conn[c]).pc \in {"read", "handle"}
      /\ Handled(conn[c]).pc = "handle" => Handled(conn[c]).batch >= 1
  BY AtWork, HandledState
<1>2. conn' = [conn EXCEPT ![c] = Handled(conn[c])] BY DEF Set
<1>3. ~(conn[c].fails > MaxFails) BY AtWork DEF LocalInv
<1>4. list \in Lists /\ \A t \in Tags : Count(list, t) \in Nat
  BY CountType DEF Lists
<1>5. /\ tags' = [tags EXCEPT ![c] = list]
      /\ byTag' = [t \in Tags |->
                     [byTag[t] EXCEPT ![c] = Less(@, Count(tags[c], t))
                                               + Count(list, t)]]
      /\ clients' = clients /\ byGame' = byGame /\ kicked' = kicked /\ late' = late
  BY DEF UpdateTags, histories
<1>6. \A e \in Conns : conn'[e].client = conn[e].client /\ conn'[e] \in Conn
  BY <1>1, <1>2 DEF RegistryInv, RegistryType
<1>7. /\ conn'[c] = Handled(conn[c])
      /\ \A e \in Conns \ {c} : conn'[e] = conn[e] /\ tags'[e] = tags[e]
  BY <1>2, <1>5 DEF RegistryInv, RegistryType
<1>8. \A e \in Conns : Registered(e)' <=> Registered(e)
  BY <1>5, <1>6 DEF Registered
<1>9. \A t \in Tags, e \in Conns :
         byTag'[t][e] = IF e = c THEN Count(list, t) ELSE byTag[t][e]
  <2> SUFFICES ASSUME NEW t \in Tags, NEW e \in Conns
               PROVE  byTag'[t][e] = IF e = c THEN Count(list, t) ELSE byTag[t][e]
    OBVIOUS
  <2>1. byTag[t][c] = Count(tags[c], t) /\ byTag[t][c] \in Nat
    BY DEF RegistryInv, RegistryType, IndexesAgree
  <2>2. byTag'[t] = [byTag[t] EXCEPT ![c] = Less(byTag[t][c], byTag[t][c])
                                               + Count(list, t)]
    BY <1>5, <2>1
  <2>3. Less(byTag[t][c], byTag[t][c]) + Count(list, t) = Count(list, t)
    BY <1>4, <2>1, LessAll
  <2>4. DOMAIN byTag[t] = Conns
    BY DEF RegistryInv, RegistryType
  <2> QED BY <2>2, <2>3, <2>4
<1>10. RegistryType'
  <2>1. tags' \in [Conns -> Lists] BY <1>4, <1>5 DEF RegistryInv, RegistryType
  <2>2. conn' \in [Conns -> Conn] BY <1>1, <1>2 DEF RegistryInv, RegistryType
  <2>3. byTag' \in [Tags -> [Conns -> Nat]]
    <3>1. ASSUME NEW t \in Tags PROVE byTag'[t] \in [Conns -> Nat]
      <4> DEFINE n == Less(byTag[t][c], Count(tags[c], t)) + Count(list, t)
      <4>1. byTag'[t] = [byTag[t] EXCEPT ![c] = n] BY <1>5
      <4>2. byTag[t] \in [Conns -> Nat] BY DEF RegistryInv, RegistryType
      <4> HIDE DEF n
      <4>3. n = byTag'[t][c] BY <4>1, <4>2
      <4>4. n \in Nat BY <1>4, <1>9, <4>3
      <4> QED BY <4>1, <4>2, <4>4
    <3>2. byTag' = [t \in Tags |-> byTag'[t]] BY <1>5
    <3> QED BY <3>1, <3>2
  <2> QED BY <1>5, <2>1, <2>2, <2>3 DEF RegistryInv, RegistryType
<1>11. IndexesAgree'
  <2>1. ASSUME NEW t \in Tags, NEW e \in Conns
        PROVE  byTag'[t][e] = Count(tags'[e], t)
    <3>1. tags'[c] = list BY <1>5 DEF RegistryInv, RegistryType
    <3>2. byTag[t][e] = Count(tags[e], t) BY DEF RegistryInv, IndexesAgree
    <3> QED BY <1>7, <1>9, <3>1, <3>2
  <2>2. \A s \in AllSlots : clients'[s] \subseteq {e \in Conns : conn'[e].client = s}
    BY <1>5, <1>6 DEF RegistryInv, IndexesAgree
  <2>3. \A g \in Games :
          byGame'[g] = {e \in Conns : Registered(e)' /\ GameOf[conn'[e].client] = g}
    BY <1>5, <1>6, <1>8 DEF RegistryInv, IndexesAgree
  <2> QED BY <2>1, <2>2, <2>3 DEF IndexesAgree
<1>12. \A e \in Conns : LocalInv(conn'[e])
  <2>1. LocalInv(conn'[c]) BY <1>1, <1>3, <1>7 DEF LocalInv
  <2> QED BY <1>7, <2>1 DEF RegistryInv
<1>13. \A e \in Conns : EntryInv(e)'
  <2>1. EntryInv(c)' BY <1>5, <1>6, <1>8 DEF EntryInv, RegistryInv
  <2>2. \A e \in Conns \ {c} : EntryInv(e)'
    BY <1>5, <1>7, <1>8 DEF EntryInv, RegistryInv
  <2> QED BY <2>1, <2>2
<1> QED BY <1>10, <1>11, <1>12, <1>13 DEF RegistryInv

\* Clients of one slot leave; a connection forgets its registration only if
\* it has none left.
LEMMA RemoveStep ==
  ASSUME RegistryInv, NEW s \in AllSlots, NEW gone \in SUBSET Conns,
         gone \subseteq clients[s], Remove(s, gone), conn' \in [Conns -> Conn],
         \A e \in Conns : \/ conn'[e].client = conn[e].client
                          \/ conn'[e].client = None /\ (Registered(e) => e \in gone)
  PROVE  /\ clients' \in [AllSlots -> SUBSET Conns]
         /\ tags' \in [Conns -> Lists]
         /\ byGame' \in [Games -> SUBSET Conns]
         /\ byTag' \in [Tags -> [Conns -> Nat]]
         /\ IndexesAgree'
         /\ \A e \in Conns : Registered(e)' <=> Registered(e) /\ e \notin gone
         /\ \A e \in Conns : tags'[e] = IF e \in gone THEN << >> ELSE tags[e]
<1>1. GameOf[s] \in Games BY DEF Games
<1>2. /\ clients' = [clients EXCEPT ![s] = @ \ gone]
      /\ tags' = [e \in Conns |-> IF e \in gone THEN << >> ELSE tags[e]]
      /\ byGame' = [byGame EXCEPT ![GameOf[s]] = @ \ gone]
      /\ byTag' = [t \in Tags |->
                     [e \in Conns |-> IF e \in gone
                                      THEN Less(byTag[t][e], Count(tags[e], t))
                                      ELSE byTag[t][e]]]
  BY DEF Remove
<1>3. clients' \in [AllSlots -> SUBSET Conns] /\ byGame' \in [Games -> SUBSET Conns]
  BY <1>1, <1>2 DEF RegistryInv, RegistryType
<1>4. << >> \in Lists BY DEF Lists
<1>5. tags' \in [Conns -> Lists]
  BY <1>2, <1>4 DEF RegistryInv, RegistryType
<1>6. \A e \in Conns : tags'[e] = IF e \in gone THEN << >> ELSE tags[e]
  BY <1>2
<1>7. \A t \in Tags, e \in Conns :
         byTag'[t][e] = (IF e \in gone THEN 0 ELSE byTag[t][e]) /\ byTag[t][e] \in Nat
  <2> SUFFICES ASSUME NEW t \in Tags, NEW e \in Conns
               PROVE  /\ byTag'[t][e] = IF e \in gone THEN 0 ELSE byTag[t][e]
                      /\ byTag[t][e] \in Nat
    OBVIOUS
  <2>1. byTag[t][e] = Count(tags[e], t) /\ byTag[t][e] \in Nat
    BY DEF RegistryInv, RegistryType, IndexesAgree
  <2>2. byTag'[t][e] = IF e \in gone THEN Less(byTag[t][e], byTag[t][e])
                                     ELSE byTag[t][e]
    BY <1>2, <2>1
  <2> QED BY <2>1, <2>2, LessAll
<1>8. byTag' \in [Tags -> [Conns -> Nat]]
  <2>1. ASSUME NEW t \in Tags PROVE byTag'[t] \in [Conns -> Nat]
    <3>1. byTag'[t] = [e \in Conns |-> byTag'[t][e]] BY <1>2
    <3>2. \A e \in Conns : byTag'[t][e] \in Nat BY <1>7
    <3> QED BY <3>1, <3>2
  <2>2. byTag' = [t \in Tags |-> byTag'[t]] BY <1>2
  <2> QED BY <2>1, <2>2
\* Who is in the registry is there under its own slot.
<1>9. \A x \in AllSlots : \A e \in clients[x] :
         e \in Conns /\ conn[e].client = x /\ Registered(e)
  BY ConstantsAssumption DEF RegistryInv, RegistryType, IndexesAgree, Registered, AllSlots
<1>10. \A e \in gone : conn[e].client = s /\ Registered(e)
  BY <1>9
<1>11. \A e \in Conns : Registered(e) /\ e \notin gone => conn'[e].client = conn[e].client
  OBVIOUS
<1>12. \A x \in AllSlots, e \in Conns : e \in clients'[x] <=> e \in clients[x] /\ e \notin gone
  BY <1>2, <1>9, <1>10 DEF RegistryInv, RegistryType
<1>13. \A e \in Conns : Registered(e)' <=> Registered(e) /\ e \notin gone
  <2> SUFFICES ASSUME NEW e \in Conns
               PROVE  Registered(e)' <=> Registered(e) /\ e \notin gone
    OBVIOUS
  <2>1. conn[e].client \in AllSlots \cup {None}
    BY DEF RegistryInv, RegistryType, Conn
  <2>2. CASE conn'[e].client = conn[e].client
    BY <1>12, <2>1, <2>2 DEF Registered
  <2>3. CASE conn'[e].client = None /\ (Registered(e) => e \in gone)
    BY <2>3 DEF Registered
  <2> QED BY <2>2, <2>3
<1>14. IndexesAgree'
  <2>1. \A x \in AllSlots : clients'[x] \subseteq {e \in Conns : conn'[e].client = x}
    <3> SUFFICES ASSUME NEW x \in AllSlots, NEW e \in clients'[x]
                 PROVE  e \in Conns /\ conn'[e].client = x
      OBVIOUS
    <3>1. e \in Conns BY <1>3
    <3>2. e \in clients[x] /\ e \notin gone BY <1>12, <3>1
    <3> QED BY <1>9, <1>11, <3>1, <3>2
  <2>2. ASSUME NEW g \in Games
        PROVE  byGame'[g] = {e \in Conns : Registered(e)' /\ GameOf[conn'[e].client] = g}
    <3>1. byGame[g] = {e \in Conns : Registered(e) /\ GameOf[conn[e].client] = g}
      BY DEF RegistryInv, IndexesAgree
    <3>2. byGame'[g] = IF g = GameOf[s] THEN byGame[g] \ gone ELSE byGame[g]
      BY <1>1, <1>2 DEF RegistryInv, RegistryType
    <3>3. byGame'[g] = byGame[g] \ gone
      BY <1>10, <3>1, <3>2
    <3> QED BY <1>11, <1>13, <3>1, <3>3
  <2>3. ASSUME NEW t \in Tags, NEW e \in Conns
        PROVE  byTag'[t][e] = Count(tags'[e], t)
    <3>1. byTag[t][e] = Count(tags[e], t) BY DEF RegistryInv, IndexesAgree
    <3>2. Count(<< >>, t) = 0 BY <1>4, CountType
    <3> QED BY <1>6, <1>7, <3>1, <3>2
  <2> QED BY <2>1, <2>2, <2>3 DEF IndexesAgree
<1> QED BY <1>3, <1>5, <1>6, <1>8, <1>13, <1>14

LEMMA RemoveNothing ==
  ASSUME RegistryInv, UNCHANGED registry
  PROVE  Remove(NoSlot, {})
<1>1. clients' = clients /\ tags' = tags /\ byGame' = byGame /\ byTag' = byTag
  BY DEF registry
<1>2. NoSlot \in AllSlots /\ GameOf[NoSlot] \in Games
  BY DEF AllSlots, Games
<1>3. clients' = [clients EXCEPT ![NoSlot] = @ \ {}]
  BY <1>1, <1>2 DEF RegistryInv, RegistryType
<1>4. byGame' = [byGame EXCEPT ![GameOf[NoSlot]] = @ \ {}]
  BY <1>1, <1>2 DEF RegistryInv, RegistryType
<1>5. tags' = [e \in Conns |-> tags[e]]
  BY <1>1 DEF RegistryInv, RegistryType
<1>6. byTag' = [t \in Tags |-> [e \in Conns |-> byTag[t][e]]]
  <2>1. ASSUME NEW t \in Tags PROVE byTag[t] = [e \in Conns |-> byTag[t][e]]
    BY DEF RegistryInv, RegistryType
  <2>2. byTag = [t \in Tags |-> byTag[t]]
    BY DEF RegistryInv, RegistryType
  <2> QED BY <1>1, <2>1, <2>2
<1> QED BY <1>3, <1>4, <1>5, <1>6 DEF Remove

LEMMA EndStep ==
  ASSUME RegistryInv, NEW c \in Conns, End(c)
  PROVE  RegistryInv'
<1> DEFINE d == [NewConn EXCEPT !.pc = "ended", !.cancelled = TRUE, !.closed = TRUE]
           k == conn[c].client
<1>1. d \in Conn BY DEF NewConn, Conn
<1>2. d.client = None /\ d.pc = "ended" /\ d.fails = 0
  BY DEF NewConn
<1>3. conn' = [conn EXCEPT ![c] = d] /\ conn[c].pc = "read"
      /\ kicked' = kicked /\ late' = late
  BY DEF End, Set, histories
<1> HIDE DEF d
<1>4. conn' \in [Conns -> Conn] BY <1>1, <1>3 DEF RegistryInv, RegistryType
<1>5. conn'[c] = d /\ \A e \in Conns \ {c} : conn'[e] = conn[e]
  BY <1>3 DEF RegistryInv, RegistryType
<1>6. k \in AllSlots \cup {None} BY AtWork DEF Conn
<1>7. PICK s \in AllSlots, gone \in SUBSET {c} :
         /\ gone \subseteq clients[s] /\ Remove(s, gone) /\ (Registered(c) => c \in gone)
  <2>1. CASE k # None /\ c \in clients[k]
    <3>1. Remove(k, {c}) BY <2>1 DEF End, Unregister
    <3> QED BY <1>6, <2>1, <3>1
  <2>2. CASE ~(k # None /\ c \in clients[k])
    <3>1. UNCHANGED registry BY <2>2 DEF End, Unregister
    <3>2. Remove(NoSlot, {}) BY <3>1, RemoveNothing
    <3>3. ~Registered(c) BY <2>2 DEF Registered
    <3> QED BY <3>2, <3>3 DEF AllSlots
  <2> QED BY <2>1, <2>2
<1>8. gone \in SUBSET Conns OBVIOUS
<1>9. \A e \in Conns : \/ conn'[e].client = conn[e].client
                       \/ conn'[e].client = None /\ (Registered(e) => e \in gone)
  BY <1>2, <1>5, <1>7
<1>10. /\ clients' \in [AllSlots -> SUBSET Conns]
       /\ tags' \in [Conns -> Lists]
       /\ byGame' \in [Games -> SUBSET Conns]
       /\ byTag' \in [Tags -> [Conns -> Nat]]
       /\ IndexesAgree'
       /\ \A e \in Conns : Registered(e)' <=> Registered(e) /\ e \notin gone
       /\ \A e \in Conns : tags'[e] = IF e \in gone THEN << >> ELSE tags[e]
  BY <1>4, <1>7, <1>8, <1>9, RemoveStep
<1>11. RegistryType' BY <1>3, <1>4, <1>10 DEF RegistryInv, RegistryType
<1>12. \A e \in Conns : LocalInv(conn'[e])
  <2>1. LocalInv(conn'[c]) BY <1>2, <1>5, ConstantsAssumption DEF LocalInv
  <2> QED BY <1>5, <2>1 DEF RegistryInv
<1>13. \A e \in Conns : EntryInv(e)'
  <2>1. EntryInv(c)' BY <1>2, <1>3, <1>5, <1>7, <1>10 DEF EntryInv, RegistryInv
  <2>2. \A e \in Conns \ {c} : EntryInv(e)'
    BY <1>3, <1>5, <1>10 DEF EntryInv, RegistryInv
  <2> QED BY <2>1, <2>2
<1> QED BY <1>10, <1>11, <1>12, <1>13 DEF RegistryInv

LEMMA KickStep ==
  ASSUME RegistryInv, NEW s \in Slots, Kick(s)
  PROVE  RegistryInv'
<1>1. s \in AllSlots BY DEF AllSlots
<1>2. Remove(s, clients[s]) /\ clients[s] \in SUBSET Conns
  BY <1>1 DEF Kick, RegistryInv, RegistryType
<1>3. /\ conn' = [e \in Conns |-> IF e \in clients[s]
                                   THEN [conn[e] EXCEPT !.cancelled = TRUE]
                                   ELSE conn[e]]
      /\ kicked' = kicked \cup clients[s]
      /\ late' \in SUBSET Conns
  BY DEF Kick, RegistryInv, RegistryType
<1>4. ASSUME NEW e \in Conns
      PROVE  /\ conn'[e] \in Conn /\ conn'[e].client = conn[e].client
             /\ conn'[e].pc = conn[e].pc /\ conn'[e].batch = conn[e].batch
             /\ conn'[e].slot = conn[e].slot /\ conn'[e].fails = conn[e].fails
             /\ conn'[e].closed = conn[e].closed
  <2>1. conn[e] \in Conn BY DEF RegistryInv, RegistryType
  <2>2. CASE e \notin clients[s] BY <1>3, <2>1, <2>2
  <2>3. CASE e \in clients[s]
    <3>1. conn'[e] = [conn[e] EXCEPT !.cancelled = TRUE] BY <1>3, <2>3
    <3>2. conn'[e] \in Conn BY <2>1, <3>1 DEF Conn
    <3> QED BY <2>1, <3>1, <3>2 DEF Conn
  <2> QED BY <2>2, <2>3
<1>5. conn' \in [Conns -> Conn]
  <2>1. conn' = [e \in Conns |-> conn'[e]] BY <1>3
  <2> QED BY <1>4, <2>1
<1>6. /\ clients' \in [AllSlots -> SUBSET Conns]
      /\ tags' \in [Conns -> Lists]
      /\ byGame' \in [Games -> SUBSET Conns]
      /\ byTag' \in [Tags -> [Conns -> Nat]]
      /\ IndexesAgree'
      /\ \A e \in Conns : Registered(e)' <=> Registered(e) /\ e \notin clients[s]
      /\ \A e \in Conns : tags'[e] = IF e \in clients[s] THEN << >> ELSE tags[e]
  BY <1>1, <1>2, <1>4, <1>5, RemoveStep
<1>7. RegistryType'
  BY <1>2, <1>3, <1>5, <1>6 DEF RegistryInv, RegistryType
<1>8. \A e \in Conns : LocalInv(conn'[e])
  BY <1>4 DEF RegistryInv, LocalInv
<1>9. \A e \in clients[s] : conn[e].client # None
  BY <1>1, ConstantsAssumption DEF RegistryInv, IndexesAgree, AllSlots
<1>10. \A e \in Conns : EntryInv(e)'
  BY <1>3, <1>4, <1>6, <1>9 DEF EntryInv, RegistryInv
<1> QED BY <1>6, <1>7, <1>8, <1>10 DEF RegistryInv

-----------------------------------------------------------------------------
\* The reloads of the passwords.

\* A reload that writes or kicks does so for a slot.
RefreshInv ==
    \A r \in Refreshers : refresh[r].pc \in {"set", "kick"} => refresh[r].slot \in Slots

Pending(s) == \E r \in Refreshers : refresh[r].pc = "kick" /\ refresh[r].slot = s

\* The password a client was let in with is the present one, or its slot has
\* none or is about to be kicked.
Current(c) ==
    \/ passwords[conn[c].slot] \in {None, conn[c].password}
    \/ Pending(conn[c].slot)

LetIn(c) ==
    \/ conn[c].pc \in {"ap", "register"}
    \/ Registered(c) /\ conn[c].client \in Slots

PasswordInv ==
    /\ \A c \in Conns : conn[c].client \in Slots => conn[c].client = conn[c].slot
    /\ \A c \in Conns :
          c \notin late /\ LetIn(c) /\ conn[c].slot \notin crossed => Current(c)

\* What a step of a reload does to the reload and the store.
LEMMA StartRefreshForm ==
  ASSUME StoreType, NEW r \in Refreshers, StartRefresh(r)
  PROVE  /\ \E d \in Refresh : d.pc = "next" /\ refresh' = [refresh EXCEPT ![r] = d]
         /\ refresh[r].pc = "idle" /\ passwords' = passwords
         /\ UNCHANGED <<conn, registry, histories>>
<1>1. PICK list \in [Slots -> Passwords \cup {None}] :
         SetRefresh(r, [refresh[r] EXCEPT !.pc = "next", !.list = list,
                                          !.todo = Slots, !.runs = @ + 1])
  BY DEF StartRefresh
<1> DEFINE n == refresh[r].runs + 1
           d == [refresh[r] EXCEPT !.pc = "next", !.list = list, !.todo = Slots,
                                   !.runs = n]
<1>2. refresh[r] \in Refresh BY DEF StoreType
<1>3. n \in 0..MaxRefreshes
  BY <1>2, ConstantsAssumption DEF StartRefresh, Refresh
<1>4. refresh' = [refresh EXCEPT ![r] = d] BY <1>1 DEF SetRefresh
<1> HIDE DEF n
<1>5. d \in Refresh BY <1>2, <1>3 DEF Refresh
<1>6. d.pc = "next" BY <1>2 DEF Refresh
<1> QED BY <1>4, <1>5, <1>6 DEF StartRefresh

LEMMA RefreshNextForm ==
  ASSUME StoreType, NEW r \in Refreshers, RefreshNext(r)
  PROVE  /\ refresh[r].pc = "next" /\ UNCHANGED <<conn, registry, histories>>
         /\ \E d \in Refresh :
              /\ refresh' = [refresh EXCEPT ![r] = d]
              /\ \/ d.pc \in {"idle", "next"} /\ passwords' = passwords
                 \/ /\ d.pc = "next"
                    /\ \E s \in Slots : passwords' = [passwords EXCEPT ![s] = None]
                 \/ /\ d.pc = "set" /\ d.slot \in Slots /\ passwords' = passwords
                    /\ d.current = passwords[d.slot]
<1>0. refresh[r] \in Refresh /\ refresh[r].runs \in 0..MaxRefreshes
      /\ refresh[r].todo \in SUBSET Slots /\ refresh[r].pc = "next"
      /\ UNCHANGED <<conn, registry, histories>>
  BY DEF StoreType, Refresh, RefreshNext
<1>1. CASE SetRefresh(r, IdleRefresh(refresh[r].runs)) /\ passwords' = passwords
  <2>1. IdleRefresh(refresh[r].runs) \in Refresh BY <1>0 DEF Refresh, IdleRefresh
  <2>2. IdleRefresh(refresh[r].runs).pc = "idle" BY DEF IdleRefresh
  <2> QED BY <1>0, <1>1, <2>1, <2>2 DEF SetRefresh
<1>2. ASSUME NEW s \in refresh[r].todo, passwords' = [passwords EXCEPT ![s] = None],
             SetRefresh(r, [refresh[r] EXCEPT !.todo = @ \ {s}])
      PROVE  \E d \in Refresh : /\ refresh' = [refresh EXCEPT ![r] = d] /\ d.pc = "next"
                               /\ \E x \in Slots : passwords' = [passwords EXCEPT ![x] = None]
  <2> DEFINE d == [refresh[r] EXCEPT !.todo = @ \ {s}]
  <2>1. d \in Refresh BY <1>0 DEF Refresh
  <2>2. d.pc = "next" BY <1>0 DEF Refresh
  <2>3. s \in Slots BY <1>0
  <2> QED BY <1>2, <2>1, <2>2, <2>3 DEF SetRefresh
<1>3. ASSUME NEW s \in refresh[r].todo, passwords' = passwords,
             SetRefresh(r, [[refresh[r] EXCEPT !.todo = @ \ {s}] EXCEPT
                               !.pc = "set", !.slot = s, !.current = passwords[s]])
      PROVE  \E d \in Refresh : /\ refresh' = [refresh EXCEPT ![r] = d]
                               /\ d.pc = "set" /\ d.slot \in Slots
                               /\ passwords' = passwords
                               /\ d.current = passwords[d.slot]
  <2> DEFINE e == [refresh[r] EXCEPT !.todo = @ \ {s}]
             p == passwords[s]
             d == [e EXCEPT !.pc = "set", !.slot = s, !.current = p]
  <2>1. e \in Refresh BY <1>0 DEF Refresh
  <2>2. s \in Slots /\ p \in Passwords \cup {None} BY <1>0 DEF StoreType
  <2>3. refresh' = [refresh EXCEPT ![r] = d] BY <1>3 DEF SetRefresh
  <2>a. d.current = passwords[s]
    <3> HIDE DEF e
    <3> QED BY <2>1 DEF Refresh
  <2> HIDE DEF e, p
  <2>4. d \in Refresh BY <2>1, <2>2 DEF Refresh
  <2>5. d.pc = "set" /\ d.slot = s BY <2>1 DEF Refresh
  <2> QED BY <1>3, <2>2, <2>3, <2>4, <2>5, <2>a
<1> QED BY <1>0, <1>1, <1>2, <1>3 DEF RefreshNext

LEMMA RefreshSetForm ==
  ASSUME StoreType, RefreshInv, NEW r \in Refreshers, RefreshSet(r)
  PROVE  /\ refresh[r].pc = "set" /\ refresh[r].slot \in Slots
         /\ UNCHANGED <<conn, registry, kicked, late>>
         /\ crossed' \in {crossed, crossed \cup {refresh[r].slot}}
         /\ \E d \in Refresh, p \in Passwords \cup {None} :
              /\ refresh' = [refresh EXCEPT ![r] = d] /\ d.slot = refresh[r].slot
              /\ passwords' = [passwords EXCEPT ![d.slot] = p]
              /\ \/ d.pc = "next" /\ (p = passwords[d.slot] \/ d.slot \in crossed')
                 \/ d.pc = "kick"
<1> DEFINE s == refresh[r].slot
           p == refresh[r].list[s]
           x == IF Changed(refresh[r].current, p) THEN "kick" ELSE "next"
           d == [refresh[r] EXCEPT !.pc = x]
<1>1. refresh[r].pc = "set" /\ s \in Slots /\ refresh[r] \in Refresh
      /\ UNCHANGED <<conn, registry, kicked, late>>
      /\ crossed' \in {crossed, crossed \cup {s}}
  BY DEF StoreType, RefreshInv, RefreshSet
<1>2. p \in Passwords \cup {None} BY <1>1 DEF Refresh
<1>3. refresh' = [refresh EXCEPT ![r] = d] /\ passwords' = [passwords EXCEPT ![s] = p]
  BY DEF RefreshSet, SetRefresh
<1>4. x \in {"next", "kick"} /\ (x = "next" => p = passwords[s] \/ s \in crossed')
  BY DEF Changed, RefreshSet
<1> HIDE DEF x, p
<1>5. d \in Refresh BY <1>1, <1>4 DEF Refresh
<1>6. d.pc = x /\ d.slot = s BY <1>1 DEF Refresh
<1> QED BY <1>1, <1>2, <1>3, <1>4, <1>5, <1>6

LEMMA RefreshKickForm ==
  ASSUME StoreType, RefreshInv, NEW r \in Refreshers, RefreshKick(r)
  PROVE  /\ refresh[r].pc = "kick" /\ refresh[r].slot \in Slots
         /\ Kick(refresh[r].slot) /\ passwords' = passwords
         /\ \E d \in Refresh : d.pc = "next" /\ refresh' = [refresh EXCEPT ![r] = d]
<1> DEFINE d == [refresh[r] EXCEPT !.pc = "next"]
<1>1. refresh[r] \in Refresh BY DEF StoreType
<1>2. d \in Refresh /\ d.pc = "next" BY <1>1 DEF Refresh
<1>3. refresh' = [refresh EXCEPT ![r] = d] BY DEF RefreshKick, SetRefresh
<1> QED BY <1>2, <1>3 DEF RefreshKick, RefreshInv

-----------------------------------------------------------------------------
\* A step of a connection is quiet, registers, changes tags or ends it.
TagStep(c) ==
    \E list \in TagLists :
       /\ UpdateTags(c, list) /\ conn[c].pc = "handle" /\ conn[c].client # None
       /\ Set(c, Handled(conn[c]))
       /\ UNCHANGED <<passwords, refresh, histories>>

LEMMA ConnSteps ==
  ASSUME RegistryInv, NEW c \in Conns, ConnNext(c)
  PROVE  Quiet(c) \/ ConnectRegister(c) \/ TagStep(c) \/ End(c)
<1>1. CASE AuthedConnect(c)
  <2>1. ASSUME Set(c, Handled([conn[c] EXCEPT !.closed = TRUE])), UNCHANGED registry
        PROVE  Quiet(c)
    <3> DEFINE d == [conn[c] EXCEPT !.closed = TRUE]
    <3>1. d \in Conn BY AtWork DEF Conn
    <3>2. d.client = conn[c].client /\ d.batch = conn[c].batch
          /\ d.slot = conn[c].slot /\ d.fails = conn[c].fails
          /\ d.password = conn[c].password
      BY AtWork DEF Conn
    <3>3. Set(c, Handled(d)) /\ Others /\ conn[c].pc = "handle"
      BY <1>1, <2>1 DEF AuthedConnect, Others
    <3> HIDE DEF d
    <3>4. ~(d.fails > MaxFails) BY <1>1, <3>2, AtWork DEF AuthedConnect, LocalInv
    <3> QED BY <3>1, <3>2, <3>3, <3>4, HandledQuiet
  <2> QED BY <1>1, <2>1 DEF AuthedConnect, TagStep
<1>2. CASE ConnectUpdate(c)
  BY <1>2 DEF ConnectUpdate, TagStep
<1> QED BY <1>1, <1>2, AcceptQuiet, ReadQuiet, PassOnQuiet, ConnectQuiet,
           ServerFailsQuiet, ServerRefusesQuiet, ServerAnswersQuiet, OutsideQuiet
        DEF ConnNext, HandlerStep

LEMMA StutterRegistry ==
  ASSUME RegistryInv, UNCHANGED <<conn, registry, kicked, late>>
  PROVE  RegistryInv'
BY DEF RegistryInv, RegistryType, IndexesAgree, EntryInv, Registered, LocalInv,
       registry

LEMMA StoreStep ==
  ASSUME StoreType, RefreshInv, [Next]_vars, RegistryInv
  PROVE  StoreType' /\ RefreshInv'
<1>1. ASSUME UNCHANGED <<passwords, refresh, crossed>> PROVE StoreType' /\ RefreshInv'
  BY <1>1 DEF StoreType, RefreshInv
<1>2. ASSUME NEW c \in Conns, ConnNext(c) PROVE UNCHANGED <<passwords, refresh, crossed>>
  <2>1. Quiet(c) \/ ConnectRegister(c) \/ TagStep(c) \/ End(c)
    BY <1>2, ConnSteps
  <2> QED BY <2>1 DEF Quiet, ConnectRegister, TagStep, End, histories
<1>3. ASSUME NEW r \in Refreshers, NEW d \in Refresh,
             refresh' = [refresh EXCEPT ![r] = d],
             d.pc \in {"set", "kick"} => d.slot \in Slots,
             passwords' \in [Slots -> Passwords \cup {None}], crossed' \in SUBSET Slots
      PROVE  StoreType' /\ RefreshInv'
  BY <1>3 DEF StoreType, RefreshInv
<1>4. ASSUME NEW r \in Refreshers, StartRefresh(r) PROVE StoreType' /\ RefreshInv'
  BY <1>3, <1>4, StartRefreshForm DEF StoreType, histories
<1>5. ASSUME NEW r \in Refreshers, RefreshNext(r) PROVE StoreType' /\ RefreshInv'
  <2>1. PICK d \in Refresh :
          /\ refresh' = [refresh EXCEPT ![r] = d]
          /\ \/ d.pc \in {"idle", "next"} /\ passwords' = passwords
             \/ /\ d.pc = "next"
                /\ \E s \in Slots : passwords' = [passwords EXCEPT ![s] = None]
             \/ /\ d.pc = "set" /\ d.slot \in Slots /\ passwords' = passwords
                /\ d.current = passwords[d.slot]
    BY <1>5, RefreshNextForm
  <2>2. passwords' \in [Slots -> Passwords \cup {None}]
    BY <2>1 DEF StoreType
  <2>3. crossed' \in SUBSET Slots
    BY <1>5, RefreshNextForm DEF StoreType, histories
  <2> QED BY <1>3, <2>1, <2>2, <2>3
<1>6. ASSUME NEW r \in Refreshers, RefreshSet(r) PROVE StoreType' /\ RefreshInv'
  <2>1. PICK d \in Refresh, p \in Passwords \cup {None} :
          /\ refresh' = [refresh EXCEPT ![r] = d] /\ d.slot = refresh[r].slot
          /\ passwords' = [passwords EXCEPT ![d.slot] = p]
    BY <1>6, RefreshSetForm
  <2>2. d.slot \in Slots BY <1>6, <2>1, RefreshSetForm
  <2>3. passwords' \in [Slots -> Passwords \cup {None}] BY <2>1 DEF StoreType
  <2>4. crossed' \in SUBSET Slots
    BY <1>6, RefreshSetForm DEF StoreType
  <2> QED BY <1>3, <2>1, <2>2, <2>3, <2>4
<1>7. ASSUME NEW r \in Refreshers, RefreshKick(r) PROVE StoreType' /\ RefreshInv'
  <2>1. crossed' \in SUBSET Slots
    BY <1>7, RefreshKickForm DEF StoreType, Kick
  <2> QED BY <1>3, <1>7, <2>1, RefreshKickForm DEF StoreType
<1>8. ASSUME UNCHANGED vars PROVE StoreType' /\ RefreshInv'
  BY <1>1, <1>8 DEF vars
<1> QED BY <1>1, <1>2, <1>4, <1>5, <1>6, <1>7, <1>8 DEF Next, RefreshStep

LEMMA RegistryStep ==
  ASSUME RegistryInv, StoreType, RefreshInv, [Next]_vars
  PROVE  RegistryInv'
<1>1. ASSUME NEW c \in Conns, ConnNext(c) PROVE RegistryInv'
  <2>1. CASE Quiet(c) BY <2>1, QuietStep
  <2>2. CASE ConnectRegister(c) BY <2>2, RegisterStep
  <2>3. CASE TagStep(c) BY <2>3, UpdateTagsStep DEF TagStep
  <2>4. CASE End(c) BY <2>4, EndStep
  <2> QED BY <1>1, <2>1, <2>2, <2>3, <2>4, ConnSteps
<1>2. ASSUME NEW r \in Refreshers, RefreshStep(r) PROVE RegistryInv'
  <2>1. CASE StartRefresh(r) BY <2>1, StartRefreshForm, StutterRegistry DEF histories
  <2>2. CASE RefreshNext(r) BY <2>2, RefreshNextForm, StutterRegistry DEF histories
  <2>3. CASE RefreshSet(r) BY <2>3, RefreshSetForm, StutterRegistry
  <2>4. CASE RefreshKick(r) BY <2>4, RefreshKickForm, KickStep
  <2> QED BY <1>2, <2>1, <2>2, <2>3, <2>4 DEF RefreshStep
<1>3. CASE UNCHANGED vars
  BY <1>3, StutterRegistry DEF vars, registry, histories
<1> QED BY <1>1, <1>2, <1>3 DEF Next

LEMMA InitRegistry == Init => RegistryInv /\ StoreType /\ RefreshInv
<1> SUFFICES ASSUME Init PROVE RegistryInv /\ StoreType /\ RefreshInv
  OBVIOUS
<1>1. NewConn \in Conn /\ NewConn.client = None /\ NewConn.pc = "new"
      /\ NewConn.fails = 0
  BY DEF NewConn, Conn
<1>2. \A c \in Conns : conn[c] = NewConn /\ tags[c] = << >> BY DEF Init
<1>3. << >> \in Lists BY DEF Lists
<1>4. conn \in [Conns -> Conn] /\ tags \in [Conns -> Lists]
  BY <1>1, <1>3 DEF Init
<1>5. /\ clients \in [AllSlots -> SUBSET Conns] /\ byGame \in [Games -> SUBSET Conns]
      /\ byTag \in [Tags -> [Conns -> Nat]] /\ kicked = {} /\ late = {}
  BY DEF Init
<1>6. \A c \in Conns : ~Registered(c) BY <1>1, <1>2 DEF Registered
<1>7. IndexesAgree
  <2>1. ASSUME NEW t \in Tags, NEW c \in Conns PROVE byTag[t][c] = Count(tags[c], t)
    BY <1>2, <1>3, CountType DEF Init
  <2> QED BY <1>6, <2>1 DEF IndexesAgree, Init
<1>8. \A c \in Conns : LocalInv(conn[c])
  BY <1>1, <1>2, ConstantsAssumption DEF LocalInv
<1>9. \A c \in Conns : EntryInv(c)
  BY <1>1, <1>2, <1>5 DEF EntryInv
<1>10. RegistryInv
  BY <1>4, <1>5, <1>7, <1>8, <1>9 DEF RegistryInv, RegistryType
<1>11. IdleRefresh(0) \in Refresh /\ IdleRefresh(0).pc = "idle"
  BY ConstantsAssumption DEF IdleRefresh, Refresh
<1>12. StoreType /\ RefreshInv
  BY <1>11 DEF Init, StoreType, RefreshInv
<1> QED BY <1>10, <1>12

LEMMA SpecRegistry == Spec => [](RegistryInv /\ StoreType /\ RefreshInv)
<1>1. Init => RegistryInv /\ StoreType /\ RefreshInv BY InitRegistry
<1>2. RegistryInv /\ StoreType /\ RefreshInv /\ [Next]_vars
        => RegistryInv' /\ StoreType' /\ RefreshInv'
  BY RegistryStep, StoreStep
<1> QED BY <1>1, <1>2, PTL DEF Spec

\* Every variable keeps its type.
THEOREM RegistryTypeCorrect == Spec => []TypeOK
<1>1. RegistryInv /\ StoreType => TypeOK BY TypesTogether DEF RegistryInv
<1> QED BY <1>1, SpecRegistry, PTL

\* The indexes by slot, game and tag describe the same clients, whatever
\* registrations, changes of tags, kicks and departures interleave.
THEOREM RegistryIndexesAgree == Spec => []IndexesAgree
<1>1. RegistryInv => IndexesAgree BY DEF RegistryInv
<1> QED BY <1>1, SpecRegistry, PTL

\* A connection that has ended is in no index, unless it was kicked before.
THEOREM EndedClientsAreForgotten == Spec => []EndedIsForgotten
<1>1. RegistryInv => EndedIsForgotten
  <2> SUFFICES ASSUME RegistryInv, NEW c \in Conns, conn[c].pc = "ended"
               PROVE  /\ \A s \in AllSlots : c \notin clients[s]
                      /\ \A g \in Games : c \notin byGame[g]
                      /\ c \notin kicked => \A t \in Tags : byTag[t][c] = 0
    BY DEF EndedIsForgotten
  <2>1. conn[c].client = None /\ ~Registered(c)
    BY AtWork DEF LocalInv, Registered
  <2>2. \A s \in AllSlots : c \notin clients[s]
    BY <2>1, ConstantsAssumption DEF RegistryInv, IndexesAgree, AllSlots
  <2>3. \A g \in Games : c \notin byGame[g]
    BY <2>1 DEF RegistryInv, IndexesAgree
  <2>4. ASSUME c \notin kicked, NEW t \in Tags PROVE byTag[t][c] = 0
    <3>1. tags[c] = << >> BY <2>1, <2>4 DEF RegistryInv, EntryInv
    <3>2. << >> \in Lists BY DEF Lists
    <3> QED BY <3>1, <3>2, CountType DEF RegistryInv, IndexesAgree
  <2> QED BY <2>2, <2>3, <2>4
<1> QED BY <1>1, SpecRegistry, PTL

\* A connection that was refused once too often is never registered.
THEOREM RefusedClientsStayOut == Spec => []LockedOut
<1>1. RegistryInv => LockedOut
  BY DEF RegistryInv, LocalInv, LockedOut, Registered
<1> QED BY <1>1, SpecRegistry, PTL

-----------------------------------------------------------------------------
\* The passwords, for any number of reloads at a time.

\* A step that leaves the store and the reloads alone, and in which nobody is
\* newly let in but with the right password.
LEMMA PasswordKept ==
  ASSUME PasswordInv, UNCHANGED <<passwords, refresh, late, crossed>>,
         \A c \in Conns :
            /\ conn'[c].client \in Slots => conn'[c].client = conn'[c].slot
            /\ LetIn(c)' => \/ /\ LetIn(c) /\ conn'[c].slot = conn[c].slot
                               /\ conn'[c].password = conn[c].password
                            \/ PasswordOk(conn'[c].slot, conn'[c].password)
  PROVE  PasswordInv'
<1>1. ASSUME NEW c \in Conns, c \notin late, LetIn(c)', conn'[c].slot \notin crossed
      PROVE  Current(c)'
  <2>1. CASE LetIn(c) /\ conn'[c].slot = conn[c].slot
             /\ conn'[c].password = conn[c].password
    <3>1. Current(c) BY <1>1, <2>1 DEF PasswordInv
    <3> QED BY <2>1, <3>1 DEF Current, Pending
  <2>2. CASE PasswordOk(conn'[c].slot, conn'[c].password)
    BY <2>2 DEF PasswordOk, Current
  <2> QED BY <1>1, <2>1, <2>2
<1> QED BY <1>1 DEF PasswordInv

LEMMA PasswordConn ==
  ASSUME RegistryInv, RegistryInv', PasswordInv, NEW c \in Conns, ConnNext(c)
  PROVE  PasswordInv'
<1>1. CASE Quiet(c)
  <2>1. PICK d \in Conn : /\ conn' = [conn EXCEPT ![c] = d]
                          /\ d.client = conn[c].client /\ Credentials(c, d)
    BY <1>1 DEF Quiet
  <2>2. UNCHANGED <<passwords, refresh, late, crossed, clients>>
    BY <1>1 DEF Quiet, registry, histories
  <2>3. conn'[c] = d /\ \A e \in Conns \ {c} : conn'[e] = conn[e]
    BY <2>1 DEF RegistryInv, RegistryType
  <2>4. \A e \in Conns : Registered(e)' <=> Registered(e)
    BY <2>1, <2>2, <2>3 DEF Registered
  <2>5. \A e \in Conns \ {c} : LetIn(e)' <=> LetIn(e)
    BY <2>3, <2>4 DEF LetIn
  <2>6. d.client \in Slots => d.client # None BY ConstantsAssumption
  <2>7. LetIn(c)' => \/ LetIn(c) /\ d.slot = conn[c].slot
                         /\ d.password = conn[c].password
                     \/ PasswordOk(d.slot, d.password)
    BY <2>1, <2>3, <2>4, <2>6 DEF LetIn, Credentials
  <2>8. conn'[c].client \in Slots => conn'[c].client = conn'[c].slot
    BY <2>1, <2>3, <2>6 DEF PasswordInv, Credentials
  <2>9. \A e \in Conns : conn'[e].client \in Slots => conn'[e].client = conn'[e].slot
    BY <2>3, <2>8 DEF PasswordInv
  <2> QED BY <2>2, <2>3, <2>5, <2>7, <2>9, PasswordKept
<1>2. CASE ConnectRegister(c)
  <2>1. PICK s \in {conn[c].slot, NoSlot}, list \in TagLists :
           /\ Register(c, s, list)
           /\ Set(c, Handled([conn[c] EXCEPT !.client = s]))
    BY <1>2 DEF ConnectRegister
  <2> DEFINE d == [conn[c] EXCEPT !.client = s]
  <2>2. /\ conn[c].pc = "register" /\ conn[c].slot \in Slots /\ conn[c].batch >= 1
    BY <1>2, AtWork DEF ConnectRegister, LocalInv
  <2>3. d \in Conn BY <2>2, AtWork DEF Conn, AllSlots
  <2>4. d.client = s /\ d.batch = conn[c].batch /\ d.slot = conn[c].slot
        /\ d.password = conn[c].password
    BY AtWork DEF Conn
  <2>5. conn' = [conn EXCEPT ![c] = Handled(d)] BY <2>1 DEF Set
  <2> HIDE DEF d
  <2>6. Handled(d).client = s /\ Handled(d).slot = conn[c].slot
        /\ Handled(d).password = conn[c].password
    BY <2>2, <2>3, <2>4, HandledState
  <2>7. conn'[c] = Handled(d) /\ \A e \in Conns \ {c} : conn'[e] = conn[e]
    BY <2>5 DEF RegistryInv, RegistryType
  <2>8. s \in AllSlots BY <2>2 DEF AllSlots
  <2>9. \A e \in Conns \ {c} : Registered(e)' <=> Registered(e)
    BY <2>1, <2>7, <2>8 DEF Register, Registered, RegistryInv, RegistryType, Conn
  <2>10. \A e \in Conns \ {c} : LetIn(e)' <=> LetIn(e)
    BY <2>7, <2>9 DEF LetIn
  <2>11. LetIn(c) BY <2>2 DEF LetIn
  <2>12. s \in Slots => s = conn[c].slot BY ConstantsAssumption
  <2>13. UNCHANGED <<passwords, refresh, late, crossed>> BY <1>2 DEF ConnectRegister, histories
  <2>14. \A e \in Conns : conn'[e].client \in Slots => conn'[e].client = conn'[e].slot
    BY <2>6, <2>7, <2>12 DEF PasswordInv
  <2> QED BY <2>6, <2>7, <2>10, <2>11, <2>13, <2>14, PasswordKept
<1>3. CASE TagStep(c)
  <2>1. conn' = [conn EXCEPT ![c] = Handled(conn[c])] BY <1>3 DEF TagStep, Set
  <2>2. /\ Handled(conn[c]).client = conn[c].client
        /\ Handled(conn[c]).slot = conn[c].slot
        /\ Handled(conn[c]).password = conn[c].password
        /\ Handled(conn[c]).pc \in {"read", "handle"}
    BY <1>3, AtWork, HandledState DEF TagStep
  <2>3. \A e \in Conns : /\ conn'[e].client = conn[e].client
                         /\ conn'[e].slot = conn[e].slot
                         /\ conn'[e].password = conn[e].password
                         /\ conn'[e].pc \in {"ap", "register"} => conn'[e].pc = conn[e].pc
    BY <2>1, <2>2 DEF RegistryInv, RegistryType
  <2>4. UNCHANGED <<passwords, refresh, late, crossed, clients>>
    BY <1>3 DEF TagStep, UpdateTags, histories
  <2>5. \A e \in Conns : LetIn(e)' => LetIn(e)
    BY <2>3, <2>4 DEF LetIn, Registered
  <2>6. \A e \in Conns : conn'[e].client \in Slots => conn'[e].client = conn'[e].slot
    BY <2>3 DEF PasswordInv
  <2> QED BY <2>3, <2>4, <2>5, <2>6, PasswordKept
<1>4. CASE End(c)
  <2> DEFINE d == [NewConn EXCEPT !.pc = "ended", !.cancelled = TRUE, !.closed = TRUE]
  <2>1. conn' = [conn EXCEPT ![c] = d] BY <1>4 DEF End, Set
  <2>2. d.client = None /\ d.pc = "ended" BY DEF NewConn
  <2> HIDE DEF d
  <2>3. conn'[c] = d /\ \A e \in Conns \ {c} : conn'[e] = conn[e]
    BY <2>1 DEF RegistryInv, RegistryType
  <2>4. ASSUME NEW e \in Conns \ {c}, Registered(e)' PROVE Registered(e)
    <3>1. conn[e].client \in AllSlots \cup {None} BY DEF RegistryInv, RegistryType, Conn
    <3>2. CASE UNCHANGED registry
      BY <2>3, <2>4, <3>2 DEF Registered, registry
    <3>3. CASE conn[c].client # None /\ Remove(conn[c].client, {c})
      <4>1. clients' = [clients EXCEPT ![conn[c].client] = @ \ {c}] BY <3>3 DEF Remove
      <4> QED BY <2>3, <2>4, <3>1, <4>1 DEF Registered, RegistryInv, RegistryType
    <3> QED BY <1>4, <3>2, <3>3 DEF End, Unregister
  <2>5. \A e \in Conns \ {c} : LetIn(e)' => LetIn(e)
    BY <2>3, <2>4 DEF LetIn
  <2>6. ~LetIn(c)' BY <2>2, <2>3 DEF LetIn, Registered
  <2>7. UNCHANGED <<passwords, refresh, late, crossed>> BY <1>4 DEF End, histories
  <2>8. \A e \in Conns : conn'[e].client \in Slots => conn'[e].client = conn'[e].slot
    BY <2>2, <2>3, ConstantsAssumption DEF PasswordInv
  <2> QED BY <2>3, <2>5, <2>6, <2>7, <2>8, PasswordKept
<1> QED BY <1>1, <1>2, <1>3, <1>4, ConnSteps

LEMMA PasswordRefresh ==
  ASSUME RegistryInv, StoreType, RefreshInv, PasswordInv,
         NEW r \in Refreshers, RefreshStep(r)
  PROVE  PasswordInv'
\* Steps of the reload that leave the connections and the registry alone: a kick
\* that another one has to do is still to come.
<1>1. ASSUME NEW d \in Refresh, refresh' = [refresh EXCEPT ![r] = d],
             UNCHANGED <<conn, registry, late>>, refresh[r].pc # "kick",
             crossed \subseteq crossed',
             \A s \in Slots : \/ passwords'[s] \in {None, passwords[s]}
                              \/ d.pc = "kick" /\ d.slot = s
                              \/ s \in crossed'
      PROVE  PasswordInv'
  <2>1. refresh'[r] = d /\ \A q \in Refreshers \ {r} : refresh'[q] = refresh[q]
    BY <1>1 DEF StoreType
  <2>2. conn' = conn /\ clients' = clients /\ late' = late
    BY <1>1 DEF registry
  <2>3. \A c \in Conns : LetIn(c)' <=> LetIn(c) BY <2>2 DEF LetIn, Registered
  <2>4. ASSUME NEW c \in Conns, c \notin late, LetIn(c), conn[c].slot \notin crossed'
        PROVE  Current(c)'
    <3>1. Current(c) BY <1>1, <2>4 DEF PasswordInv
    <3>2. conn[c].slot \in Slots
      BY <2>4, AtWork DEF LetIn, LocalInv, PasswordInv
    <3>3. CASE Pending(conn[c].slot)
      <4>1. PICK q \in Refreshers : refresh[q].pc = "kick" /\ refresh[q].slot = conn[c].slot
        BY <3>3 DEF Pending
      <4>2. refresh'[q] = refresh[q] BY <1>1, <2>1, <4>1
      <4> QED BY <2>2, <4>1, <4>2 DEF Current, Pending
    <3>4. CASE /\ passwords[conn[c].slot] \in {None, conn[c].password}
               /\ passwords'[conn[c].slot] \in {None, passwords[conn[c].slot]}
      BY <2>2, <3>4 DEF Current
    <3>5. CASE d.pc = "kick" /\ d.slot = conn[c].slot
      BY <2>1, <2>2, <3>5 DEF Current, Pending
    <3> QED BY <1>1, <2>4, <3>1, <3>2, <3>3, <3>4, <3>5 DEF Current
  <2> QED BY <2>2, <2>3, <2>4 DEF PasswordInv
<1>2. CASE StartRefresh(r)
  <2>1. PICK d \in Refresh : d.pc = "next" /\ refresh' = [refresh EXCEPT ![r] = d]
    BY <1>2, StartRefreshForm
  <2>2. refresh[r].pc = "idle" /\ passwords' = passwords
        /\ UNCHANGED <<conn, registry, late, crossed>>
    BY <1>2, StartRefreshForm DEF histories
  <2> QED BY <1>1, <2>1, <2>2
<1>3. CASE RefreshNext(r)
  <2>1. PICK d \in Refresh :
          /\ refresh' = [refresh EXCEPT ![r] = d]
          /\ \/ d.pc \in {"idle", "next"} /\ passwords' = passwords
             \/ /\ d.pc = "next"
                /\ \E s \in Slots : passwords' = [passwords EXCEPT ![s] = None]
             \/ /\ d.pc = "set" /\ d.slot \in Slots /\ passwords' = passwords
                /\ d.current = passwords[d.slot]
    BY <1>3, RefreshNextForm
  <2>2. refresh[r].pc = "next" /\ UNCHANGED <<conn, registry, late, crossed>>
    BY <1>3, RefreshNextForm DEF histories
  <2>3. \A s \in Slots : passwords'[s] \in {None, passwords[s]}
    BY <2>1 DEF StoreType
  <2> QED BY <1>1, <2>1, <2>2, <2>3
<1>4. CASE RefreshSet(r)
  <2>1. PICK d \in Refresh, p \in Passwords \cup {None} :
          /\ refresh' = [refresh EXCEPT ![r] = d] /\ d.slot = refresh[r].slot
          /\ passwords' = [passwords EXCEPT ![d.slot] = p]
          /\ \/ d.pc = "next" /\ (p = passwords[d.slot] \/ d.slot \in crossed')
             \/ d.pc = "kick"
    BY <1>4, RefreshSetForm
  <2>2. refresh[r].pc = "set" /\ UNCHANGED <<conn, registry, late>> /\ crossed \subseteq crossed'
    BY <1>4, RefreshSetForm
  <2>3. \A s \in Slots : \/ passwords'[s] \in {None, passwords[s]}
                         \/ d.pc = "kick" /\ d.slot = s
                         \/ s \in crossed'
    BY <2>1, <2>2 DEF StoreType
  <2> QED BY <1>1, <2>1, <2>2, <2>3
<1>5. CASE RefreshKick(r)
  <2> DEFINE s == refresh[r].slot
  <2>1. PICK d \in Refresh : d.pc = "next" /\ refresh' = [refresh EXCEPT ![r] = d]
    BY <1>5, RefreshKickForm
  <2>2. refresh[r].pc = "kick" /\ s \in Slots /\ Kick(s) /\ passwords' = passwords
    BY <1>5, RefreshKickForm
  <2>3. refresh'[r] = d /\ \A q \in Refreshers \ {r} : refresh'[q] = refresh[q]
    BY <2>1 DEF StoreType
  <2> HIDE DEF s
  <2>4. /\ conn' = [e \in Conns |-> IF e \in clients[s]
                                     THEN [conn[e] EXCEPT !.cancelled = TRUE]
                                     ELSE conn[e]]
        /\ clients' = [clients EXCEPT ![s] = @ \ clients[s]]
        /\ late' = late \cup {e \in Conns : /\ conn[e].pc \in {"ap", "register"}
                                             /\ conn[e].slot = s}
        /\ crossed' = crossed \ {s}
    BY <2>2 DEF Kick, Remove
  <2>5. ASSUME NEW e \in Conns
        PROVE  /\ conn'[e].client = conn[e].client /\ conn'[e].pc = conn[e].pc
               /\ conn'[e].slot = conn[e].slot /\ conn'[e].password = conn[e].password
    <3>1. conn[e] \in Conn BY DEF RegistryInv, RegistryType
    <3> QED BY <2>4, <3>1 DEF Conn
  <2>6. s \in AllSlots BY <2>2 DEF AllSlots
  <2>7. \A e \in Conns : Registered(e)' => Registered(e) /\ conn[e].client # s
    BY <2>4, <2>5, <2>6 DEF Registered, RegistryInv, RegistryType, Conn
  <2>8. ASSUME NEW e \in Conns, e \notin late', LetIn(e)', conn'[e].slot \notin crossed'
        PROVE  Current(e)'
    <3>1. LetIn(e) BY <2>5, <2>7, <2>8 DEF LetIn
    <3>2. conn[e].slot # s
      BY <2>4, <2>5, <2>7, <2>8 DEF LetIn, PasswordInv
    <3>3. Current(e) BY <2>4, <2>5, <2>8, <3>1, <3>2 DEF PasswordInv
    <3>4. CASE passwords[conn[e].slot] \in {None, conn[e].password}
      BY <2>2, <2>5, <3>4 DEF Current
    <3>5. CASE Pending(conn[e].slot)
      <4>1. PICK q \in Refreshers : refresh[q].pc = "kick" /\ refresh[q].slot = conn[e].slot
        BY <3>5 DEF Pending
      <4>2. refresh'[q] = refresh[q] BY <2>3, <3>2, <4>1 DEF s
      <4> QED BY <2>5, <4>1, <4>2 DEF Current, Pending
    <3> QED BY <3>3, <3>4, <3>5 DEF Current
  <2>9. \A e \in Conns : conn'[e].client \in Slots => conn'[e].client = conn'[e].slot
    BY <2>5 DEF PasswordInv
  <2> QED BY <2>8, <2>9 DEF PasswordInv
<1> QED BY <1>2, <1>3, <1>4, <1>5 DEF RefreshStep

LEMMA PasswordStutter ==
  ASSUME PasswordInv, UNCHANGED vars PROVE PasswordInv'
BY DEF PasswordInv, vars, LetIn, Current, Pending, Registered

LEMMA InitPassword == Init => PasswordInv
<1> SUFFICES ASSUME Init PROVE PasswordInv
  OBVIOUS
<1>1. NewConn.client = None /\ NewConn.pc = "new" BY DEF NewConn
<1>2. \A c \in Conns : conn[c] = NewConn BY DEF Init
<1>3. \A r \in Refreshers : refresh[r].pc = "idle" BY DEF Init, IdleRefresh
<1>4. \A c \in Conns : ~LetIn(c) BY <1>1, <1>2 DEF LetIn, Registered
<1> QED BY <1>1, <1>2, <1>3, <1>4, ConstantsAssumption DEF PasswordInv

\* However many reloads overlap, a client that is connected has the present
\* password of its slot, unless the slot lost its password, is about to be
\* kicked, was kicked while the client was being let in, or has a password that
\* a reload took for unchanged after another one had written its own.
THEOREM PasswordChangeKicks == Spec => []KickedOnChange
<1>1. Init => PasswordInv BY InitPassword
<1>2. RegistryInv /\ StoreType /\ RefreshInv /\ RegistryInv' /\ PasswordInv
        /\ [Next]_vars => PasswordInv'
  BY PasswordConn, PasswordRefresh, PasswordStutter DEF Next
<1>3. RegistryInv /\ PasswordInv => KickedOnChange
  BY DEF PasswordInv, KickedOnChange, LetIn, Current, Pending
<1> QED BY <1>1, <1>2, <1>3, SpecRegistry, PTL DEF Spec
=============================================================================
