-------------------------------- MODULE Lobby --------------------------------
(***************************************************************************)
(* Parts of the lobby put together: the generation of a room               *)
(* (RoomGeneration, whose names are used as they are), the option          *)
(* definitions (OptionDefinitions), the forms for rooms and templates      *)
(* (RoomForms) and the sessions (Sessions).  They share the index and      *)
(* otherwise no state.  Here is what the lobby promises of each.           *)
(***************************************************************************)
EXTENDS RoomGeneration, Integers, Sequences, FiniteSets

CONSTANTS Gone, Users, Admins,
          Pages, Config, WorldIndexes, Rels, MaxJobs, MaxRefresh, MaxShed,
          Tpls, Rooms, FormIndexes, Off, Latest, Supported, Blank, Dates, MaxAhead, MaxNow, MaxOpens,
          Tabs, Configs, OldCookies, MaxUuid, MaxSends, MaxRestarts

VARIABLES
  index, refreshes,
  cache, jobs, req, preload, shed,
  now, tpl, saved, form, post, opens,
  config, cookie, users, errors, tab, used, sends, restarts, owed, overlapped, operator, admins

O == INSTANCE OptionDefinitions WITH Indexes <- WorldIndexes, Requests <- Pages
R == INSTANCE RoomForms WITH Indexes <- FormIndexes, room <- saved
S == INSTANCE Sessions WITH req <- tab

-----------------------------------------------------------------------------
\* A session as the cookie stores it. One from before there were uuids has None for it.
Session == [user : Users \cup {None}, in : BOOLEAN, admin : BOOLEAN, may : BOOLEAN, uuid : Nat]
OldSession == [user : Users \cup {None}, in : BOOLEAN, admin : BOOLEAN, may : BOOLEAN, uuid : {None}]

\* Users are numbers of Discord; no text or number of a session reads as none.
ASSUME SessionAssumption ==
  /\ None \notin Users /\ None \notin Nat /\ None \notin BOOLEAN
  /\ Gone # None /\ Gone \notin Session /\ None \notin Session \cup OldSession
  /\ Configs \subseteq [admins : SUBSET Users, banned : SUBSET Users, restricted : BOOLEAN]
  /\ OldCookies \subseteq OldSession
  /\ MaxUuid \in Nat /\ MaxSends \in Nat /\ MaxRestarts \in Nat

\* The operator's configuration was parsed, an index describes its legacy base, and no definition
\* reads as none.
ASSUME OptionAssumption ==
  /\ O!IsConfig(Config)
  /\ WorldIndexes # {} /\ \A i \in WorldIndexes : O!IsIndex(i) /\ \A b \in DOMAIN i.rels : i.rels[b] \subseteq Rels
  /\ Rels \subseteq Nat /\ Rels # {} /\ IsFiniteSet(Rels)
  /\ None \notin [base : Nat, rel : Nat] /\ None \notin {"failed", "missing"}

\* Rows of templates and rooms; releases are numbers.
Worlds == UNION {UNION {DOMAIN i.rels[b] : b \in DOMAIN i.rels} : i \in FormIndexes}
Manifest == UNION {[W -> Nat \cup {Off, Latest, Supported}] : W \in SUBSET Worlds}
TplRow ==
  [name : {"room", ""}, limit : Nat \cup {None}, author : Users, named : O!Numbered \cup {None}, global : BOOLEAN,
   manifest : Manifest]
RoomRow ==
  [name : {"room", ""}, limit : Nat \cup {None}, close : Nat, author : Users, from : Tpls \cup {None},
   base : O!Numbered, manifest : Manifest]

\* No version is written as none or blank, and no row reads as none or gone.
ASSUME FormAssumption ==
  /\ \A i \in FormIndexes : O!IsIndex(i) /\ \A b \in DOMAIN i.rels : \A w \in DOMAIN i.rels[b] : i.rels[b][w].versions \subseteq Nat
  /\ Admins \subseteq Users
  /\ Blank # None /\ Blank \notin Nat
  /\ None \notin TplRow /\ None \notin RoomRow /\ Gone \notin TplRow /\ Gone \notin RoomRow
  /\ Dates \subseteq Nat /\ Dates # {} /\ MaxAhead \in Nat

-----------------------------------------------------------------------------
\* get_options_def and the callback: the definitions a page shows are of its base and its
\* release, a request whose job was successful gets them, and the page's links stay on its base.
OptionsOfTheBase == [](O!DefinitionsOfTheBase /\ O!StoredBeforeReported) /\ O!LinksStayOnBase

\* Room, template and manifest forms: what is saved is what the user picked and the version the
\* form named, by those who may, with a closing time within the limit; a template's selector shows
\* the version the template names, and lists show what their user may open. Index, rows and clock
\* move between opening and posting.
FormsHold ==
  /\ [](R!SelectorShowsVersion /\ R!ListsAreOpen)
  /\ R!SavesAreThePicks
  /\ R!VersionAsNamed
  /\ R!OnlyOwnersChange
  /\ R!CloseDatesHeld

\* Session and LoggedInSession: nobody acts as a banned user, only admins are admins, rooms are
\* created by those who may at that time, and messages reach the session they are for.
SessionsHold == [](S!BannedActNowhere /\ S!AdminsOnly /\ S!ErrorsReach) /\ S!CreationRight
=============================================================================
