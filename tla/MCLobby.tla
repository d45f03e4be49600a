------------------------------- MODULE MCLobby -------------------------------
(* Small instances of parts of the lobby that share no state: the           *)
(* generation of a room, with any two requests at a time, the option        *)
(* definitions, the forms for rooms and templates, and the sessions. A      *)
(* behaviour follows one of them.                                           *)
EXTENDS Lobby, TLC

CONSTANTS ann, root

VARIABLE part

\* root is an admin.
TwoUsers == {ann, root}
RootOnly == {root}

\* Base 1 is the legacy one; 2 is described from some commit on, and may not see the world.
BothBases == [ok |-> TRUE, enabled |-> {1, 2}, default |-> None]
SeveralWorldIndexes ==
  {[legacy |-> 1, rels |-> (1 :> {1, 2})], [legacy |-> 1, rels |-> (1 :> {1, 2} @@ 2 :> {2})],
   [legacy |-> 1, rels |-> (1 :> {1} @@ 2 :> {})]}
\* The second has neither of the releases of x that the first has, one of which is its default.
Seen(vs, core, default) == [versions |-> vs, core |-> core, default |-> default]
OldFormIndex == [legacy |-> 1, rels |-> (1 :> ("x" :> Seen({1, 3}, {3}, Latest)))]
TwoFormIndexes ==
  {OldFormIndex,
   [legacy |-> 1, rels |-> (1 :> ("x" :> Seen({2}, {}, 1)) @@ 2 :> ("y" :> Seen({1}, {}, Latest)))]}

\* A lobby that restricts who creates rooms, and one that does not and has banned a user.
TwoConfigs == {[admins |-> {root}, banned |-> {}, restricted |-> TRUE], [admins |-> {}, banned |-> {ann}, restricted |-> FALSE]}
TwoOldCookies ==
  {[user |-> ann, in |-> TRUE, admin |-> FALSE, may |-> TRUE, uuid |-> None],
   [user |-> root, in |-> TRUE, admin |-> TRUE, may |-> TRUE, uuid |-> None]}

optionVars == <<cache, jobs, req, preload, shed>>
formVars == <<now, tpl, saved, form, post, opens>>
sessionVars == <<config, cookie, users, errors, tab, used, sends, restarts, owed, overlapped, operator, admins>>
formsAndOptions == <<index, refreshes, optionVars, formVars>>

-----------------------------------------------------------------------------
OptionsRest ==
  cache = <<>> /\ jobs = <<>> /\ req = [r \in Pages |-> O!Idle] /\ preload = None /\ shed = 0
SessionsRest ==
  /\ config = CHOOSE c \in Configs : TRUE
  /\ cookie = None /\ users = [u \in Users |-> None] /\ errors = {} /\ tab = [t \in Tabs |-> S!Idle]
  /\ used = 0 /\ sends = 0 /\ restarts = 0 /\ owed = FALSE /\ overlapped = FALSE /\ operator = FALSE /\ admins = {}

\* A template, or a room that was made before there was a limit for closing times, is there.
OldTpl == [name |-> "room", limit |-> None, author |-> root, named |-> 1, global |-> TRUE, manifest |-> ("x" :> Off)]
OldRoom ==
  [name |-> "room", limit |-> None, close |-> 7, author |-> ann, from |-> None, base |-> 1, manifest |-> ("x" :> Latest)]
FormsInit ==
  /\ now = 0 /\ opens = 0 /\ form = [u \in Users |-> None] /\ post = [u \in Users |-> None]
  /\ \/ tpl = [t \in Tpls |-> None] /\ saved = [r \in Rooms |-> OldRoom]
     \/ tpl = [t \in Tpls |-> OldTpl] /\ saved = [r \in Rooms |-> None]
FormsRest ==
  /\ now = 0 /\ opens = 0 /\ form = [u \in Users |-> None] /\ post = [u \in Users |-> None]
  /\ tpl = [t \in Tpls |-> None] /\ saved = [r \in Rooms |-> None]

LobbyInit ==
  /\ refreshes = 0
  /\ Init
  /\ \/ part = "options" /\ O!Init /\ FormsRest /\ SessionsRest
     \/ part = "forms" /\ index = OldFormIndex /\ FormsInit /\ OptionsRest /\ SessionsRest
     \/ part = "sessions" /\ S!Init /\ index = (CHOOSE i \in FormIndexes : TRUE) /\ OptionsRest /\ FormsRest
     \/ /\ part \in {"generation", "manifest"} /\ index = (CHOOSE i \in FormIndexes : TRUE)
        /\ OptionsRest /\ FormsRest /\ SessionsRest

\* The requests of a room are followed in two parts: those about the job, with generators and
\* callbacks, and those about the manifest and the version, with jobs that wait in the queue.
Not(pcs) == \A r \in Requests : request'[r].pc \notin pcs

LobbyNext ==
  /\ UNCHANGED part
  /\ \/ part = "generation" /\ Next /\ Not({"save", "switchCheck"}) /\ UNCHANGED <<formsAndOptions, sessionVars>>
     \/ /\ part = "manifest" /\ (\E r \in Requests : RequestStep(r) /\ Watch(r)) /\ Not({"cancel", "uploadCheck", "read"})
        /\ UNCHANGED <<formsAndOptions, sessionVars>>
     \/ part = "options" /\ O!Next /\ UNCHANGED <<generationVars, formVars, sessionVars>>
     \/ part = "forms" /\ R!Next /\ UNCHANGED <<generationVars, optionVars, sessionVars>>
     \/ /\ part = "sessions" /\ S!Next /\ sends' + restarts' <= MaxSends   \* a restart counts as a request
        /\ UNCHANGED <<generationVars, formsAndOptions>>

\* A request that is being served goes on.
Fairness == \A r \in Pages : WF_req(part = "options" /\ O!ReqStep(r))

LobbySpec ==
  /\ LobbyInit
  /\ [][LobbyNext]_<<part, generationVars, formsAndOptions, sessionVars>>
  /\ Fairness

-----------------------------------------------------------------------------
\* Every request for options is answered, although jobs are lost and nothing reclaims them.
RequestsEnd == part = "options" => O!RequestsEnd
=============================================================================
