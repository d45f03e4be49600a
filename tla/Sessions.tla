------------------------------- MODULE Sessions -------------------------------
(* Sessions of the lobby: the private cookie a browser keeps, the guards    *)
(* that read it, the login with Discord, and the messages that wait in      *)
(* Valkey under the session's uuid for the next page                        *)
(* (lobby/src/session.rs, views/auth.rs, error.rs, db/user.rs, the catchers *)
(* in lib.rs). One browser with several tabs: a request carries the cookie  *)
(* as it was when the request was sent, and what its answer sets counts     *)
(* from the moment the answer arrives.                                      *)
(*                                                                          *)
(* The lobby is configured when it starts; cookies outlive it. Everything   *)
(* that reads the session of a request reads the cookie that was sent, not  *)
(* one the same request has set. Warnings are kept as errors are.           *)
EXTENDS FiniteSets, Naturals

CONSTANTS None, Gone,
          Users, Tabs,
          Configs,       \* what the operator may configure: [admins, banned, restricted]
          OldCookies,    \* cookies of sessions that were made before a session had a uuid: it is None
          MaxUuid,       \* bound on the uuids
          MaxSends,      \* bound on the requests
          MaxRestarts    \* bound on the restarts

VARIABLES
  config,
  cookie,      \* the session in the browser's cookie, or None
  users,       \* the rows of discord_users: None, or whether the user may create rooms
  errors,      \* the uuids under which messages wait
  req,         \* the request of each tab
  used, sends, restarts,
  owed,        \* history: the browser was told of a message and has not seen it
  overlapped,  \* history: two requests were under way at once
  operator,    \* history: the browser went to log in with the operator's token
  admins       \* history: who was ever configured as an admin

vars == <<config, cookie, users, errors, req, used, sends, restarts, owed, overlapped, operator, admins>>

Idle == [pc |-> "idle", kind |-> None, token |-> FALSE, ck |-> None, session |-> None, sets |-> None,
         id |-> None, told |-> FALSE, shown |-> FALSE]

Init ==
  /\ config \in Configs
  /\ cookie \in {None} \cup {c \in OldCookies : c.admin => c.user \in config.admins}
  /\ users = [u \in Users |-> IF cookie # None /\ cookie.user = u THEN FALSE ELSE None]
  /\ errors = {} /\ req = [t \in Tabs |-> Idle]
  /\ used = 0 /\ sends = 0 /\ restarts = 0
  /\ owed = FALSE /\ overlapped = FALSE /\ operator = FALSE /\ admins = config.admins

-----------------------------------------------------------------------------
NewSession(uuid) == [user |-> None, in |-> FALSE, admin |-> FALSE, may |-> FALSE, uuid |-> uuid]
TokenSession(uuid) == [user |-> None, in |-> TRUE, admin |-> TRUE, may |-> TRUE, uuid |-> uuid]

\* _from_request_sync: the operator's token, the cookie's session, what can be recovered of an older
\* one, or a new one; the last two are saved.
Parsed(ck, token, uuid) ==
  LET found == CASE token -> TokenSession(uuid)
                 [] ~token /\ ck = None -> NewSession(uuid)
                 [] ~token /\ ck # None /\ ck.uuid = None -> [ck EXCEPT !.uuid = uuid]
                 [] OTHER -> ck
  IN [session |-> found, sets |-> IF token \/ found = ck THEN None ELSE found, unwelcome |-> FALSE]

\* from_request_sync: a banned user is logged out, and told.
FromRequest(ck, token, uuid) ==
  LET p == Parsed(ck, token, uuid)
  IN IF p.session.user \in config.banned
     THEN [session |-> NewSession(uuid), sets |-> NewSession(uuid), unwelcome |-> TRUE]
     ELSE p

\* The uuid a request's session is given, if it has none, and the one that an error's is given.
First(t) == FromRequest(req[t].ck, req[t].token, used + 1)
Second(t, taken) == FromRequest(req[t].ck, req[t].token, taken + 1)
Taken(e, taken) == IF e.session.uuid = taken + 1 THEN taken + 1 ELSE taken

Become(t, r) == req' = [req EXCEPT ![t] = r]
Answer(t, sets, told, shown) ==
  Become(t, [Idle EXCEPT !.pc = "answered", !.sets = sets, !.told = told, !.shown = shown])
Others == UNCHANGED <<config, cookie, sends, restarts, overlapped, operator, admins>>
Same == Others /\ UNCHANGED owed

\* push_error; whether it worked for a banned user is not looked at.
Pushed(e) == {e.session.uuid}
Unwelcome(e) == IF e.unwelcome THEN SUBSET Pushed(e) ELSE {{}}

\* A request is sent. kind: "page" (any page), "create" (create_room_submit), "grant" (the admin API
\* that lets a user create rooms), "login", "callback", "logout", "broken" (a malformed identifier). Any of
\* them may come with the operator's token.
Send(t, kind, token) ==
  /\ req[t] = Idle /\ sends < MaxSends
  /\ Become(t, [Idle EXCEPT !.pc = "sent", !.kind = kind, !.token = token, !.ck = cookie])
  /\ sends' = sends + 1
  /\ overlapped' = (overlapped \/ \E s \in Tabs : req[s] # Idle)
  /\ operator' = (operator \/ (token /\ kind \in {"login", "callback"}))
  /\ UNCHANGED <<config, cookie, users, errors, used, restarts, owed, admins>>

\* The guards LoggedInSession and AdminSession
LoggedIn(s) == s.admin \/ s.user # None
Passes(kind, s) == CASE kind = "create" -> LoggedIn(s) [] kind = "grant" -> s.admin [] OTHER -> TRUE

\* The catcher of 401 reads the session again; whoever is not logged in is sent to log in.
Unauthorized(t, e) ==
  LET taken == Taken(e, used)
      again == Second(t, taken)
  IN \E p \in Unwelcome(e), q \in Unwelcome(again) :
       LET pushed == IF again.session.in THEN Pushed(again) ELSE q
       IN /\ errors' = errors \cup p \cup pushed
          /\ used' = Taken(again, taken)
          /\ Answer(t, again.sets, pushed # {}, FALSE)

\* The catcher of 422. What is pushed for the operator's token is under a session that nobody keeps.
UnprocessableEntity(t) ==
  /\ req[t].pc = "sent" /\ req[t].kind = "broken" /\ used < MaxUuid
  /\ errors' = errors \cup Pushed(First(t))
  /\ used' = Taken(First(t), used)
  /\ Answer(t, First(t).sets, ~req[t].token, FALSE)
  /\ UNCHANGED users /\ Same

\* A banned user is logged out: what waits for him is not owed to him any more.
Guard(t) ==
  /\ req[t].pc = "sent" /\ req[t].kind \notin {"logout", "broken"} /\ used + 2 <= MaxUuid
  /\ IF Passes(req[t].kind, First(t).session)
     THEN /\ Become(t, [req[t] EXCEPT !.pc = "act", !.session = First(t).session, !.sets = First(t).sets])
          /\ \E p \in Unwelcome(First(t)) : errors' = errors \cup p
          /\ used' = Taken(First(t), used)
     ELSE Unauthorized(t, First(t))
  /\ owed' = (owed /\ ~First(t).unwelcome)
  /\ UNCHANGED users /\ Others

\* Error::respond_to reads the session again: the error waits for the page the browser is sent to.
RespondTo(t) ==
  LET again == Second(t, used)
  IN /\ used < MaxUuid
     /\ errors' = errors \cup Pushed(again) /\ used' = Taken(again, used)
     /\ Answer(t, IF again.sets = None THEN req[t].sets ELSE again.sets, ~req[t].token, FALSE)
     /\ UNCHANGED users /\ Same

\* A handler that refuses before it said where its errors lead panics once the error is pushed, and
\* nothing the request set is kept.
RedirectPanics(t) ==
  LET again == Second(t, used)
  IN /\ used < MaxUuid
     /\ errors' = errors \cup Pushed(again) /\ used' = Taken(again, used)
     /\ Answer(t, None, FALSE, FALSE)
     /\ UNCHANGED users /\ Same

\* user_id() of a session without a user
UserIdPanics(t) == Answer(t, None, FALSE, FALSE) /\ UNCHANGED <<users, errors, used>> /\ Same

-----------------------------------------------------------------------------
Acting(t, kind) == req[t].pc = "act" /\ req[t].kind = kind

\* TplContext::from_session, retrieve_errors: the messages are read and deleted by two commands.
RetrieveErrors(t) ==
  /\ Acting(t, "page")
  /\ Become(t, [req[t] EXCEPT !.pc = "shown", !.shown = req[t].session.uuid \in errors])
  /\ UNCHANGED <<users, errors, used>> /\ Same

DeleteErrors(t) ==
  /\ req[t].pc = "shown"
  /\ errors' = errors \ {req[t].session.uuid}
  /\ Answer(t, req[t].sets, FALSE, req[t].shown)
  /\ UNCHANGED <<users, used>> /\ Same

\* Valkey fails where the code unwraps what it answers, or panics over the error of an error: nothing is
\* kept. If the messages were deleted and only the answer is lost, they are lost.
ValkeyFails(t) ==
  /\ \/ /\ req[t].pc = "sent" /\ used < MaxUuid
        /\ req[t].kind = "broken" \/ (~Passes(req[t].kind, First(t).session) /\ First(t).session.in)
     \/ Acting(t, "page") \/ Acting(t, "callback") \/ req[t].pc \in {"shown", "create"}
  /\ errors' = IF req[t].pc = "shown" THEN errors \ {req[t].session.uuid} ELSE errors
  /\ Answer(t, None, FALSE, req[t].shown)
  /\ UNCHANGED <<users, used>> /\ Same

\* login_discord saves the session, and sends the browser to Discord.
LoginDiscord(t) ==
  /\ Acting(t, "login")
  /\ Answer(t, req[t].session, FALSE, FALSE)
  /\ UNCHANGED <<users, errors, used>> /\ Same

\* upsert_discord_user leaves a known user's rights.
UpsertDiscordUser(u) == users' = [users EXCEPT ![u] = IF @ = None THEN FALSE ELSE @]

\* login_discord_callback, with a token of user u ...
LoginDiscordCallback(t, u) ==
  /\ Acting(t, "callback")
  /\ UpsertDiscordUser(u)
  /\ Become(t, [req[t] EXCEPT !.pc = "upserted", !.id = u])
  /\ UNCHANGED <<errors, used>> /\ Same

DiscordFails(t) == Acting(t, "callback") /\ RespondTo(t)

\* ... and what the user may do is written into the session.
UserSession(t) ==
  LET u == req[t].id
      admin == u \in config.admins
  IN [req[t].session EXCEPT !.user = u, !.in = TRUE, !.admin = admin,
                            !.may = ~config.restricted \/ admin \/ users[u] = TRUE]

SaveUser(t) ==
  /\ req[t].pc = "upserted"
  /\ Answer(t, UserSession(t), FALSE, FALSE)
  /\ UNCHANGED <<users, errors, used>> /\ Same

\* logout
Logout(t) ==
  /\ req[t].pc = "sent" /\ req[t].kind = "logout"
  /\ Answer(t, Gone, FALSE, FALSE)
  /\ UNCHANGED <<users, errors, used>> /\ Same

(* Mistake: what the session says is enough to create a room. *)
IsAllowedBySession(s) == s.admin \/ s.may

\* The right to create rooms is looked up (get_room_creation_allowed).
IsAllowed(s) == s.admin \/ (s.user # None /\ users[s.user] = TRUE)

\* create_room_submit; RoomForms follows it from here.
CreateRoomSubmit(t) ==
  /\ Acting(t, "create")
  /\ IF config.restricted /\ ~IsAllowed(req[t].session)
     THEN RedirectPanics(t)
     ELSE Become(t, [req[t] EXCEPT !.pc = "create"]) /\ UNCHANGED <<users, errors, used>> /\ Same

\* The room is made, and its page is next; or the form was wrong. A session of the operator's token
\* has no user to make it for.
CreatesRoom(t) ==
  /\ req[t].pc = "create"
  /\ \/ req[t].session.user # None /\ Answer(t, req[t].sets, FALSE, FALSE)
        /\ UNCHANGED <<users, errors, used>> /\ Same
     \/ req[t].session.user = None /\ UserIdPanics(t)
     \/ RespondTo(t)

\* set_room_creation_allowed: the user must have logged in once.
SetRoomCreationAllowed(u, allowed) == users' = [users EXCEPT ![u] = IF @ = None THEN @ ELSE allowed]

\* add_ and remove_room_creation_allowed_user. Errors of the API are told in the answer.
AllowRoomCreation(t, u, allowed) ==
  /\ Acting(t, "grant")
  /\ SetRoomCreationAllowed(u, allowed)
  /\ Answer(t, req[t].sets, FALSE, FALSE)
  /\ UNCHANGED <<errors, used>> /\ Same

-----------------------------------------------------------------------------
\* An answer arrives.
Arrive(t) ==
  /\ req[t].pc = "answered"
  /\ cookie' = CASE req[t].sets = None -> cookie [] req[t].sets = Gone -> None [] OTHER -> req[t].sets
  /\ owed' = ((owed /\ ~req[t].shown /\ req[t].sets # Gone) \/ req[t].told)
  /\ Become(t, Idle)
  /\ UNCHANGED <<config, users, errors, used, sends, restarts, overlapped, operator, admins>>

\* The lobby is started again, with another configuration; requests under way are lost.
Restart ==
  /\ restarts < MaxRestarts /\ restarts' = restarts + 1
  /\ config' \in Configs /\ admins' = admins \cup config'.admins
  /\ req' = [t \in Tabs |-> Idle]
  /\ owed' = (owed /\ ~\E t \in Tabs : req[t].pc \in {"shown", "answered"} /\ req[t].shown)
  /\ UNCHANGED <<cookie, users, errors, used, sends, overlapped, operator>>

\* Messages are kept for an hour.
ErrorsExpire ==
  /\ errors # {} /\ errors' = {} /\ owed' = FALSE
  /\ \A t \in Tabs : req[t] = Idle
  /\ UNCHANGED <<config, cookie, users, req, used, sends, restarts, overlapped, operator, admins>>

RequestKinds == {"page", "create", "grant", "login", "callback", "logout", "broken"}

TabStep(t) ==
  \/ \E kind \in RequestKinds, token \in BOOLEAN : Send(t, kind, token)
  \/ Guard(t) \/ UnprocessableEntity(t) \/ RetrieveErrors(t) \/ DeleteErrors(t) \/ ValkeyFails(t)
  \/ LoginDiscord(t)
  \/ \E u \in Users : LoginDiscordCallback(t, u) \/ \E a \in BOOLEAN : AllowRoomCreation(t, u, a)
  \/ DiscordFails(t) \/ SaveUser(t) \/ Logout(t) \/ CreateRoomSubmit(t) \/ CreatesRoom(t) \/ Arrive(t)

Next == (\E t \in Tabs : TabStep(t)) \/ Restart \/ ErrorsExpire

Spec == Init /\ [][Next]_vars

-----------------------------------------------------------------------------
\* No handler acts for a banned user, although the cookie that says who is logged in may be from
\* before the ban.
BannedActNowhere ==
  \A t \in Tabs : req[t].pc \in {"act", "shown", "create"} => req[t].session.user \notin config.banned

\* A browser is an admin only while the account it is logged in to is one that was configured as
\* admin, or while it is logged in to none and has gone to log in with the operator's token
\* (login_discord keeps that session in the cookie): nothing of an earlier account of the browser, nor
\* of the token, stays with the account it logs in to.
Entitled == admins \cup (IF operator THEN {None} ELSE {})
AdminsOnly == cookie # None /\ cookie.admin => cookie.user \in Entitled

\* Who creates a room in a lobby that restricts it has the right at that time, whatever the session
\* was given when the user logged in.
CreationRight ==
  [][\A t \in Tabs : (Acting(t, "create") /\ req'[t].pc = "create") =>
       (config.restricted => req[t].session.admin \/ users[req[t].session.user] = TRUE)]_req

\* A browser that is sent on to see a message will see it: the message waits under the session its
\* cookie has, or is on a page on its way. (Requests that overlap may lose one: each has a session of
\* its own. So may a login with the operator's token, whose session takes the place of the browser's.)
ErrorsReach ==
  (owed /\ ~overlapped /\ ~operator) =>
    \/ cookie # None /\ cookie.uuid \in errors
    \/ \E t \in Tabs : req[t].pc = "answered" /\ req[t].shown
=============================================================================
