------------------------------ MODULE RoomForms ------------------------------
(* Rooms and room templates, made and edited with forms that stay open in a *)
(* browser while the index, the templates and the rooms change              *)
(* (lobby/src/views/room/edit.rs, room_templates.rs, room_settings.rs,      *)
(* manifest_editor.rs, db/room.rs, db/room_template.rs). A request that      *)
(* saves reads its row, chooses the Archipelago version, reads the index,   *)
(* and writes afterwards: no transaction holds these together.              *)
(*                                                                          *)
(* rels of an index maps a base to what it sees, a function from worlds to  *)
(* [versions, core, default]: the releases, those that come with the base,  *)
(* and the pick that Latest stands for. A pick of a world is Off, Latest,   *)
(* Supported or a release. Dates are in half minutes: a form gives whole    *)
(* minutes, a stored date may not be.                                       *)
EXTENDS BasesOnOffer

CONSTANTS Users, Admins,
          Tpls, Rooms,   \* the ids of templates and rooms
          Config, Indexes,
          Off, Latest, Supported, Blank, Gone,
          Dates,         \* the closing times that forms give
          MaxAhead,      \* MAX_DAYS_UNTIL_CLOSE
          MaxNow,        \* bound on the clock
          MaxRefresh,    \* bound on the refreshes of the index
          MaxOpens       \* bound on the forms that are opened

VARIABLES
  index,
  now,
  tpl, room,    \* the rows: None before one is made, Gone after it is deleted
  form,         \* the form each user has open, or None
  post,         \* the request that saves the user's form, between reading and writing
  refreshes, opens

vars == <<index, now, tpl, room, form, post, refreshes, opens>>

Bases == UNION {Described(i) : i \in Indexes}
Queries == Bases \cup {None}

Init ==
  /\ index \in Indexes /\ now = 0
  /\ tpl = [t \in Tpls |-> None] /\ room = [r \in Rooms |-> None]
  /\ form = [u \in Users |-> None] /\ post = [u \in Users |-> None]
  /\ refreshes = 0 /\ opens = 0

Here(row) == row \notin {None, Gone}

\* AdminSession and LoggedInSession::is_admin
IsAdmin(u) == u \in Admins
Mine(u, row) == IsAdmin(u) \/ row.author = u
Readable(u, t) == Here(tpl[t]) /\ (tpl[t].global \/ tpl[t].author = u)

-----------------------------------------------------------------------------
\* new_room_base
NewRoomBase(query, wanted) ==
  IF query # None THEN RequestedBase(Config, index, query) ELSE BaseOrDefault(Config, index, wanted)

\* template_base; NoVersion is an error, None a template that names no version.
TemplateBase(query, current) ==
  CASE query = None -> current
    [] query = Blank -> None
    [] query = current -> current
    [] OTHER -> RequestedBase(Config, index, query)

\* template_base_select: what its selector offers, the version that is named among it.
TemplateBaseSelect(named) ==
  LET offered == Offered(Config, index)
  IN IF Len(offered) < 2 /\ named = None THEN <<>>
     ELSE <<[value |-> Blank, selected |-> named = None, gone |-> FALSE]>> \o BaseOptions(offered, named)

\* ManifestFormBuilder::rows, valid_options_for_apworld: the picks each world of the form has. A
\* release that comes with the base is offered as Supported.
ManifestRows(base) ==
  [w \in DOMAIN index.rels[base] |->
     LET world == index.rels[base][w]
     IN {Off, Latest} \cup (world.versions \ world.core) \cup (IF world.core = {} THEN {} ELSE {Supported})]

\* resolve_world_version finds a release. For one that is gone it takes the newest; Latest stands
\* for the world's default, which has to be there.
Found(world, pick) ==
  LET wanted == IF pick = Latest THEN world.default ELSE pick
  IN CASE wanted = Off -> FALSE
       [] wanted = Supported -> world.core # {}
       [] wanted = Latest -> world.versions # {}
       [] OTHER -> IF pick = Latest THEN wanted \in world.versions ELSE world.versions # {}

\* Manifest::resolve_with has no error.
Resolves(manifest, base) ==
  \A w \in DOMAIN manifest : manifest[w] # Off => Found(index.rels[base][w], manifest[w])

\* manifest_from_form: every world of the base has an entry, Off when the form does not enable it.
ManifestFromForm(picks, base) ==
  [w \in DOMAIN index.rels[base] |-> IF w \in DOMAIN picks THEN picks[w] ELSE Off]

Minute(date) == date \div 2

(* Mistake: a room's closing time is only checked when the room is made. *)
ValidateCloseDateOnce(close, current) == current # None \/ close <= now + MaxAhead

\* validate_close_date
ValidateCloseDate(close, current) ==
  (current = None \/ Minute(current) # Minute(close)) => close <= now + MaxAhead

\* validate_room_form, of the form's name and limit of YAMLs per user
ValidateRoomForm(f) == f.name # "" /\ (f.limited => f.limit >= 1)

\* to_new_room takes the limit only when the form says so. The rest of a request that saves is filled in by its
\* handler: current is the closing time it read, and picks what the user picked.
Settings(f) == [name |-> f.name, limit |-> IF f.limited THEN f.limit ELSE None, close |-> None, author |-> None,
                from |-> None, named |-> None, global |-> FALSE, base |-> None, manifest |-> <<>>,
                current |-> None, picks |-> <<>>]

-----------------------------------------------------------------------------
Open(u, f) ==
  /\ post[u] = None /\ opens < MaxOpens
  /\ form' = [form EXCEPT ![u] = f] /\ opens' = opens + 1
  /\ UNCHANGED <<index, now, tpl, room, post, refreshes>>

\* create_room: the form is about the worlds of one base. A template the user may not read is
\* left out, and still is in the form's URL.
CreateRoom(u, query, t) ==
  LET wanted == IF t # None /\ Readable(u, t) THEN tpl[t].named ELSE None
      base == NewRoomBase(query, wanted)
  IN /\ t # None => Here(tpl[t])
     /\ base \in Described(index)
     /\ Open(u, [kind |-> "create_room", query |-> query, id |-> t, base |-> base, rows |-> ManifestRows(base), select |-> <<>>])

\* edit_room
EditRoom(u, r) ==
  /\ Here(room[r]) /\ Mine(u, room[r]) /\ room[r].base \in Described(index)
  /\ Open(u, [kind |-> "edit_room", query |-> None, id |-> r, base |-> room[r].base, rows |-> ManifestRows(room[r].base), select |-> <<>>])

\* create_template. The form is posted to the URL it was loaded from.
CreateTemplate(u, query) ==
  LET named == TemplateBase(query, None)
      base == BaseOrDefault(Config, index, named)
  IN /\ named # NoVersion /\ base \in Described(index)
     /\ Open(u, [kind |-> "create_tpl", query |-> query, id |-> None, base |-> base, rows |-> ManifestRows(base),
                 select |-> TemplateBaseSelect(named)])

\* edit_template. Its form says which version to save, even when that is none.
EditTemplate(u, t, query) ==
  LET named == TemplateBase(query, tpl[t].named)
      base == BaseOrDefault(Config, index, named)
  IN /\ Readable(u, t)
     /\ named # NoVersion /\ base \in Described(index)
     /\ Open(u, [kind |-> "edit_tpl", query |-> IF named = None THEN Blank ELSE named, id |-> t,
                 base |-> base, rows |-> ManifestRows(base), select |-> TemplateBaseSelect(named)])

-----------------------------------------------------------------------------
\* A form is posted with the picks and settings its user made. What it will write is built from
\* the rows and the index as they are now; a post that is refused leaves the form open.
Posting(u, picks, base, row) ==
  /\ base \in Described(index)
  /\ LET manifest == ManifestFromForm(picks, base)
     IN /\ Resolves(manifest, base)
        /\ post' = [post EXCEPT ![u] = [row EXCEPT !.base = base, !.manifest = manifest, !.picks = picks]]
  /\ UNCHANGED <<index, now, tpl, room, form, refreshes, opens>>

\* create_room_submit. The version is chosen again, from the form's query and the template's.
CreateRoomSubmit(u, picks, f) ==
  LET t == form[u].id
      wanted == IF t = None THEN None ELSE tpl[t].named
  IN /\ form[u].kind = "create_room" /\ post[u] = None
     /\ ValidateRoomForm(f)
     /\ t # None => Readable(u, t)
     /\ ValidateCloseDate(f.close, None)
     /\ Posting(u, picks, NewRoomBase(form[u].query, wanted),
                [Settings(f) EXCEPT !.close = f.close, !.author = u, !.from = t])

\* edit_room_submit, for the base of the room as it is read now
EditRoomSubmit(u, picks, f) ==
  LET r == form[u].id
  IN /\ form[u].kind = "edit_room" /\ post[u] = None
     /\ Here(room[r]) /\ Mine(u, room[r])
     /\ ValidateRoomForm(f)
     /\ ValidateCloseDate(f.close, room[r].close)
     /\ Posting(u, picks, room[r].base,
                [Settings(f) EXCEPT !.close = f.close, !.author = room[r].author, !.from = room[r].from, !.current = room[r].close])

\* What both template forms write. Only an admin's template is global.
TplRow(u, f, named, author) ==
  [Settings(f) EXCEPT !.named = named, !.global = f.global /\ IsAdmin(u), !.author = author]

\* create_tpl_submit
CreateTplSubmit(u, picks, f) ==
  LET named == TemplateBase(form[u].query, None)
  IN /\ form[u].kind = "create_tpl" /\ post[u] = None
     /\ ValidateRoomForm(f) /\ named # NoVersion
     /\ Posting(u, picks, BaseOrDefault(Config, index, named), TplRow(u, f, named, u))

\* edit_tpl_submit
EditTplSubmit(u, picks, f) ==
  LET t == form[u].id
      named == TemplateBase(form[u].query, tpl[t].named)
  IN /\ form[u].kind = "edit_tpl" /\ post[u] = None
     /\ Here(tpl[t]) /\ Mine(u, tpl[t])
     /\ ValidateRoomForm(f) /\ named # NoVersion
     /\ Posting(u, picks, BaseOrDefault(Config, index, named), TplRow(u, f, named, tpl[t].author))

-----------------------------------------------------------------------------
RoomRow(p) == [name |-> p.name, limit |-> p.limit, close |-> p.close, author |-> p.author, from |-> p.from,
               base |-> p.base, manifest |-> p.manifest]
TemplateRow(p) == [name |-> p.name, limit |-> p.limit, author |-> p.author, named |-> p.named, global |-> p.global,
                   manifest |-> p.manifest]
Done(u) == form' = [form EXCEPT ![u] = None] /\ post' = [post EXCEPT ![u] = None]

\* db::create_room: the template it refers to has to be there.
DbCreateRoom(u, r) ==
  /\ post[u] # None /\ form[u].kind = "create_room"
  /\ room[r] = None
  /\ post[u].from # None => Here(tpl[post[u].from])
  /\ room' = [room EXCEPT ![r] = RoomRow(post[u])]
  /\ Done(u) /\ UNCHANGED <<index, now, tpl, refreshes, opens>>

\* db::update_room; nothing is written over a row that is gone.
DbUpdateRoom(u) ==
  /\ post[u] # None /\ form[u].kind = "edit_room"
  /\ room' = [room EXCEPT ![form[u].id] = IF Here(@) THEN RoomRow(post[u]) ELSE @]
  /\ Done(u) /\ UNCHANGED <<index, now, tpl, refreshes, opens>>

\* db::create_room_template
DbCreateTemplate(u, t) ==
  /\ post[u] # None /\ form[u].kind = "create_tpl" /\ tpl[t] = None
  /\ tpl' = [tpl EXCEPT ![t] = TemplateRow(post[u])]
  /\ Done(u) /\ UNCHANGED <<index, now, room, refreshes, opens>>

\* db::update_room_template
DbUpdateTemplate(u) ==
  /\ post[u] # None /\ form[u].kind = "edit_tpl"
  /\ tpl' = [tpl EXCEPT ![form[u].id] = IF Here(@) THEN TemplateRow(post[u]) ELSE @]
  /\ Done(u) /\ UNCHANGED <<index, now, room, refreshes, opens>>

\* delete_room, delete_template: a template that rooms refer to stays.
DeleteRoom(u, r) ==
  /\ Here(room[r]) /\ Mine(u, room[r])
  /\ room' = [room EXCEPT ![r] = Gone]
  /\ UNCHANGED <<index, now, tpl, form, post, refreshes, opens>>

DeleteTemplate(u, t) ==
  /\ Here(tpl[t]) /\ Mine(u, tpl[t]) /\ ~\E r \in Rooms : Here(room[r]) /\ room[r].from = t
  /\ tpl' = [tpl EXCEPT ![t] = Gone]
  /\ UNCHANGED <<index, now, room, form, post, refreshes, opens>>

\* list_templates and list_associated_rooms
ListTemplates(u) == {t \in Tpls : Readable(u, t)}

ListAssociatedRooms(u, t) ==
  IF Readable(u, t) \/ IsAdmin(u) THEN {r \in Rooms : Here(room[r]) /\ room[r].from = t /\ room[r].author = u} ELSE {}

\* The index is loaded again (IndexFollow), and time passes.
Refresh ==
  /\ refreshes < MaxRefresh /\ refreshes' = refreshes + 1
  /\ index' \in Indexes \ {index}
  /\ UNCHANGED <<now, tpl, room, form, post, opens>>
Tick ==
  /\ now < MaxNow /\ now' = now + 1
  /\ UNCHANGED <<index, tpl, room, form, post, refreshes, opens>>

\* The picks a form's user can make: of each row one.
Picks(rows) == {p \in [DOMAIN rows -> UNION {rows[w] : w \in DOMAIN rows}] : \A w \in DOMAIN rows : p[w] \in rows[w]}
\* What a form is filled in with: at most one field is wrong.
Fields ==
  {f \in [name : {"room", ""}, limited : BOOLEAN, limit : {0}, close : Dates, global : BOOLEAN] :
     (f.name = "" \/ f.limited) => ~(f.name = "" /\ f.limited) /\ f.close = Min(Dates) /\ ~f.global}

Submit(u) ==
  /\ form[u] # None /\ post[u] = None
  /\ \E picks \in Picks(form[u].rows), f \in Fields :
       \* A template has no closing time, and a room is not global.
       /\ IF form[u].kind \in {"create_tpl", "edit_tpl"} THEN f.close = Min(Dates) ELSE ~f.global
       /\ CreateRoomSubmit(u, picks, f) \/ EditRoomSubmit(u, picks, f) \/ CreateTplSubmit(u, picks, f) \/ EditTplSubmit(u, picks, f)

UserStep(u) ==
  \/ \E q \in Queries, t \in Tpls \cup {None} : CreateRoom(u, q, t)
  \/ \E q \in Queries \cup {Blank} : CreateTemplate(u, q) \/ \E t \in Tpls : EditTemplate(u, t, q)
  \/ \E r \in Rooms : EditRoom(u, r) \/ DbCreateRoom(u, r) \/ DeleteRoom(u, r)
  \/ \E t \in Tpls : DbCreateTemplate(u, t) \/ DeleteTemplate(u, t)
  \/ Submit(u) \/ DbUpdateRoom(u) \/ DbUpdateTemplate(u)

Next == (\E u \in Users : UserStep(u)) \/ Refresh \/ Tick

Spec == Init /\ [][Next]_vars

-----------------------------------------------------------------------------
\* The user whose request saved in this step
Saved(u) == post[u] # None /\ post'[u] = None
NewRow(u) ==
  IF form[u].kind \in {"create_room", "edit_room"}
  THEN {room'[r] : r \in {s \in Rooms : room'[s] # room[s]}} ELSE {tpl'[t] : t \in {s \in Tpls : tpl'[s] # tpl[s]}}

\* What is saved enables only what the user enabled on the form, at the version picked there, and
\* everything of it that the base still has; the room's settings are ones that a room can have. That
\* holds although worlds and releases come and go, and the default base changes, while the form is
\* open. (A release that is gone by then is saved all the same: the room gets the newest instead.)
SavesAreThePicks ==
  [][\A u \in Users : Saved(u) =>
       \A made \in NewRow(u) :
         /\ \A w \in DOMAIN made.manifest :
              made.manifest[w] = IF w \in DOMAIN post[u].picks THEN post[u].picks[w] ELSE Off
         /\ made.name # "" /\ (made.limit = None \/ made.limit >= 1)]_vars

\* A form that names a version makes a room on it, or a template that names it, and a form for a
\* template that names none saves none, whatever the default has become and whoever else edited the
\* template since.
VersionAsNamed ==
  [][\A u \in Users : Saved(u) =>
       \A made \in NewRow(u) :
         /\ (form[u].kind = "create_room" /\ form[u].query # None) => made.base = form[u].query
         /\ form[u].kind \in {"create_tpl", "edit_tpl"} =>
              made.named = (IF form[u].query \in {Blank, None} THEN None ELSE form[u].query)]_vars

\* Rows change only by their authors and by admins, and only an admin makes a template global.
OnlyOwnersChange ==
  [][/\ \A t \in Tpls : (Here(tpl[t]) /\ tpl'[t] # tpl[t]) =>
          \E u \in Users : Mine(u, tpl[t]) /\ (Saved(u) \/ tpl'[t] = Gone)
     /\ \A t \in Tpls : (Here(tpl'[t]) /\ tpl'[t].global /\ tpl'[t] # tpl[t]) =>
          \E u \in Admins : Saved(u)
     /\ \A r \in Rooms : (Here(room[r]) /\ Here(room'[r]) /\ room'[r] # room[r]) =>
          /\ room'[r].author = room[r].author
          /\ \E u \in Users : Mine(u, room[r]) /\ Saved(u)]_vars

\* A room's closing time is within the limit of the time it was set, or was not moved by the request
\* that saved it. (A request that reads the room before another one moves the time may write an old
\* time back.)
CloseDatesHeld ==
  [][\A u \in Users : (Saved(u) /\ form[u].kind \in {"create_room", "edit_room"}) =>
       \/ post[u].close <= now + MaxAhead
       \/ post[u].current # None /\ Minute(post[u].current) = Minute(post[u].close)]_vars

\* The selector of a template form shows the version that saving the form as it is names, also one
\* that is no longer on offer: a form that is saved unseen moves no template to another version.
SelectorShowsVersion ==
  \A u \in Users :
    (form[u] # None /\ form[u].kind \in {"create_tpl", "edit_tpl"} /\ form[u].select # <<>>) =>
      {o.value : o \in {p \in ToSet(form[u].select) : p.selected}} = {IF form[u].query = None THEN Blank ELSE form[u].query}

\* What a user's list shows, the user may open, and an associated room is the user's own.
ListsAreOpen ==
  \A u \in Users, t \in Tpls :
    /\ t \in ListTemplates(u) => Here(tpl[t]) /\ (tpl[t].global \/ Mine(u, tpl[t]))
    /\ \A r \in ListAssociatedRooms(u, t) : Mine(u, room[r])

=============================================================================
