------------------------------- MODULE MCRooms -------------------------------
(* A small room of the lobby and the validation of its YAMLs, in three      *)
(* situations. A behaviour follows one of them.                             *)
EXTENDS YamlValidation, TLC

VARIABLE part

\* Version v1 gives the world release a or b, as the manifest says, and new ones with each new index; v2
\* has another release, and none with manifest m2. There is a worker for each.
NewReleases ==
  LET latest(r) == "v1" :> ("m1" :> r @@ "m2" :> "b") @@ "v2" :> ("m1" :> "c" @@ "m2" :> None)
  IN 0 :> latest("a") @@ 1 :> latest("d") @@ 2 :> latest("e")
OneEach == "w1" :> "v1" @@ "w2" :> "v2"

\* "versions": the owner moves the room between two versions and edits it, one request at a time, while
\* the results of earlier validations are on their way. "releases": two new indexes, each with a new
\* release, arrive while validations are under way. "failures": two requests at a time that may
\* fail anywhere; jobs expire.
Limits ==
  [versions |-> [kinds |-> {"upload", "editRoom", "switch"}, time |-> 3,
                 past |-> {"editRoom", "switch", "callbacks"}],
   releases |-> [kinds |-> {"upload", "retry", "refresh", "delete"}, time |-> 4, past |-> {"retry"}],
   failures |-> [kinds |-> {"edit", "editRoom", "delete"}, time |-> 1,
                 past |-> {"editRoom", "overlap", "failure", "unreadable"}]]

Within(limit) ==
  /\ \A h \in Handlers : handler[h].kind \in limit.kinds \cup {"none"}
  /\ (\E y \in Yamls : yamls[y] = Deleted) => "delete" \in limit.kinds
  /\ clock <= limit.time
  /\ past \subseteq limit.past

RoomsInit == Init /\ part \in DOMAIN Limits
RoomsNext == UNCHANGED part /\ Next /\ Within(Limits[part])'
RoomsSpec == RoomsInit /\ [][RoomsNext]_<<part, validationVars>>

\* Every request that the configuration has, without the limits of a situation.
UnlimitedSpec == Init /\ part = "any" /\ [][UNCHANGED part /\ Next]_<<part, validationVars>>

Symmetry == Permutations(Handlers)
=============================================================================
