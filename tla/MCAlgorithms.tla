---------------------------- MODULE MCAlgorithms ----------------------------
(* Inputs of the pure parts of the system: every step picks one, and the   *)
(* properties say of each what the code makes of it.                       *)
EXTENDS ReviewTriggers, Algorithms

SomeNumerals == "0" :> 0 @@ "1" :> 1 @@ "5" :> 5 @@ "+5" :> 5 @@ "9" :> 9
\* A text in quotes of its own is a JSON text; "+5" is an integer and no JSON.
SomeJsons ==
  LET Val(kind, v) == kind :> v
  IN [s \in DOMAIN SomeNumerals \ {"+5"} |-> Val("num", SomeNumerals[s])]
       @@ "true" :> Val("flag", TRUE) @@ "false" :> Val("flag", FALSE) @@ "null" :> Val("null", TRUE)
       @@ "1.5" :> Val("float", "1.5") @@ "'x'" :> Val("text", "x") @@ "'w'" :> Val("text", "w")

Nothing == [about |-> "nothing"]
Init == inp = Nothing

\* Scalars, lists, weighted choices and mappings of switches
Words == {"0", "1", "x", "x,y", "true", "random", "random-range-2-1", "random-range-low-0-2", "random-range-0-0"}
Scalars == {Str(w) : w \in Words} \cup {Num(i) : i \in -1..2} \cup {Bool(TRUE), Bool(FALSE), Null}
Keys == {Str("x"), Str("1"), Num(0), Bool(TRUE), Str("random-range-2-1")}
Weighted == {Mapping(<<<<k[1], Num(i)>>, <<k[2], Num(j)>>>>) : k \in {p \in Keys \X Keys : p[1] # p[2]}, i, j \in 0..1}
Switched == {Mapping(<<<<Str("x"), b>>, <<Str("y"), Bool(TRUE)>>>>) : b \in {Bool(FALSE), Str("all")}}
Lists == {Sequ(<<>>), Sequ(<<Str("x")>>), Sequ(<<Str("y"), Num(1)>>)}
Vals == Scalars \cup Weighted \cup Switched \cup Lists \cup {Mapping(<<>>)}

Numerics == {[is |-> "truthy"], [is |-> "not_truthy"]}
  \cup {[is |-> k, value |-> s] : k \in {"equals", "not_equals"}, s \in {"0", "1", "2", "x"}}
  \cup {[is |-> k, value |-> i] : k \in {"greater_than", "less_than"}, i \in 0..2}
  \cup {[is |-> "range", min |-> i, max |-> i + 1] : i \in 0..1}
Patterns == {[compiles |-> c, matches |-> {"x"}] : c \in {"yes", "no", "large"}}
Checks == Numerics
  \cup {[is |-> "regex", pattern |-> p] : p \in Patterns}
  \cup {[is |-> "contains", value |-> "x"], [is |-> "not_contains", value |-> "x"], [is |-> "exists"], [is |-> "not_exists"]}
  \cup {[is |-> "count", check |-> c] : c \in {[is |-> "equals", value |-> "2"], [is |-> "not_equals", value |-> "x"], [is |-> "exists"],
                                               [is |-> "range", min |-> 1, max |-> 2], [is |-> "greater_than", value |-> 0],
                                               [is |-> "less_than", value |-> 1]}}

PickCheck == inp = Nothing /\ \E v \in Vals, c \in Checks : inp' = [about |-> "check", v |-> v, c |-> c]

\* Predicates of up to three checks on options that are there or not, under a nested path too
Game(v) == Mapping(<<<<Str("a"), v>>, <<Str("s"), Mapping(<<<<Str("b"), Num(1)>>>>)>>>>)
Leaf(path, c) == [is |-> "check", path |-> path, check |-> c]
Leaves == {Leaf(p, c) : p \in {<<"a">>, <<"z">>}, c \in {[is |-> "truthy"], [is |-> "not_contains", value |-> "x"],
                         [is |-> "regex", pattern |-> [compiles |-> "large", matches |-> {}]]}}
  \cup {Leaf(<<"s", "b">>, [is |-> "equals", value |-> "1"]), Leaf(<<"a", "b">>, [is |-> "exists"]),
        Leaf(<<>>, [is |-> "truthy"]), Leaf(<<"a">>, [is |-> "regex", pattern |-> [compiles |-> "no", matches |-> {}]])}

PickPredicates ==
  /\ inp = Nothing
  /\ \E v \in {Str("x"), Num(1), Bool(FALSE)}, p, q, r \in Leaves, n \in 0..4 :
       inp' = [about |-> "predicates", game |-> Game(v), ps |-> <<p, q, r>>, n |-> n]

\* YAMLs whose triggers set or add options, on the top or in a game, and may set one another off
Set(g, k, v, adds) == [game |-> g, key |-> k, value |-> v, adds |-> adds]
Sets == {Set("g", "a", Num(1), FALSE), Set("g", "b", Str("on"), FALSE), Set("h", "a", Num(2), FALSE),
         Set("g", "l", Sequ(<<Str("y")>>), TRUE), Set("none", "a", Num(1), FALSE)}
Triggers == {TriggerNode(c, k, r, <<s>>) : c \in {"g", "h"}, k \in {"a", "b"}, r \in {"1", "on"}, s \in Sets}
Plando(who) == Sequ(<<Mapping(<<<<Str("item"), Str("sword")>>, who>>)>>)
Whos == {<<Str("world"), Str("bob")>>, <<Str("from_player"), Sequ(<<Str("ann"), Str("bob")>>)>>, <<Str("world"), Str("ann")>>}
Yaml(top, inner, a, who, weights) == Mapping(<<
  <<Str("game"), Mapping(<<<<Str("g"), Num(weights["g"])>>, <<Str("h"), Num(weights["h"])>>>>)>>,
  <<Str("triggers"), Sequ(top)>>,
  <<Str("g"), Mapping(<<<<Str("a"), a>>, <<Str("l"), Sequ(<<Str("x")>>)>>, <<Str("plando_items"), Plando(who)>>,
                        <<Str("triggers"), Sequ(inner)>>>>)>>,
  <<Str("h"), Mapping(<<<<Str("a"), Num(1)>>>>)>>>>)
Rolls == {[g |-> 1, h |-> 0], [g |-> 1, h |-> 1], [g |-> 0, h |-> 1]}

PickTriggers ==
  /\ inp = Nothing
  /\ \E t, u \in Triggers,
        a \in {Num(1), Mapping(<<<<Str("1"), Num(1)>>, <<Str("2"), Num(0)>>>>),
               Mapping(<<<<Num(1), Num(1)>>, <<Num(2), Num(0)>>>>), Mapping(<<<<Str("1"), Num(1)>>, <<Str("x: y"), Num(0)>>>>)} :
       inp' = [about |-> "triggers", yaml |-> Yaml(<<t>>, <<u>>, a, CHOOSE w \in Whos : TRUE, [g |-> 1, h |-> 1])]

PickReview ==
  /\ inp = Nothing
  /\ \E who \in Whos, w \in Rolls, total \in 0..3, p \in {"ann", "bob"} :
       inp' = [about |-> "review", yaml |-> Yaml(<<>>, <<>>, Num(0), who, w), weights |-> w, total |-> total, player |-> p]

\* World files: bases are 2 and 3, so a release may have the number of one; 2 is the legacy base.
Unchanged == [bases |-> {3}, supported |-> None, disabled |-> None, default |-> None]
Overrides == {<<>>, <<[Unchanged EXCEPT !.disabled = TRUE]>>, <<[Unchanged EXCEPT !.disabled = FALSE, !.default = W!Latest]>>,
              <<[Unchanged EXCEPT !.supported = TRUE]>>, <<[Unchanged EXCEPT !.supported = FALSE]>>, <<Unchanged, [Unchanged EXCEPT !.bases = {2, 3}]>>, <<[Unchanged EXCEPT !.bases = None]>>}
Release(min, max, origins) == [min |-> min, max |-> max, origins |-> origins]
Releases == {<<>>, (4 :> Release(3, None, {})), (1 :> Release(None, 2, {"local"})), (3 :> Release(3, 2, {"url"})), (3 :> Release(None, 2, {"url"})),
             (1 :> Release(3, 3, {"url", "local"}))}
Tables == {[v \in vs |-> "default"] : vs \in SUBSET {1, 3}}
Def(name, default, versions, releases, disabled, supported, overrides) ==
  [name |-> name, default |-> default, versions |-> versions, releases |-> releases,
   disabled |-> disabled, supported |-> supported, overrides |-> overrides]
Second == {Def(2, W!Latest, (1 :> "url"), <<>>, FALSE, FALSE, <<>>), Def(1, W!Specific(2), <<>>, <<>>, FALSE, TRUE, <<>>)}
Defaults == {W!Latest, W!LatestSupported, W!Specific(1)}
\* A world whose file has another name than its game has no overrides.
Defs == {Def(1, d, t, r, x, u, o) : d \in Defaults, t \in Tables, r \in Releases, x \in BOOLEAN, u \in BOOLEAN, o \in Overrides}
  \cup {Def(9, d, t, r, x, u, <<>>) : d \in Defaults, t \in Tables, r \in Releases, x \in BOOLEAN, u \in BOOLEAN}
IndexWith(def, second) == [legacy |-> 2, bases |-> {2, 3}, worlds |-> <<def, second>>]
Wishes == {<<>>} \cup {(1 :> q) : q \in {W!Latest, W!Specific(1), W!Specific(4), W!LatestSupported, W!Disabled}}

\* The large inputs are picked in two steps.
PickDef == inp = Nothing /\ \E d \in Defs : inp' = [about |-> "def", def |-> d]
PickIndex ==
  /\ inp.about = "def"
  /\ \E e \in IF inp.def.overrides = <<>> THEN Second ELSE {CHOOSE e \in Second : TRUE},
        m \in Wishes, p \in {"enable", "disable"} :
       inp' = [about |-> "index", index |-> IndexWith(inp.def, e), manifest |-> [worlds |-> m, policy |-> p], games |-> <<1, 2, 1, 9>>]

\* Two indexes, the newer with another base, and what the servers give then and later
ChangingDefs == {Def(1, W!Latest, t, r, x, u, <<>>) : t \in Tables, r \in Releases, x \in BOOLEAN, u \in BOOLEAN}
FirstServer == [p \in {1, 2} \X (1..4) |-> "new"]
Servers == {FirstServer, [FirstServer EXCEPT ![<<1, 1>>] = "newer"]}

\* The files and manifests are ones that can be read.
ASSUME FilesAreRead ==
  /\ \A d \in Defs \cup ChangingDefs, e \in Second : W!IsIndexFile(IndexWith(d, e))
  /\ \A m \in Wishes, p \in {"enable", "disable"} : W!IsManifest([worlds |-> m, policy |-> p])

PickOld ==
  inp = Nothing /\ \E d \in ChangingDefs, e \in Second, bs \in {{}, {3}} :
    inp' = [about |-> "old", second |-> e, old |-> [IndexWith(d, e) EXCEPT !.bases = bs]]
PickChange ==
  /\ inp.about = "old"
  /\ \E d \in ChangingDefs, u \in Servers :
       inp' = [about |-> "change", old |-> inp.old, new |-> IndexWith(d, inp.second), first |-> FirstServer, later |-> u]

PickAnswers ==
  /\ inp = Nothing
  /\ \E a \in [1..6 -> {"ok", "500", "404"}] : inp' = [about |-> "answers", answers |-> a]

\* The operator's two values, the index a lobby starts on and one it loads later
BaseIndexes == {[legacy |-> l, rels |-> [b \in bs \cup {l} |-> {}]] : l \in 1..2, bs \in SUBSET (1..3)}
BaseTexts == {None, <<>>} \cup {<<b>> : b \in 0..3} \cup {<<b, c>> : b \in 0..3, c \in 1..3}

\* What BaseConfig::parse gives is a configuration, and the indexes are ones that load.
ASSUME BasesAreRead ==
  /\ \A i \in BaseIndexes : B!IsIndex(i)
  /\ \A t \in BaseTexts, d \in {None, <<>>} \cup {<<b>> : b \in 0..3} :
       B!Parse(t, d).ok => B!IsConfig(B!Parse(t, d))

PickConfig ==
  /\ inp = Nothing
  /\ \E t \in BaseTexts, d \in {None, <<>>} \cup {<<b>> : b \in 0..3} :
       LET config == B!Parse(t, d)
       IN /\ config.ok /\ \E i \in BaseIndexes : B!Check(config, i)
          /\ inp' = [about |-> "config", config |-> config]
PickBases ==
  /\ inp.about = "config"
  /\ \E j \in BaseIndexes : inp' = [about |-> "bases", config |-> inp.config, index |-> j]

\* Options of every type, and what a YAML may give for them
OptDef(ty, default) == [ty |-> ty, default |-> default, range |-> None, choices |-> None, suggestions |-> None, keys |-> None]
ScalarDefs ==
  {OptDef("bool", F!Text("true")), OptDef("text", F!Text("x")),
   [OptDef("range", F!Number(1)) EXCEPT !.range = <<1, 5>>],
   [OptDef("choice", F!Text("x")) EXCEPT !.choices = {"x", "5", "null", "'w'"}],
   [OptDef("text_choice", F!Text("y")) EXCEPT !.suggestions = {"x", "y"}]}
  \cup {[OptDef("named_range", d) EXCEPT !.range = <<1, 5>>, !.suggestions = {"x"}] : d \in {F!Number(1), F!Text("x")}}
OtherDefs ==
  {[OptDef(ty, F!List(<<>>)) EXCEPT !.keys = ks] : ty \in {"set", "list", "counter"}, ks \in {None, {}, {"x"}}}
  \cup {[OptDef("dict", F!Object("x" :> v)) EXCEPT !.keys = ks] : v \in {F!Number(1), F!Flag(TRUE)}, ks \in {{}, {"x"}}}
  \cup {OptDef("unknown", F!Null), OptDef("text", F!List(<<>>))}
OptTexts == {"x", "y", "5", "+5", "9", "true", "false", "random", "null", "'w'"}
FormScalars == {F!Text(s) : s \in OptTexts} \cup {F!Number(n) : n \in {0, 1, 5, 9}} \cup {F!Flag(b) : b \in BOOLEAN}
FormLists == {F!List(l) : l \in {<<>>, <<F!Text("x")>>, <<F!Number(1), F!Text("y")>>}}
FormWeights == {F!Object(w) : w \in UNION {[ks -> {F!Number(0), F!Number(1), F!Text("x")}] : ks \in SUBSET OptTexts \cap {{}, {"x"}, {"5", "x"}, {"9", "true"}, {"y", "9", "random"}}}}
FormVals == FormScalars \cup FormLists \cup FormWeights \cup {F!Null, F!Float("1.5")}

\* The definitions and the values are ones that can be read, and the scalar options have controls.
ASSUME OptionsAreRead ==
  /\ \A d \in ScalarDefs \cup OtherDefs : F!IsDef(d)
  /\ \A d \in ScalarDefs : F!IsEditable(d)
  /\ \A v \in FormVals : F!IsValue(v)

PickOption == inp = Nothing /\ \E d \in ScalarDefs \cup OtherDefs : inp' = [about |-> "option", def |-> d]
PickOptions ==
  /\ inp.about = "option"
  /\ \E v \in FormVals, w \in FormScalars \cup FormLists :
       LET d == inp.def
           e == OptDef("text", F!Text("x"))
       IN /\ (d.ty \in F!WeightedTypes \cup {"unknown"} \/ ~F!Has(v, "text"))
          /\ d.ty \in {"set", "list"} => F!Has(v, "list")
          /\ inp' = [about |-> "options", defs |-> ("a" :> d @@ "b" :> e @@ "c" :> e), yaml |-> F!WriteYaml("g", "ann", "a" :> v @@ "b" :> w @@ "z" :> w)]

\* What a page's controls hold
Controls(d) == {v \in FormVals \cup {F!Object("x" :> F!Number(1) @@ "random" :> F!Number(2))} : F!IsControl(d, v)}
PickForm ==
  /\ inp = Nothing
  /\ \E d, e \in ScalarDefs : \E v \in Controls(d), w \in Controls(e) \ FormWeights, p \in {"", "ann"} :
       inp' = [about |-> "form", defs |-> ("a" :> d @@ "b" :> e), game |-> "g", player |-> p, form |-> ("a" :> v @@ "b" :> w)]

Next ==
  PickCheck \/ PickPredicates \/ PickTriggers \/ PickReview \/ PickDef \/ PickIndex \/ PickOld \/ PickChange
    \/ PickAnswers \/ PickConfig \/ PickBases \/ PickOption \/ PickOptions \/ PickForm

Spec == Init /\ [][Next]_inp

-----------------------------------------------------------------------------
\* evaluate_check and evaluate_predicate: a check alerts exactly on what the generator may roll, one
\* of contains and not contains alerts, predicates combine as the laws of logic say, and no valid
\* rule errs.
RulesAreRight ==
  /\ inp.about = "check" =>
       /\ AlertsIfItCanRoll(inp.v, inp.c)
       /\ ContainsOrNot(inp.v, "x") /\ ContainsOrNot(Unset, "x")
       /\ ValidRulesAnswer(Leaf(<<"a">>, inp.c), Game(inp.v))
  /\ inp.about = "predicates" =>
       /\ CombinationsAgree(inp.ps, inp.game)
       /\ ValidRulesAnswer(AtLeast(inp.n, <<Not(inp.ps[1]), Both(inp.ps), inp.ps[3]>>), inp.game)

\* resolve_triggers and evaluate_single_yaml: triggers that fire are applied, and once; every game
\* that may be rolled is reviewed, and no other.
ReviewIsComplete ==
  /\ inp.about = "triggers" => TriggersApplyOnce(inp.yaml)
  /\ inp.about = "review" =>
       ReviewsEveryGame(inp.yaml, inp.weights, inp.total, inp.player, {"ann", "bob"})

\* A room is generated with the releases its YAMLs were validated on.
GeneratedAsValidated ==
  inp.about = "index" /\ W!Loads(inp.index) => W!GeneratesWhatWasValidated(inp.manifest, W!ViewForBase(inp.index, 2))
=============================================================================
