--------------------------- MODULE ReviewTriggers ---------------------------
(* The review of one YAML (community-ap-tools/review): its triggers are    *)
(* resolved (triggers.rs), the result of its analysis is put in, and every *)
(* rule and the built-in rule (builtin.rs) judge every game it may roll    *)
(* (api/evaluate.rs). Resolving writes the YAML out and reads it back: of  *)
(* an item of a list a scalar is written, and keys are written unquoted.   *)
EXTENDS ReviewRules

CONSTANT MaxIterations

\* Option's string, with Unset for what has none
Spelled(v) == IF Is(v, "str") \/ Is(v, "bool") \/ Is(v, "int") THEN YamlValueAsString(v) ELSE Unset

IsTrueishMatch(v, result) == Spelled(v) = result
ValueCanMatch(v, result) ==
  \/ IsTrueishMatch(v, result)
  \/ /\ Is(v, "map")
     /\ \E i \in DOMAIN v.map : /\ Is(v.map[i][2], "int") /\ v.map[i][2].int # 0
                                /\ IsTrueishMatch(v.map[i][1], result)

\* A trigger in the YAML is a node; options that begin with '+' add to a list.
TriggerNode(cat, name, result, sets) == Mapping(<<<<Str("trigger"), [trigger |->
  [category |-> cat, name |-> name, result |-> result, sets |-> sets]]>>>>)
ParseTrigger(v) ==
  LET t == MappingGet(v, "trigger") IN IF t = Unset THEN Unset ELSE t.trigger

\* Entries that are no triggers are left out.
ParseTriggersFrom(v) ==
  IF v = Unset \/ ~Is(v, "seq") THEN <<>>
  ELSE LET parsed == [i \in DOMAIN v.seq |-> ParseTrigger(v.seq[i])]
       IN SelectSeq(parsed, LAMBDA t : t # Unset)

RECURSIVE OfSections(_)
OfSections(pairs) ==
  IF pairs = <<>> THEN <<>>
  ELSE LET key == Head(pairs)[1]
           skip == ~Is(key, "str") \/ key \in {Str("triggers"), Str("game"), Str("name"), Str("description")}
       IN (IF skip THEN <<>> ELSE ParseTriggersFrom(MappingGet(Head(pairs)[2], "triggers")))
            \o OfSections(Tail(pairs))

\* First those of the top level, then those of each game
CollectTriggers(yaml) == ParseTriggersFrom(MappingGet(yaml, "triggers")) \o OfSections(yaml.map)

YamlValuesEqual(a, b) == a = b /\ (Is(a, "str") \/ Is(a, "int") \/ Is(a, "bool"))

\* How an item of a list is written: whatever is no scalar becomes null.
YamlValueToInline(v) == IF IsScalar(v) THEN v ELSE Null
Inline(es) == [i \in DOMAIN es |-> YamlValueToInline(es[i])]

MergeAdditive(existing, addition) ==
  Sequ(Inline((IF existing # Unset /\ Is(existing, "seq") THEN existing.seq ELSE <<>>)
              \o (IF Is(addition, "seq") THEN addition.seq ELSE <<addition>>)))

\* A key is written as its text, a key that is none as "", and without quotes: some texts read back
\* as another node, and some are no YAML (a table over the strings that occur).
KeyText(k) == IF Is(k, "str") THEN k.str ELSE ""
Unreadable == {"x: y"}
ReadBack(text) ==
  IF text = "" THEN Null
  ELSE IF text \in DOMAIN Numbers THEN Num(Numbers[text])
  ELSE IF text \in {"true", "false"} THEN Bool(text = "true") ELSE Str(text)

\* How a value is written and read back: an empty list or mapping reads as null, and of keys that
\* read alike the last one counts.
RECURSIVE SerializeYamlEntry(_)
SerializeYamlEntry(v) ==
  IF Is(v, "map")
  THEN IF v.map = <<>> THEN Null
       ELSE LET Key(i) == ReadBack(KeyText(v.map[i][1]))
                counts == {i \in DOMAIN v.map : \A j \in DOMAIN v.map : Key(j) = Key(i) => j <= i}
            IN Mapping([n \in 1..Cardinality(counts) |->
                 LET i == CHOOSE c \in counts : Cardinality({d \in counts : d <= c}) = n
                 IN <<Key(i), SerializeYamlEntry(v.map[i][2])>>])
  ELSE IF Is(v, "seq") THEN (IF v.seq = <<>> THEN Null ELSE Sequ(Inline(v.seq)))
  ELSE v

\* Whether what is written of a value is YAML
RECURSIVE Readable(_)
Readable(v) ==
  Is(v, "map") => \A i \in DOMAIN v.map : KeyText(v.map[i][1]) \notin Unreadable /\ Readable(v.map[i][2])

\* The pairs of a game with the changes: changed in place, or added at the end
RECURSIVE AsPairs(_, _)
AsPairs(changes, keys) ==
  IF keys = {} THEN <<>>
  ELSE LET k == CHOOSE x \in keys : TRUE IN <<<<Str(k), changes[k]>>>> \o AsPairs(changes, keys \ {k})

ChangedPairs(pairs, changes) ==
  LET present == {k \in DOMAIN changes : \E i \in DOMAIN pairs : KeyText(pairs[i][1]) = k}
      Now(i) == IF KeyText(pairs[i][1]) \in present THEN changes[KeyText(pairs[i][1])] ELSE pairs[i][2]
  IN [i \in DOMAIN pairs |-> <<pairs[i][1], Now(i)>>] \o AsPairs(changes, DOMAIN changes \ present)

\* changes maps pairs of a game and an option to values. When what is written cannot be read the YAML
\* stays as it is.
SetYamlValues(yaml, changes) ==
  LET Of(g) == [k \in {c[2] : c \in {d \in DOMAIN changes : d[1] = g}} |-> changes[<<g, k>>]]
      Section(i) == LET v == yaml.map[i][2]
                    IN IF Is(v, "map") THEN Mapping(ChangedPairs(v.map, Of(KeyText(yaml.map[i][1])))) ELSE v
      changed == Mapping([i \in DOMAIN yaml.map |-> <<yaml.map[i][1], Section(i)>>])
  IN IF Readable(changed) THEN SerializeYamlEntry(changed) ELSE yaml

\* What one trigger's option adds to the changes of the round: later ones win.
Change(yaml, changes, set) ==
  LET section == MappingGet(yaml, set.game)
      existing == IF section = Unset THEN Unset ELSE MappingGet(section, set.key)
      value == IF set.adds THEN MergeAdditive(existing, set.value) ELSE set.value
      same == existing # Unset /\ (IF set.adds THEN existing = value ELSE YamlValuesEqual(existing, value))
  IN IF section = Unset \/ same THEN changes ELSE (<<set.game, set.key>> :> value) @@ changes

RECURSIVE FoldSets(_, _, _)
FoldSets(yaml, changes, sets) ==
  IF sets = <<>> THEN changes ELSE FoldSets(yaml, Change(yaml, changes, Head(sets)), Tail(sets))

Fires(yaml, t) ==
  LET v == NavigatePath(yaml, <<t.category, t.name>>)
  IN v # Unset /\ ValueCanMatch(v, t.result)

RECURSIVE FoldTriggers(_, _, _)
FoldTriggers(yaml, changes, ts) ==
  IF ts = <<>> THEN changes
  ELSE FoldTriggers(yaml, IF Fires(yaml, Head(ts)) THEN FoldSets(yaml, changes, Head(ts).sets) ELSE changes, Tail(ts))

NoChange == [x \in {} |-> Unset]

RECURSIVE Rounds(_, _)
Rounds(yaml, left) ==
  LET changes == FoldTriggers(yaml, NoChange, CollectTriggers(yaml))
  IN IF left = 0 \/ DOMAIN changes = {} THEN yaml ELSE Rounds(SetYamlValues(yaml, changes), left - 1)

ResolveTriggers(yaml) == Rounds(yaml, MaxIterations)

-----------------------------------------------------------------------------
\* The names a value of a plando entry refers to
NamesIn(v) ==
  IF Is(v, "str") THEN {v.str}
  ELSE IF Is(v, "seq") THEN {v.seq[i].str : i \in {j \in DOMAIN v.seq : Is(v.seq[j], "str")}}
  ELSE IF Is(v, "map") THEN {v.map[i][1].str : i \in {j \in DOMAIN v.map : Is(v.map[j][1], "str")}}
  ELSE {}

CheckPlandoEntry(entry, others) ==
  \E field \in {"from_player", "to_player", "world"} :
    LET v == MappingGet(entry, field) IN v # Unset /\ NamesIn(v) \cap others # {}

\* NoCrossPlando::evaluate; the names of the room's other players
NoCrossPlando(yaml, game, player, players) ==
  LET section == MappingGet(yaml, game)
      plando == IF section = Unset THEN Unset ELSE MappingGet(section, "plando_items")
      entries == IF plando = Unset THEN <<>> ELSE IF Is(plando, "seq") THEN plando.seq ELSE <<>>
  IN IF section = Unset THEN "skipped"
     ELSE IF \E i \in DOMAIN entries : CheckPlandoEntry(entries[i], players \ {player}) THEN "fail" ELSE "pass"

(* Mistake: games of weight zero are reviewed like the others.             *)
ExtractGameNamesAll(yaml) ==
  LET g == MappingGet(yaml, "game")
  IN IF g = Unset THEN {} ELSE IF Is(g, "str") THEN {g.str}
     ELSE IF Is(g, "map") THEN {g.map[i][1].str : i \in DOMAIN g.map} ELSE {}

ExtractGameNames(yaml) ==
  LET g == MappingGet(yaml, "game")
  IN IF g = Unset THEN {} ELSE IF Is(g, "str") THEN {g.str}
     ELSE IF Is(g, "map") THEN {g.map[i][1].str : i \in {j \in DOMAIN g.map : Is(g.map[j][2], "int") /\ g.map[j][2] # Num(0)}}
     ELSE {}

\* The result of the analysis as options of the games
InsertChecks(yaml, games, total) ==
  Mapping([i \in DOMAIN yaml.map |->
    IF Is(yaml.map[i][2], "map") /\ yaml.map[i][1] \in {Str(g) : g \in games}
    THEN <<yaml.map[i][1], Mapping(ChangedPairs(yaml.map[i][2].map, ("_checks" :> Num(total))))>>
    ELSE yaml.map[i]])

\* The alerts on a YAML's games: the game, the rule's position (0 for the built-in one) and the outcome
ReviewGames(full, games, rules, player, players) ==
  LET ofRules == {[game |-> g, rule |-> i, outcome |-> EvaluateRulesForYaml(rules, full, g)[i]]
                    : g \in games, i \in DOMAIN rules}
      builtin == {[game |-> g, rule |-> 0, outcome |-> NoCrossPlando(full, g, player, players)] : g \in games}
  IN {r \in ofRules \cup builtin : r.outcome \in {"fail", "error"}}

\* The alerts once the triggers are resolved
EvaluateResolved(resolved, games, rules, total, player, players) ==
  ReviewGames(IF total = Unset THEN resolved ELSE InsertChecks(resolved, games, total), games, rules, player, players)

\* The games of a resolved YAML, the listed one if it names none
GamesOf(resolved, listed) ==
  LET found == ExtractGameNames(resolved) IN IF found = {} THEN {listed} ELSE found

EvaluateSingleYaml(yaml, listed, rules, total, player, players) ==
  LET resolved == ResolveTriggers(yaml)
  IN EvaluateResolved(resolved, GamesOf(resolved, listed), rules, total, player, players)

-----------------------------------------------------------------------------
(* Without triggers that fire, a review says of every game that may be     *)
(* rolled what its section says, and nothing of the others: rules read the *)
(* analysis' result, and a plando that names another player is reported.   *)
ReviewsEveryGame(yaml, weights, total, player, players) ==
  LET rules == <<[game |-> Unset, when |-> Unset, then |->
                   [is |-> "check", path |-> <<"_checks">>, check |-> [is |-> "greater_than", value |-> 1]]]>>
      out == EvaluateSingleYaml(yaml, "g", rules, total, player, players)
      Crosses(plando) == plando # Unset /\ \E i \in DOMAIN plando.seq : \E j \in DOMAIN plando.seq[i].map :
                           NamesIn(plando.seq[i].map[j][2]) \cap (players \ {player}) # {}
      Cross(g) == Crosses(NavigatePath(yaml, <<g, "plando_items">>))
      Rolled == {g \in DOMAIN weights : weights[g] # 0 /\ MappingGet(yaml, g) # Unset}
  IN out = {[game |-> g, rule |-> 1, outcome |-> "fail"] : g \in {h \in Rolled : total > 1}}
           \cup {[game |-> g, rule |-> 0, outcome |-> "fail"] : g \in {h \in Rolled : Cross(h)}}

(* A trigger whose condition holds in the YAML has its options set when    *)
(* the triggers are resolved, and what it adds to a list is added once,    *)
(* whatever other triggers do in the same and in later rounds. Only when a *)
(* key of the YAML cannot be read back, none of its triggers is applied.   *)
TriggersApplyOnce(yaml) ==
  LET resolved == ResolveTriggers(yaml)
      ts == CollectTriggers(yaml)
      firing == {t \in {ts[i] : i \in DOMAIN ts} : Fires(yaml, t)}
      sets == UNION {{t.sets[i] : i \in DOMAIN t.sets} : t \in firing}
      Other(s) == \E r \in sets \ {s} : r.game = s.game /\ r.key = s.key
      Value(y, s) == NavigatePath(y, <<s.game, s.key>>)
      Count(v) == IF v = Unset THEN 0 ELSE IF Is(v, "seq") THEN Len(v.seq) ELSE 0
      applying == {r \in sets : MappingGet(yaml, r.game) # Unset /\ ~Other(r)}
      Applied(s) == IF s.adds THEN Count(Value(resolved, s)) = Count(Value(yaml, s)) + Count(s.value)
                    ELSE Value(resolved, s) = SerializeYamlEntry(s.value)
  IN (\A s \in applying : Applied(s)) \/ (~Readable(yaml) /\ resolved = yaml)

=============================================================================
