---------------------------- MODULE ReviewRules ----------------------------
(* The rules reviewers write for YAMLs (community-ap-tools/review/rules.rs)*)
(* as operators: a rule alerts ("fail") when its predicate holds of some   *)
(* option the generator may roll. What the standard library says of a      *)
(* string (its number, its parts) is a table over the strings that occur.  *)
EXTENDS Integers, Sequences, FiniteSets, TLC

CONSTANT Unset   \* Rust's None

\* YAML nodes: one field, named for what the node is. The pairs of a mapping are in order.
Str(s) == [str |-> s]
Num(i) == [int |-> i]
Bool(b) == [bool |-> b]
Sequ(es) == [seq |-> es]
Mapping(ps) == [map |-> ps]
Null == [null |-> Unset]

Is(v, kind) == kind \in DOMAIN v
IsScalar(v) == ~Is(v, "seq") /\ ~Is(v, "map")

\* parse::<i64>, split(','), and the words and ranges that stand for a roll
Numbers == ("-1" :> -1) @@ ("0" :> 0) @@ ("1" :> 1) @@ ("2" :> 2) @@ ("3" :> 3)
ParseInt(s) == IF s \in DOMAIN Numbers THEN Numbers[s] ELSE Unset
Split(s) == IF s = "x,y" THEN {"x", "y"} ELSE {s}
RandomWords == {"random", "random-low", "random-high"}
RandomRanges == ("random-range-2-1" :> <<1, 2>>) @@ ("random-range-low-0-2" :> <<0, 2>>)
                @@ ("random-range-0-0" :> <<0, 0>>)

\* The value under a key of a mapping, or Unset
MappingGet(v, key) ==
  IF ~Is(v, "map") THEN Unset
  ELSE LET at == {i \in DOMAIN v.map : v.map[i][1] = Str(key)}
       IN IF at = {} THEN Unset ELSE v.map[CHOOSE i \in at : TRUE][2]

YamlValueAsString(v) ==
  IF Is(v, "str") THEN v.str
  ELSE IF Is(v, "bool") THEN (IF v.bool THEN "true" ELSE "false")
  ELSE IF Is(v, "int") THEN ToString(v.int) ELSE ""

YamlValueAsI64(v) == IF Is(v, "int") THEN v.int ELSE IF Is(v, "str") THEN ParseInt(v.str) ELSE Unset

IsTrueish(v) ==
  IF Is(v, "bool") THEN v.bool
  ELSE IF YamlValueAsI64(v) # Unset THEN YamlValueAsI64(v) # 0
  ELSE Is(v, "str") /\ v.str \in {"true", "all", "enabled"} \cup RandomWords \cup DOMAIN RandomRanges

RECURSIVE NavigatePath(_, _)
NavigatePath(v, path) ==
  IF path = <<>> THEN v
  ELSE LET w == MappingGet(v, Head(path))
       IN IF w = Unset THEN Unset ELSE NavigatePath(w, Tail(path))

-----------------------------------------------------------------------------
\* Checks return Ok(true), Ok(false) or an error; reaching unreachable!() is a panic.
YN(b) == IF b THEN "yes" ELSE "no"

\* A pattern is what it matches and whether it compiles: "large" does for validate, but not
\* within REGEX_SIZE_LIMIT. The cache of compiled patterns changes no answer.
CachedRegex(p) == p.compiles = "yes"

\* Some(bounds) is a record, and a bare "random" has no bounds.
ParseRandom(v) ==
  IF ~Is(v, "str") THEN Unset
  ELSE IF v.str \in RandomWords THEN [bounds |-> Unset]
  ELSE IF v.str \in DOMAIN RandomRanges THEN [bounds |-> RandomRanges[v.str]] ELSE Unset

(* Mistake: a range alerts if all of it does.                              *)
CheckRandomAll(bounds, c) ==
  IF bounds = Unset THEN "yes"
  ELSE LET lo == bounds[1]  hi == bounds[2]  n == IF c.is \in {"equals", "not_equals"} THEN ParseInt(c.value) ELSE Unset
  IN CASE c.is = "truthy" -> YN(~(lo <= 0 /\ hi >= 0))
       [] c.is = "not_truthy" -> YN(lo = 0 /\ hi = 0)
       [] c.is = "equals" -> YN(n # Unset /\ n = lo /\ n = hi)
       [] c.is = "not_equals" -> YN(n # Unset /\ (n < lo \/ n > hi))
       [] c.is = "greater_than" -> YN(lo > c.value)
       [] c.is = "less_than" -> YN(hi < c.value)
       [] c.is = "range" -> YN(lo >= c.min /\ hi <= c.max)
       [] c.is \in {"regex", "contains"} -> "yes"
       [] c.is \in {"count", "not_contains"} -> "no"
       [] OTHER -> "panic"

\* Whether some number of the range passes
CheckRandom(bounds, c) ==
  IF bounds = Unset THEN "yes"
  ELSE LET lo == bounds[1]  hi == bounds[2]  n == IF c.is \in {"equals", "not_equals"} THEN ParseInt(c.value) ELSE Unset
  IN CASE c.is = "truthy" -> YN(lo # 0 \/ hi # 0)
       [] c.is = "not_truthy" -> YN(lo <= 0 /\ hi >= 0)
       [] c.is = "equals" -> YN(n # Unset /\ n >= lo /\ n <= hi)
       [] c.is = "not_equals" -> YN(n # Unset /\ (lo # hi \/ n # lo))
       [] c.is = "greater_than" -> YN(hi > c.value)
       [] c.is = "less_than" -> YN(lo < c.value)
       [] c.is = "range" -> YN(hi >= c.min /\ lo <= c.max)
       [] c.is \in {"regex", "contains"} -> "yes"
       [] c.is \in {"count", "not_contains"} -> "no"
       [] OTHER -> "panic"

EvaluateCountCheck(n, c) ==
  YN(CASE c.is = "equals" -> n = ParseInt(c.value)
       [] c.is = "not_equals" -> ParseInt(c.value) = Unset \/ n # ParseInt(c.value)
       [] c.is = "greater_than" -> n > c.value
       [] c.is = "less_than" -> n < c.value
       [] c.is = "range" -> n >= c.min /\ n <= c.max
       [] OTHER -> FALSE)

\* An item of a list, a key of a mapping that is switched on, or a part of a string
Holds(v, x) ==
  IF Is(v, "seq") THEN \E i \in DOMAIN v.seq : YamlValueAsString(v.seq[i]) = x
  ELSE IF Is(v, "map") THEN \E i \in DOMAIN v.map : YamlValueAsString(v.map[i][1]) = x /\ IsTrueish(v.map[i][2])
  ELSE x \in Split(YamlValueAsString(v))

CheckSingleValue(v, c) ==
  IF ParseRandom(v) # Unset THEN CheckRandom(ParseRandom(v).bounds, c)
  ELSE LET n == YamlValueAsI64(v)
  IN CASE c.is = "truthy" -> YN(IsTrueish(v))
       [] c.is = "not_truthy" -> YN(~IsTrueish(v))
       [] c.is = "equals" -> YN(YamlValueAsString(v) = c.value)
       [] c.is = "not_equals" -> YN(YamlValueAsString(v) # c.value)
       [] c.is = "greater_than" -> YN(n # Unset /\ n > c.value)
       [] c.is = "less_than" -> YN(n # Unset /\ n < c.value)
       [] c.is = "range" -> YN(n # Unset /\ n >= c.min /\ n <= c.max)
       [] c.is = "regex" -> IF CachedRegex(c.pattern) THEN YN(YamlValueAsString(v) \in c.pattern.matches) ELSE "error"
       [] c.is = "contains" -> YN(Holds(v, c.value))
       [] c.is = "not_contains" -> YN(~Holds(v, c.value))
       [] OTHER -> "panic"

\* The answer of the first of a sequence that is not the given one, or the given one
FirstOther(answers, usual) ==
  LET other == {i \in DOMAIN answers : answers[i] # usual}
  IN IF other = {} THEN usual ELSE answers[CHOOSE i \in other : \A j \in other : i <= j]

Size(v) == IF Is(v, "seq") THEN Len(v.seq) ELSE Len(v.map)
LooksLikeWeighted(v) ==
  Is(v, "map") /\ v.map # <<>> /\ \A i \in DOMAIN v.map : Is(v.map[i][2], "int")

CanRoll(v, i) == v.map[i][2].int # 0

\* Of weighted choices, the first that can be rolled and alerts
EvaluateCheck(v, c) ==
  IF c.is = "count" THEN (IF IsScalar(v) THEN "no" ELSE EvaluateCountCheck(Size(v), c.check))
  ELSE IF LooksLikeWeighted(v) /\ c.is \notin {"contains", "not_contains"}
  THEN FirstOther([i \in DOMAIN v.map |-> IF CanRoll(v, i) THEN CheckSingleValue(v.map[i][1], c) ELSE "no"], "no")
  ELSE CheckSingleValue(v, c)

-----------------------------------------------------------------------------

EvaluatePath(v, c) ==
  CASE c.is = "exists" -> YN(v # Unset)
    [] c.is = "not_exists" -> YN(v = Unset)
    [] OTHER -> IF v = Unset THEN YN(c.is = "not_contains") ELSE EvaluateCheck(v, c)

\* Whether `count' of the answers are yes, before one of them is an error
AtLeastYes(answers, count) ==
  LET enough == {i \in DOMAIN answers : Cardinality({j \in 1..i : answers[j] = "yes"}) >= count}
      errors == {i \in DOMAIN answers : answers[i] \notin {"yes", "no"}}
      first == CHOOSE i \in errors : \A j \in errors : i <= j
  IN IF errors = {} THEN YN(enough # {})
     ELSE IF \E i \in enough : i < first THEN "yes" ELSE answers[first]

\* Predicate::validate, of a check and of a predicate: whether a rule may be saved
ValidCheck(c) ==
  /\ c.is = "regex" => c.pattern.compiles # "no"
  /\ c.is = "count" => c.check.is \in {"equals", "not_equals", "greater_than", "less_than", "range"}

RECURSIVE EvaluatePredicate(_, _)
EvaluatePredicate(p, game) ==
  CASE p.is = "check" -> EvaluatePath(NavigatePath(game, p.path), p.check)
    [] p.is = "not" -> LET a == EvaluatePredicate(p.predicate, game)
                       IN IF a = "yes" THEN "no" ELSE IF a = "no" THEN "yes" ELSE a
    [] OTHER ->
         LET answers == [i \in DOMAIN p.predicates |-> EvaluatePredicate(p.predicates[i], game)]
         IN CASE p.is = "and" -> FirstOther(answers, "yes")
              [] p.is = "or" -> FirstOther(answers, "no")
              [] p.is = "at_least" -> AtLeastYes(answers, p.count)

RECURSIVE Validate(_)
Validate(p) ==
  CASE p.is = "check" -> p.path # <<>> /\ ValidCheck(p.check)
    [] p.is = "not" -> Validate(p.predicate)
    [] p.is \in {"and", "or"} -> \A i \in DOMAIN p.predicates : Validate(p.predicates[i])
    [] p.is = "at_least" -> /\ p.count > 0 /\ p.count <= Len(p.predicates)
                            /\ \A i \in DOMAIN p.predicates : Validate(p.predicates[i])

\* The outcome of a rule for one game of a YAML
EvaluateRule(rule, yaml, game) ==
  LET section == MappingGet(yaml, game)
      Outcome(a) == IF a = "yes" THEN "fail" ELSE IF a = "no" THEN "pass" ELSE a
      cond == IF rule.when = Unset THEN "yes" ELSE EvaluatePredicate(rule.when, section)
  IN IF rule.game # Unset /\ rule.game # game THEN "skipped"
     ELSE IF section = Unset THEN "not_present"
     ELSE IF cond = "no" THEN "skipped"
     ELSE IF cond # "yes" THEN cond
     ELSE Outcome(EvaluatePredicate(rule.then, section))

EvaluateRulesForYaml(rules, yaml, game) == [i \in DOMAIN rules |-> EvaluateRule(rules[i], yaml, game)]

-----------------------------------------------------------------------------
\* What the generator may make of an option: the reference for the checks
RECURSIVE Outcomes(_)
Outcomes(v) ==
  IF LooksLikeWeighted(v) THEN UNION {Outcomes(v.map[i][1]) : i \in {j \in DOMAIN v.map : v.map[j][2].int # 0}}
  ELSE LET r == ParseRandom(v)
       IN IF r = Unset THEN {v}
          ELSE IF r.bounds = Unset THEN {Num(i) : i \in -1..3}
          ELSE {Num(i) : i \in r.bounds[1]..r.bounds[2]}

Numeric(c) ==
  \/ c.is \in {"truthy", "not_truthy", "greater_than", "less_than", "range"}
  \/ c.is \in {"equals", "not_equals"} /\ ParseInt(c.value) \in -1..3

(* A check alerts exactly if some value the generator may roll satisfies   *)
(* it: weights of zero never alert, ranges alert on any of their numbers.  *)
AlertsIfItCanRoll(v, c) ==
  (Numeric(c) /\ ~Is(v, "seq")) =>
    (EvaluateCheck(v, c) = "yes" <=> \E o \in Outcomes(v) : CheckSingleValue(o, c) = "yes")

(* One of "contains" and "not contains" alerts, on weighted choices, lists,*)
(* ranges and missing options alike, and both only on a bare "random".     *)
ContainsOrNot(v, x) ==
  LET has == EvaluatePath(v, [is |-> "contains", value |-> x])
      not == EvaluatePath(v, [is |-> "not_contains", value |-> x])
      bare == v # Unset /\ ParseRandom(v) = [bounds |-> Unset]
  IN "yes" \in {has, not} /\ (has = not <=> bare)

Both(ps) == [is |-> "and", predicates |-> ps]
Either(ps) == [is |-> "or", predicates |-> ps]
Not(p) == [is |-> "not", predicate |-> p]
AtLeast(n, ps) == [is |-> "at_least", count |-> n, predicates |-> ps]

(* The combinations of predicates obey De Morgan's law even when one of    *)
(* them errs, and "at least" is a disjunction at 1 and, if nothing errs, a *)
(* conjunction at the number of its parts.                                 *)
CombinationsAgree(ps, game) ==
  LET E(p) == EvaluatePredicate(p, game)
      errs == \E i \in DOMAIN ps : E(ps[i]) = "error"
  IN /\ E(Not(Both(ps))) = E(Either([i \in DOMAIN ps |-> Not(ps[i])]))
     /\ E(AtLeast(1, ps)) = E(Either(ps))
     /\ ~errs => E(AtLeast(Len(ps), ps)) = E(Both(ps))

(* A rule that validate accepts never errs, but for a pattern that is too  *)
(* large to compile when it is used; and no rule reaches unreachable!().   *)
RECURSIVE TooLarge(_)
TooLarge(p) ==
  CASE p.is = "check" -> p.check.is = "regex" /\ p.check.pattern.compiles = "large"
    [] p.is = "not" -> TooLarge(p.predicate)
    [] OTHER -> \E i \in DOMAIN p.predicates : TooLarge(p.predicates[i])

ValidRulesAnswer(p, game) ==
  LET a == EvaluatePredicate(p, game)
  IN /\ a # "panic"
     /\ Validate(p) /\ ~TooLarge(p) => a # "error"
=============================================================================
