---------------------------- MODULE OptionForms ----------------------------
(* The options page of a world: which values of an uploaded YAML it takes   *)
(* over, what its controls then show, and the YAML it gives for download    *)
(* (lobby/src/views/options_gen.rs, OptionDef in jobs.rs,                   *)
(* templates/options.html). Values are JSON's: null, texts, integers, other *)
(* numbers, flags, lists and objects, from texts to values.                 *)
EXTENDS Integers, Sequences

CONSTANTS
  None,        \* Rust's None
  Numerals,    \* the integers of the texts that str::parse reads as one
  Jsons,       \* the values of the texts that are JSON
  Randoms      \* the texts that begin with "random"

Text(s) == [text |-> s]
Number(n) == [num |-> n]
Float(x) == [float |-> x]
Flag(b) == [flag |-> b]
List(s) == [list |-> s]
Object(f) == [obj |-> f]
Null == [null |-> TRUE]
Has(v, kind) == kind \in DOMAIN v

IsValue(v) ==
  \/ v = Null
  \/ Has(v, "float") /\ v = Float(v.float)
  \/ Has(v, "list") /\ v = List(v.list)
  \/ Has(v, "text") /\ v = Text(v.text) /\ v.text \in STRING
  \/ Has(v, "num") /\ v = Number(v.num) /\ v.num \in Int
  \/ Has(v, "flag") /\ v = Flag(v.flag) /\ v.flag \in BOOLEAN
  \/ Has(v, "obj") /\ v = Object(v.obj) /\ \A k \in DOMAIN v.obj : k \in STRING

\* What the standard library and serde_json make of texts
TextsRead ==
  /\ None \notin STRING /\ None \notin Int /\ Randoms \subseteq STRING
  /\ \A s \in DOMAIN Numerals : Numerals[s] \in Int
  /\ \A s \in DOMAIN Jsons : IsValue(Jsons[s])
  /\ "random" \in Randoms /\ Randoms \cap (DOMAIN Numerals \cup DOMAIN Jsons) = {}

ParseNumber(s) == IF s \in DOMAIN Numerals THEN Numerals[s] ELSE None

\* serde_json::from_str of a posted text: whatever is no JSON is the text itself.
FromJson(s) == IF s \in DOMAIN Jsons THEN Jsons[s] ELSE Text(s)

-----------------------------------------------------------------------------
\* OptionDef: [ty, default, range, choices, suggestions, keys], each of the last four maybe None,
\* but what the page of a type expects to be there.
IsDef(def) ==
  /\ IsValue(def.default) /\ (def.ty \in {"range", "named_range"} => ~Has(def.default, "float"))
  /\ def.range # None => def.range[1] \in Int /\ def.range[2] \in Int
  /\ def.ty \in {"range", "named_range"} => def.range # None
  /\ def.ty = "choice" => def.choices # None /\ def.choices \subseteq STRING
  /\ def.ty \in {"named_range", "text_choice"} => def.suggestions # None

HasValidKeys(def) == def.keys # None /\ def.keys # {}
HasComplexDefault(def) == Has(def.default, "list") \/ Has(def.default, "obj")
HasIntDictValues(def) ==
  Has(def.default, "obj") /\ \A k \in DOMAIN def.default.obj : Has(def.default.obj[k], "num")

\* OptionDef::is_editable
IsEditable(def) ==
  /\ def.ty # "unknown"
  /\ def.ty = "dict" => HasValidKeys(def) /\ HasIntDictValues(def)
  /\ def.ty \in {"set", "list", "counter"} => HasValidKeys(def)
  /\ ~(def.ty = "text" /\ HasComplexDefault(def))

WeightedTypes == {"bool", "choice", "named_range", "text_choice", "range", "text"}

\* What of an object counts: what has no weight that is a number, too.
NonZero(obj) == {k \in DOMAIN obj : ~(Has(obj[k], "num") /\ obj[k].num = 0)}

\* validate_numeric_value
ValidateNumericValue(n, def) ==
  def.ty \in {"range", "named_range"} /\ def.range # None => def.range[1] <= n /\ n <= def.range[2]

\* validate_single_value. The texts of a range are not looked at.
ValidateSingleValue(s, def) ==
  \/ s \in Randoms
  \/ CASE def.ty = "choice" -> def.choices = None \/ s \in def.choices
       [] def.ty = "text_choice" -> def.suggestions = None \/ s \in def.suggestions
       [] def.ty = "named_range" -> \/ def.suggestions # None /\ s \in def.suggestions
                                    \/ ParseNumber(s) # None /\ ValidateNumericValue(ParseNumber(s), def)
       [] OTHER -> TRUE

\* validate_option_value
ValidateOptionValue(v, def) ==
  CASE Has(v, "obj") -> \A k \in NonZero(v.obj) : ValidateSingleValue(k, def)
    [] Has(v, "text") -> ValidateSingleValue(v.text, def)
    [] Has(v, "num") -> ValidateNumericValue(v.num, def)
    [] Has(v, "list") -> HasValidKeys(def) => \A i \in DOMAIN v.list : Has(v.list[i], "text") => v.list[i].text \in def.keys
    [] OTHER -> TRUE

\* Weights that leave one choice are that choice.
Coalesced(v, def) ==
  IF Has(v, "obj") /\ def.ty \in WeightedTypes /\ \E k \in NonZero(v.obj) : NonZero(v.obj) = {k}
  THEN Text(CHOOSE k \in NonZero(v.obj) : TRUE) ELSE v

\* What edit_yaml does with one option of the YAML: [to, value].
Sorted(defs, name, v) ==
  LET def == defs[name]
      value == Coalesced(v, def)
  IN IF name \notin DOMAIN defs THEN [to |-> "warning"]
     ELSE IF Has(v, "obj") /\ def.ty \notin WeightedTypes \cup {"counter", "dict"} THEN [to |-> "warning"]
     ELSE IF IsEditable(def) /\ ~ValidateOptionValue(value, def) THEN [to |-> "outdated"]
     ELSE [to |-> "prefilled", value |-> value]

\* The game edit_yaml takes from the YAML, which has to name one.
EditedGame(yaml) == IF "game" \in DOMAIN yaml /\ Has(yaml["game"], "text") THEN yaml["game"].text ELSE None

\* The options that the YAML gives for its game
Given(yaml) ==
  LET game == EditedGame(yaml) IN IF game \in DOMAIN yaml /\ Has(yaml[game], "obj") THEN yaml[game].obj ELSE <<>>

\* The page that edit_yaml makes, unless it is an error.
EditYaml(defs, yaml) ==
  LET opts == Given(yaml)
      to(where) == {n \in DOMAIN opts : Sorted(defs, n, opts[n]).to = where}
  IN IF EditedGame(yaml) = None THEN [ok |-> FALSE]
     ELSE [ok |-> TRUE, prefilled |-> [n \in to("prefilled") |-> Sorted(defs, n, opts[n]).value],
           warnings |-> to("warning"), outdated |-> to("outdated"), names |-> DOMAIN opts,
           player |-> IF "name" \in DOMAIN yaml /\ Has(yaml["name"], "text") THEN yaml["name"] ELSE Null]

-----------------------------------------------------------------------------
\* The helpers of the template
IsNewOption(page, name) == name \notin page.names
IsWeighted(def, v) == def.ty \in WeightedTypes /\ Has(v, "obj")
PrefilledStr(v) == IF Has(v, "text") THEN v.text ELSE None
PrefilledNum(v) == IF Has(v, "num") THEN v.num ELSE IF Has(v, "text") THEN ParseNumber(v.text) ELSE None

PrefilledBool(v, default) ==
  IF Has(v, "flag") THEN v.flag
  ELSE IF PrefilledStr(v) \in {"true", "false"} THEN v.text = "true" ELSE default

PrefilledIsSuggestion(v, def) ==
  PrefilledStr(v) # None /\ def.suggestions # None /\ PrefilledStr(v) \in def.suggestions
DefaultIsSuggestion(def) ==
  PrefilledStr(def.default) # None /\ def.suggestions # None /\ PrefilledStr(def.default) \in def.suggestions

\* OptionDef::default_str
DefaultStr(def) == IF Has(def.default, "text") THEN def.default.text ELSE ""
\* A <select> shows the option that is selected, or else its first one (which one that is matters
\* to no property).
Selected(options, wanted) ==
  IF wanted \in options \/ options = {} THEN wanted ELSE CHOOSE c \in options : TRUE
\* A number input holds nothing but numbers; when it is empty parseInt gives NaN.
NumberBox(v) == IF Has(v, "num") THEN v ELSE Text("NaN")

\* The value that getRowValue reads off the control of an editable scalar option when the page
\* opens, by the macro option_input and resetToDefault: a prefilled value that the control cannot
\* hold gives way to the default, or to the first choice.
Shown(def, v) ==
  LET pstr == PrefilledStr(v)
      control ==
        CASE def.ty = "bool" -> Flag(PrefilledBool(v, DefaultStr(def) = "true"))
          [] def.ty = "range" -> IF PrefilledNum(v) # None THEN Number(PrefilledNum(v)) ELSE NumberBox(def.default)
          [] def.ty = "named_range" ->
               IF PrefilledIsSuggestion(v, def) THEN v
               ELSE IF pstr = None /\ DefaultIsSuggestion(def) THEN def.default
               ELSE IF PrefilledNum(v) # None THEN Number(PrefilledNum(v))
               ELSE IF DefaultIsSuggestion(def) THEN Number(def.range[1]) ELSE NumberBox(def.default)
          [] def.ty = "choice" -> Text(Selected(def.choices, IF pstr # None THEN pstr ELSE DefaultStr(def)))
          [] def.ty = "text_choice" -> Text(IF pstr # None THEN pstr ELSE DefaultStr(def))
          [] OTHER -> IF pstr # None THEN v ELSE def.default
  IN IF IsWeighted(def, v) THEN v ELSE control

(* Mistake: texts of all options are posted as they are. *)
PostedBare(def, v) == IF Has(v, "text") THEN FromJson(v.text) ELSE v

\* How the page posts a control's value and the lobby reads it: a text option as JSON, the others'
\* texts as they are.
Posted(def, v) == IF Has(v, "text") /\ def.ty # "text" THEN FromJson(v.text) ELSE v

\* download_yaml, of the values the page's controls hold: the options of the definitions, under
\* the game's name (write_yaml).
WriteYaml(game, player, options) ==
  [k \in {"game", "name", game} |->
    IF k = game THEN Object(options) ELSE Text(IF k = "game" THEN game ELSE player)]

PlayerName(player) == IF player = "" THEN "Player" ELSE player
DownloadYaml(defs, game, player, form) ==
  LET given == DOMAIN defs \cap DOMAIN form
  IN WriteYaml(game, PlayerName(player), [n \in given |-> Posted(defs[n], form[n])])

-----------------------------------------------------------------------------
\* The values an option may be rolled to, by its definition. The lobby does not judge a value of
\* a kind that the option never has, nor the texts of a range.
MayBe(def, v) ==
  LET inRange(n) == def.range # None => n \in def.range[1]..def.range[2]
  IN \/ Has(v, "text") /\ v.text \in Randoms
     \/ /\ Has(v, "list") /\ HasValidKeys(def) =>
             \A i \in DOMAIN v.list : Has(v.list[i], "text") => v.list[i].text \in def.keys
        /\ CASE def.ty = "choice" -> Has(v, "text") /\ def.choices # None => v.text \in def.choices
             [] def.ty = "text_choice" -> Has(v, "text") /\ def.suggestions # None => v.text \in def.suggestions
             [] def.ty = "range" -> Has(v, "num") => inRange(v.num)
             [] def.ty = "named_range" -> \/ PrefilledIsSuggestion(v, def)
                                          \/ PrefilledNum(v) # None /\ inRange(PrefilledNum(v))
                                          \/ ~Has(v, "text") /\ ~Has(v, "num")
             [] OTHER -> TRUE
Rolls(v) == IF Has(v, "obj") THEN {Text(k) : k \in NonZero(v.obj)} ELSE {v}

\* YAMLs that name a game and have options for it
IsYaml(yaml) ==
  /\ "game" \in DOMAIN yaml /\ Has(yaml["game"], "text") /\ yaml["game"].text \in DOMAIN yaml \cap STRING
  /\ Has(yaml[yaml["game"].text], "obj") /\ \A n \in DOMAIN Given(yaml) : IsValue(Given(yaml)[n])

\* What the control of a scalar option can hold: a value of the option, a text of one's own for a
\* text or a text choice, the random draw of its button, or weights for such values.
IsControl(def, v) ==
  /\ def.ty \in WeightedTypes /\ IsValue(v)
  /\ \/ Has(v, "obj") /\ (def.ty = "text_choice" \/ \A k \in DOMAIN v.obj : MayBe(def, Text(k)))
     \/ v = Text("random")
     \/ CASE def.ty = "bool" -> Has(v, "flag")
          [] def.ty = "range" -> Has(v, "num") /\ MayBe(def, v)
          [] def.ty = "named_range" -> PrefilledIsSuggestion(v, def) \/ (Has(v, "num") /\ MayBe(def, v))
          [] OTHER -> Has(v, "text") /\ (def.ty = "choice" => v.text \in def.choices)

\* Every option of the uploaded YAML is taken over, warned about or marked invalid, exactly one of
\* them; nothing that is taken over for an editable option could be rolled to a value that the
\* definition no longer has, and nothing is marked that could not.
OptionsAreSorted(defs, yaml) ==
  LET page == EditYaml(defs, yaml)
      given == Given(yaml)
  IN /\ DOMAIN page.prefilled \cup page.warnings \cup page.outdated = DOMAIN given
     /\ DOMAIN page.prefilled \cap (page.warnings \cup page.outdated) = {} /\ page.warnings \cap page.outdated = {}
     /\ \A n \in DOMAIN page.prefilled : IsEditable(defs[n]) =>
          \A v \in Rolls(page.prefilled[n]) : MayBe(defs[n], v)
     /\ \A n \in page.outdated : \E v \in Rolls(given[n]) : ~MayBe(defs[n], v)
     /\ \A n \in DOMAIN defs : IsNewOption(page, n) <=> n \notin DOMAIN given

\* A control of the page shows the value of the YAML it was made from, a text in a number or flag's
\* control as what it reads as and weights that leave one choice as that choice, unless the value is
\* of a kind the control has no way to show: a number or a flag for a choice or a text, a list for a
\* scalar, and a random draw for anything but a text; it shows a default or the first choice then.
Holds(def, v) ==
  CASE def.ty = "bool" -> Has(v, "flag") \/ PrefilledStr(v) \in {"true", "false"}
    [] def.ty = "range" -> PrefilledNum(v) # None
    [] def.ty = "named_range" -> PrefilledStr(v) # None /\ v.text \notin Randoms
    [] def.ty = "choice" -> PrefilledStr(v) # None /\ (v.text \in Randoms => v.text \in def.choices)
    [] OTHER -> Has(v, "text")
Reads(v, shown) ==
  \/ shown = v
  \/ PrefilledNum(v) # None /\ shown = Number(PrefilledNum(v))
  \/ PrefilledStr(v) \in {"true", "false"} /\ shown = Flag(v.text = "true")
PageShowsYaml(defs, name, v) ==
  LET def == defs[name]
      sorted == Sorted(defs, name, v)
  IN (sorted.to = "prefilled" /\ def.ty \in WeightedTypes) =>
       /\ (IsWeighted(def, sorted.value) \/ Holds(def, sorted.value)) => Reads(sorted.value, Shown(def, sorted.value))
       /\ Has(v, "obj") => Rolls(sorted.value) = Rolls(v)

\* The name of a choice that is JSON, such as a number, null or a quoted text: it is posted as that.
Reread(def, v) == def.ty # "text" /\ Has(v, "text") /\ FromJson(v.text) # v
\* A text of one's own, which edit_yaml takes for a choice that is gone
Custom(def, v) == def.ty = "text_choice" /\ \E r \in Rolls(v) : ~MayBe(def, r)

\* A YAML that the page gave is taken back whole by a page on the same definitions: no option is
\* warned about or new, none but a text of one's own or a name that is JSON is invalid, and each
\* control shows what it was given, weights that leave one choice as that choice, unless it is the
\* name of a choice that is JSON, or a random draw, or a number in a named range whose default is a
\* name, where the page selects that name.
DownloadsCanBeEdited(defs, game, player, form) ==
  LET yaml == DownloadYaml(defs, game, player, form)
      page == EditYaml(defs, yaml)
  IN /\ page.ok /\ page.player = Text(PlayerName(player))
     /\ page.warnings = {} /\ ~\E n \in DOMAIN form : IsNewOption(page, n)
     /\ \A n \in page.outdated : Custom(defs[n], form[n]) \/ Reread(defs[n], form[n])
     /\ \A n \in DOMAIN form \ page.outdated :
          \/ Shown(defs[n], page.prefilled[n]) = form[n]
          \/ Has(form[n], "obj") /\ \E k \in NonZero(form[n].obj) : NonZero(form[n].obj) = {k} /\ page.prefilled[n] = Text(k)
          \/ Reread(defs[n], form[n])
          \/ defs[n].ty = "named_range" /\ Has(form[n], "num") /\ DefaultIsSuggestion(defs[n])
          \/ form[n] = Text("random")
=============================================================================
