----------------------------- MODULE Algorithms -----------------------------
(***************************************************************************)
(* The releases of the worlds, the bases they run on and the options pages *)
(* of their games, for any input: an index with a room's manifest and the  *)
(* games of its YAMLs, two indexes and what the servers give, the answers  *)
(* to a download, what the lobby's operator configured with the bases that *)
(* the index describes, option definitions with a YAML that is uploaded,   *)
(* or with what the page's controls hold.                                  *)
(***************************************************************************)
EXTENDS Naturals, Sequences

CONSTANTS
  None,                       \* Rust's None
  Numerals, Jsons, Randoms    \* how texts read: see OptionForms

ASSUME NoneIsNoVersion == None \notin Nat

VARIABLE inp

W == INSTANCE WorldReleases
B == INSTANCE BasesOnOffer
F == INSTANCE OptionForms

\* What the standard library and serde_json make of texts; None is neither a text nor a number.
ASSUME TextAssumption == F!TextsRead

\* The inputs that the code reads files, rows and settings as.
IsInput ==
  /\ inp.about = "index" =>
       W!IsIndexFile(inp.index) /\ W!IsManifest(inp.manifest) /\ inp.games \in Seq(Nat)
  /\ inp.about = "change" => W!IsIndexFile(inp.old) /\ W!IsIndexFile(inp.new)
  /\ inp.about = "answers" => W!IsAnswers(inp.answers)
  /\ inp.about = "bases" => B!IsConfig(inp.config) /\ B!IsIndex(inp.index)
  /\ inp.about \in {"options", "form"} => \A n \in DOMAIN inp.defs : F!IsDef(inp.defs[n])
  /\ inp.about = "options" => F!IsYaml(inp.yaml)
  /\ inp.about = "form" =>
       /\ inp.game \in STRING \ {"game", "name"}
       /\ DOMAIN inp.form \subseteq DOMAIN inp.defs
       /\ \A n \in DOMAIN inp.form : F!IsEditable(inp.defs[n]) /\ F!IsControl(inp.defs[n], inp.form[n])

-----------------------------------------------------------------------------
\* view_for_base, all_releases, lint, freeze, updated_with_index and base_switch: a base sees the
\* releases that run on it, the refresh of every base leaves out none that one needs, an index
\* without lint errors resolves everywhere, updating and freezing a manifest keep the releases of
\* its room, and the report of a move says what the move does; the default base is usable, and a
\* page's links lead back to its base.
ReleasesResolve ==
  /\ inp.about = "index" => W!LintedIndexResolves(inp.index)
  /\ inp.about = "index" /\ W!Loads(inp.index) =>
       /\ W!SeesWhatRuns(inp.index) /\ W!RefreshGetsEveryRelease(inp.index)
       /\ \A b, c \in W!BasesOf(inp.index) :
            /\ W!UpdateKeepsReleases(inp.manifest, W!ViewForBase(inp.index, b))
            /\ W!FreezeKeepsReleases(inp.manifest, W!ViewForBase(inp.index, b), W!ViewForBase(inp.index, c))
            /\ W!ReportTellsTheMove(inp.manifest, W!ViewForBase(inp.index, b), W!ViewForBase(inp.index, c), inp.games)
  /\ inp.about = "bases" => B!DefaultIsUsable(inp.config, inp.index) /\ B!QueriesLeadBack(inp.config, inp.index)

\* compute_changes_between and with_retries: changes are exact on every base and can be downloaded
\* again, and retries end.
ChangesExact ==
  /\ inp.about = "change" /\ W!Loads(inp.old) /\ W!Loads(inp.new) =>
       W!ChangesAreExact(inp.old, inp.new, inp.first, inp.later)
  /\ inp.about = "answers" => W!RetriesAreBounded(inp.answers)

\* The options page: every option of a YAML is taken over, warned about or invalid, the page shows
\* what the YAML had, and a YAML that was downloaded can be edited.
FormsRoundTrip ==
  /\ inp.about = "options" =>
       /\ F!OptionsAreSorted(inp.defs, inp.yaml)
       /\ \A n \in DOMAIN F!Given(inp.yaml) : F!PageShowsYaml(inp.defs, n, F!Given(inp.yaml)[n])
  /\ inp.about = "form" => F!DownloadsCanBeEdited(inp.defs, inp.game, inp.player, inp.form)
=============================================================================
