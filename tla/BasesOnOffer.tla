---------------------------- MODULE BasesOnOffer ----------------------------
(* The Archipelago versions, called bases, that a lobby offers: what its   *)
(* operator enables and its index describes (BaseConfig and the queries of *)
(* IndexManager, lobby/src/index_manager.rs), and how a page names the one  *)
(* it is about (views/options_gen.rs, views/utils.rs).                      *)
(*                                                                          *)
(* Bases are numbers in the order of their versions; NoVersion is text that *)
(* reads as no version. An index has the legacy base and the set of bases   *)
(* it describes, and what each sees of a world: [legacy, rels].             *)
EXTENDS Integers, FiniteSets, Sequences, FiniteSetsExt, SequencesExt

CONSTANT None

NoVersion == 0
Refused == [ok |-> FALSE]

\* What BaseConfig::parse gives, and an index as it is loaded.
Numbered == Nat \ {NoVersion}
IsConfig(config) ==
  /\ config.enabled # None => IsFiniteSet(config.enabled) /\ \A b \in config.enabled : b \in Numbered
  /\ config.default # None => config.default \in Numbered
  /\ (config.enabled # None /\ config.default # None) => config.default \in config.enabled
IsIndex(index) ==
  /\ IsFiniteSet(DOMAIN index.rels) /\ (\A b \in DOMAIN index.rels : b \in Numbered)
  /\ index.legacy \in DOMAIN index.rels

\* BaseConfig::parse, of the texts' words: None or <<>> is no value.
Parse(apBases, apDefault) ==
  LET enabled == IF apBases \in {None, <<>>} THEN None ELSE ToSet(apBases)
      default == IF apDefault \in {None, <<>>} THEN None ELSE apDefault[1]
  IN IF \/ enabled # None /\ NoVersion \in enabled
        \/ default = NoVersion
        \/ enabled # None /\ default # None /\ default \notin enabled
     THEN Refused
     ELSE [ok |-> TRUE, enabled |-> enabled, default |-> default]

\* IndexSet::get finds the bases that the index describes, the legacy one among them.
Described(index) == DOMAIN index.rels

NewestFirst(bases) ==
  CHOOSE s \in [1..Cardinality(bases) -> bases] : \A i, j \in DOMAIN s : i < j => s[i] > s[j]

\* BaseConfig::offered
Offered(config, index) ==
  NewestFirst(IF config.enabled = None THEN {index.legacy} ELSE config.enabled \cap Described(index))

\* BaseConfig::default_base
DefaultBase(config, index) ==
  LET offered == Offered(config, index)
  IN IF config.default # None /\ Contains(offered, config.default) THEN config.default
     ELSE IF offered = <<>> THEN index.legacy ELSE offered[1]

\* BaseConfig::check: whether a lobby starts with this index.
Check(config, index) ==
  config.enabled = None /\ config.default # None => config.default = index.legacy

\* IndexManager::offers
Offers(config, index, base) == Contains(Offered(config, index), base)

\* IndexManager::base_or_default
BaseOrDefault(config, index, wanted) ==
  IF wanted # None /\ Offers(config, index, wanted) THEN wanted ELSE DefaultBase(config, index)

\* IndexManager::default_index: the base whose view it gives.
DefaultIndex(config, index) ==
  LET default == DefaultBase(config, index)
  IN IF default \in Described(index) THEN default ELSE index.legacy

-----------------------------------------------------------------------------
\* requested_base, of the query of a URL: None or the version it names. NoVersion: an error.
RequestedBase(config, index, query) ==
  IF query = None THEN DefaultBase(config, index)
  ELSE IF query = NoVersion \/ ~Offers(config, index, query) THEN NoVersion
  ELSE query

\* base_query
BaseQuery(config, index, base) == IF base = DefaultBase(config, index) THEN None ELSE base

\* base_options: an entry for each base on offer, and for the selected one that no longer is.
BaseOptions(offered, selected) ==
  [i \in DOMAIN offered |-> [value |-> offered[i], selected |-> offered[i] = selected, gone |-> FALSE]]
    \o IF selected # None /\ ~Contains(offered, selected)
       THEN <<[value |-> selected, selected |-> TRUE, gone |-> TRUE]>> ELSE <<>>

\* selectable_bases
SelectableBases(config, index, base) ==
  LET offered == Offered(config, index)
  IN IF Len(offered) < 2 THEN <<>> ELSE BaseOptions(offered, base)

-----------------------------------------------------------------------------
\* Whatever a lobby that started is configured with and however its index changes: the default
\* base is one the index describes, it is on offer when anything is, the operator's own choice
\* is it from the moment the index describes it, and a preference never gives a base that is
\* neither on offer nor the default.
DefaultIsUsable(config, index) ==
  LET default == DefaultBase(config, index)
      offered == ToSet(Offered(config, index))
  IN /\ default \in Described(index) /\ DefaultIndex(config, index) = default
     /\ offered # {} => default \in offered
     /\ offered \subseteq Described(index)
     /\ (config.enabled # None /\ config.default # None /\ config.default \in Described(index)) => default = config.default
     /\ \A w \in Described(index) \cup {None} :
          BaseOrDefault(config, index, w) \in (offered \cap {w}) \cup {default}

\* The query a page's links end in leads back to the page's base, for every base a page may be
\* about; the selector marks that base and no other, and each of its entries but one that is
\* said to be gone can be asked for.
QueriesLeadBack(config, index) ==
  \A base \in ToSet(Offered(config, index)) \cup {DefaultBase(config, index)} :
    LET entries == SelectableBases(config, index, base)
        selected == {i \in DOMAIN entries : entries[i].selected}
    IN /\ RequestedBase(config, index, BaseQuery(config, index, base)) = base
       /\ entries # <<>> => Cardinality(selected) = 1
       /\ \A i \in selected : entries[i].value = base
       /\ \A i \in DOMAIN entries :
            ~entries[i].gone => RequestedBase(config, index, entries[i].value) = entries[i].value
=============================================================================
