---------------------------- MODULE WorldReleases ---------------------------
(* What apwm makes of the releases of an index: the changes between two     *)
(* indexes with their checksums, and the retries of a download.             *)
EXTENDS WorldIndex

-----------------------------------------------------------------------------
\* WorldChanges::on_base
OnBase(added, removed, base) == [added_on |-> [v \in added |-> {base}], removed_from |-> [v \in removed |-> {base}]]

\* compute_changes: what changed between two views of one base, for each world that changed.
ComputeChanges(old, new) ==
  LET versions(view, n) == IF n \in DOMAIN view.worlds THEN DOMAIN view.worlds[n].versions ELSE {}
      changed == {n \in DOMAIN new.worlds \cup DOMAIN old.worlds : versions(new, n) # versions(old, n)}
  IN [n \in changed |-> OnBase(versions(new, n) \ versions(old, n), versions(old, n) \ versions(new, n), new.base)]

(* Mistake: the bases of one version replace those found before. *)
MergeReplacing(mine, other) ==
  LET both(f, g) == [v \in DOMAIN f \cup DOMAIN g |-> IF v \in DOMAIN g THEN g[v] ELSE f[v]]
  IN [added_on |-> both(mine.added_on, other.added_on), removed_from |-> both(mine.removed_from, other.removed_from)]

\* WorldChanges::merge
Merge(mine, other) ==
  LET of(f, v) == IF v \in DOMAIN f THEN f[v] ELSE {}
      both(f, g) == [v \in DOMAIN f \cup DOMAIN g |-> of(f, v) \cup of(g, v)]
  IN [added_on |-> both(mine.added_on, other.added_on), removed_from |-> both(mine.removed_from, other.removed_from)]

\* The changes of another base, of each world put in or merged with those found before.
WithBase(acc, c) ==
  [n \in DOMAIN acc \cup DOMAIN c |->
     IF n \notin DOMAIN acc THEN c[n] ELSE IF n \notin DOMAIN c THEN acc[n] ELSE Merge(acc[n], c[n])]

InOrder(bases) ==
  CHOOSE s \in [1..Cardinality(bases) -> bases] : \A i, j \in DOMAIN s : i < j => s[i] < s[j]

\* compute_changes_between: for every base of the new index in turn, declared by the old one or not.
ComputeChangesBetween(old, new) ==
  LET bases == InOrder(BasesOf(new))
      changes(b) == ComputeChanges(ViewForBase(old, b), ViewForBase(new, b))
      upTo[i \in 0..Len(bases)] == IF i = 0 THEN <<>> ELSE WithBase(upTo[i - 1], changes(bases[i]))
  IN [worlds |-> upTo[Len(bases)], added_bases |-> BasesOf(new) \ BasesOf(old)]

\* The worlds and versions that the downloads of a change go through.
AddedVersions(changes) == {p \in (DOMAIN changes.worlds) \X UNION {DOMAIN changes.worlds[n].added_on : n \in DOMAIN changes.worlds} :
                             p[2] \in DOMAIN changes.worlds[p[1]].added_on}

\* A world or a version that the changes name is missing from the index: the context errors.
Missing(changes, all) ==
  {p \in AddedVersions(changes) : p[1] \notin DOMAIN all.worlds \/ p[2] \notin DOMAIN all.worlds[p[1]].versions}

\* download_changed_apworlds and apply_checksums, of an index where nothing is missing: hashes are the contents.
DownloadChangedApworlds(changes, all, upstream) ==
  [p \in AddedVersions(changes) |-> IF all.worlds[p[1]].versions[p[2]] = "supported" THEN "supported" ELSE upstream[p]]

\* download_from_changes: the files written, an error when one does not have the checksum of the change.
DownloadFromChanges(changes, all, checksums, upstream) ==
  LET wanted == {p \in AddedVersions(changes) : checksums[p] # "supported" /\ all.worlds[p[1]].versions[p[2]] # "supported"}
  IN [ok |-> \A p \in wanted : upstream[p] = checksums[p], files |-> wanted]

-----------------------------------------------------------------------------
Retries == 3          \* DOWNLOAD_RETRIES
FirstDelay == 2       \* FIRST_RETRY_DELAY, in seconds
MaxDelay == 16        \* MAX_RETRY_DELAY

\* Answers enough for every try, in turn
IsAnswers(answers) == (\A i \in DOMAIN answers : i \in Nat \ {0}) /\ 1..(Retries + 1) \subseteq DOMAIN answers

\* retry_delay
RetryDelay(retry) == LET delay == FirstDelay * 2 ^ (IF retry = 0 THEN 0 ELSE retry - 1) IN IF delay < MaxDelay THEN delay ELSE MaxDelay

\* fetch_once: what one answer of the server comes to.
FetchOnce(answer) ==
  CASE answer = "ok" -> "ok"
    [] answer \in {"unreachable", "500", "short"} -> "transient"
    [] OTHER -> "permanent"

\* with_retries, over the answers the server would give: it stops at the first that is not transient, or
\* when the retries are spent.
WithRetries(answers, retries) ==
  LET outcome(i) == FetchOnce(answers[i])
      last == Min({i \in DOMAIN answers : outcome(i) # "transient" \/ i > retries})
  IN [attempts |-> last, outcome |-> outcome(last), waited |-> [i \in 1..last - 1 |-> RetryDelay(i)]]

-----------------------------------------------------------------------------
\* What a view has of every world.
VersionsSeen(index, b) == LET w == ViewForBase(index, b).worlds IN UNION {{n} \X DOMAIN w[n].versions : n \in DOMAIN w}

\* Changes name, for each version, exactly the bases that gained or lost it; every version that was added is found
\* in the index, and its checksum lets it be downloaded again until the server gives another file.
ChangesTell(changes, all, before, after, upstream1, upstream2) ==
  LET named(p, f) == IF p[1] \in DOMAIN changes.worlds /\ p[2] \in DOMAIN changes.worlds[p[1]][f] THEN changes.worlds[p[1]][f][p[2]] ELSE {}
      DownloadsAgain(sums) ==
        DownloadFromChanges(changes, all, sums, upstream2).ok
          = (\A p \in AddedVersions(changes) : sums[p] = "supported" \/ upstream2[p] = sums[p])
  IN /\ \A p \in UNION {before[b] \cup after[b] : b \in DOMAIN after} :
          /\ named(p, "added_on") = {b \in DOMAIN after : p \in after[b] \ before[b]}
          /\ named(p, "removed_from") = {b \in DOMAIN after : p \in before[b] \ after[b]}
     /\ \A n \in DOMAIN changes.worlds : DOMAIN changes.worlds[n].added_on \cup DOMAIN changes.worlds[n].removed_from # {}
     /\ Missing(changes, all) = {}
     /\ DownloadsAgain(DownloadChangedApworlds(changes, all, upstream1))

ChangesAreExact(old, new, upstream1, upstream2) ==
  (\A n \in DOMAIN old.worlds, b \in BasesOf(new) : OverrideFor(old.worlds[n], b).ok) =>
    ChangesTell(ComputeChangesBetween(old, new), AllReleases(new), [b \in BasesOf(new) |-> VersionsSeen(old, b)],
                [b \in BasesOf(new) |-> VersionsSeen(new, b)], upstream1, upstream2)

\* The releases that the refresh of every base goes through.
RefreshedReleases(index) ==
  LET all == AllReleases(index) IN
    {p \in (DOMAIN all.worlds) \X UNION {DOMAIN all.worlds[n].versions : n \in DOMAIN all.worlds} :
       p[2] \in DOMAIN all.worlds[p[1]].versions /\ all.worlds[p[1]].versions[p[2]] # "supported"}

\* The releases that a room on some base needs a file of.
NeededReleases(index) ==
  UNION {LET w == ViewForBase(index, b).worlds IN
           {p \in (DOMAIN w) \X UNION {DOMAIN w[n].versions : n \in DOMAIN w} :
              p[2] \in DOMAIN w[p[1]].versions /\ w[p[1]].versions[p[2]] # "supported"} : b \in BasesOf(index)}

\* The refresh of every base gets each release that some base needs a file of, unless the release has the number
\* of a base that ships the world.
RefreshGetsEveryRelease(index) ==
  \A p \in NeededReleases(index) : p \in RefreshedReleases(index) \/ p[2] \in BasesOf(index)

\* A download is tried at most once and Retries times more, waits 2, 4 and 8 seconds in between and so at most 14
\* in all, and ends well exactly if an answer was good before a refusal.
RetriesAreBounded(answers) ==
  LET result == WithRetries(answers, Retries)
      good == {i \in 1..(Retries + 1) : FetchOnce(answers[i]) = "ok"}
      refused == {i \in 1..(Retries + 1) : FetchOnce(answers[i]) = "permanent"}
  IN /\ result.attempts <= Retries + 1
     /\ (result.outcome = "ok") = (good # {} /\ \A i \in refused : i > Min(good))
     /\ Len(result.waited) = result.attempts - 1 /\ \A i \in DOMAIN result.waited : result.waited[i] = 2 ^ i
=============================================================================
