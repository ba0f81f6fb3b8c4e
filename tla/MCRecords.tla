----------------------------- MODULE MCRecords ------------------------------
(***************************************************************************)
(* Small instances of publishing a design, of the requirements migration   *)
(* and its drafts, of the backfill of the indexes and of the list of       *)
(* designs.  They share no state: each behaviour exercises one of them and *)
(* the others rest.                                                        *)
(***************************************************************************)
EXTENDS DiagramPublishing, RequirementsMigration, RequirementDrafts, QueryBackfill,
        DiagramLists, TLC

CONSTANTS p1, p2

VARIABLE part

\* Titles that differ in case give one slug, a title without letters gives none.
SlugOfTitle == [title \in {"a", "A", "-"} |-> IF title = "-" THEN None ELSE "a"]

Init ==
  /\ part \in {"publishing", "migration", "drafts", "backfill", "lists"}
  /\ PublishingInit /\ MigrationInit /\ DraftsInit
  /\ part # "publishing" => source = NoItem
  /\ part # "migration" => \A i \in Records : item[i] = Original
  /\ part # "drafts" =>
       Mentioned(record) = Qualities /\ Len(SourceRows(record)) = 1
  /\ problem \in [Problems -> ProblemRow]
  /\ problem[p1] = [title |-> "a", slug |-> None]
  /\ part # "backfill" => problem[p2] = problem[p1]
  /\ resource \in [{"shares", "slug", "leaderboard"} -> {"none", "active", "other"}]
  /\ resource["slug"] = "none" /\ resource["shares"] # "other"
  /\ part # "backfill" => resource["shares"] = "none" /\ resource["leaderboard"] = "none"
  /\ attempt = [a \in Attempts |-> [public |-> TRUE, score |-> 90, at |-> 0, listed |-> None]]
  /\ design = [d \in Designs |-> [u \in People |-> "edit"]]
  /\ BackfillInit
  /\ granted \in {{}, Shared}
  /\ ListInit
  /\ part # "lists" => granted = {} /\ \A k \in Owned : kept[k] = "none"

Next ==
  \/ part = "publishing" /\ PublishingNext
       /\ UNCHANGED <<migrationVars, draftVars, backfillVars, listVars, part>>
  \/ part = "migration" /\ MigrationNext
       /\ UNCHANGED <<publishingVars, draftVars, backfillVars, listVars, part>>
  \/ part = "drafts" /\ DraftsNext
       /\ UNCHANGED <<publishingVars, migrationVars, backfillVars, listVars, part>>
  \/ part = "backfill" /\ BackfillNext
       /\ UNCHANGED <<publishingVars, migrationVars, draftVars, listVars, part>>
  \/ part = "lists" /\ ListNext
       /\ UNCHANGED <<publishingVars, migrationVars, draftVars, backfillVars, part>>

Spec ==
  Init /\ [][Next]_<<publishingVars, migrationVars, draftVars, backfillVars, listVars, part>>

Symmetry ==
  Permutations(Handlers) \cup Permutations(Snaps) \cup Permutations(Contents)

=============================================================================
