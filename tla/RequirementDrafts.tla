------------------------- MODULE RequirementDrafts -------------------------
(***************************************************************************)
(* From the sentences of one problem to its requirement specification      *)
(* (scripts/requirements_migration.py): a draft is derived from a snapshot *)
(* of the record, a reviewer changes it, a valid one is approved under a   *)
(* digest of it, and what is applied becomes the prior specification of    *)
(* the next draft.  Catalogue editors change the sentences in between.     *)
(*                                                                         *)
(* Categories, assumptions, revisions and the release gates are left out:  *)
(* the code only compares them with what the manifest or the reviewer      *)
(* states.  Applying is one step here; RequirementsMigration has its steps. *)
(***************************************************************************)
EXTENDS Naturals, Sequences, FiniteSets

CONSTANTS
  Texts,         \* sentences
  Qualities,     \* those the heuristic takes for quality requirements
  NoScope,       \* of a sentence without an explicit scope
  MaxRows,       \* bound: sentences in each array of a record
  MaxChanges     \* bound: drafts, editors' changes and changes to an approved file

Scopes == {"core", "extension"}

Buckets == {"functional", "nonFunctional"}

VARIABLES
  record,        \* the problem: its two arrays and its specification
  manifest,      \* the manifest's only change, and what was approved
  stage,         \* what there is of it: "none", "drafted" or "reviewed"
  changes        \* how many changes there have been

draftVars == <<record, manifest, stage, changes>>

\* source_rows: every sentence with the place and the scope it has.
Row == [array : {"requirements", "constraints"}, index : Nat, text : Texts,
        scope : Scopes \cup {NoScope}]

RowsOf(array, sentences) ==
  [n \in 1..Len(sentences) |-> [array |-> array, index |-> n, text |-> sentences[n].text,
                                scope |-> sentences[n].scope]]

SourceRows(r) == RowsOf("requirements", r.requirements) \o RowsOf("constraints", r.constraints)

\* A new identifier is a digest of the row, prior ones are digests of earlier rows.
Requirement == [id : Row, text : Texts, scope : Scopes]

Specification == [Buckets -> Seq(Requirement)]

NoEntries == [b \in Buckets |-> << >>]

Elements(s) == {s[n] : n \in DOMAIN s}

SpecEntries(spec) == UNION {Elements(spec[b]) : b \in Buckets}

Decision == [source : Row, id : Row, class : Buckets \cup {"constraint"}, scope : Scopes,
             reviewed : BOOLEAN]

NoChange == [original |-> [requirements |-> << >>, constraints |-> << >>, spec |-> NoEntries],
             provenance |-> << >>, spec |-> NoEntries, approved |-> << >>]

Sentences == Seq([text : Texts, scope : Scopes \cup {NoScope}])

Problem == [requirements : Sentences, constraints : Sentences, spec : Specification]

DraftsTypeOK ==
  /\ record \in Problem
  /\ manifest \in [original : Problem, provenance : Seq(Decision), spec : Specification,
                   approved : {<< >>} \cup (Problem \X Seq(Decision) \X Specification)]
  /\ stage \in {"none", "drafted", "reviewed"}
  /\ changes \in Nat

-----------------------------------------------------------------------------
(* make_draft *)

\* Of several prior entries with one sentence the last one counts.
PriorBucket(spec, text) ==
  IF \E e \in Elements(spec["nonFunctional"]) : e.text = text THEN "nonFunctional" ELSE "functional"

PriorEntry(spec, text) ==
  LET s == spec[PriorBucket(spec, text)]
      at == {n \in DOMAIN s : s[n].text = text}
  IN  s[CHOOSE n \in at : \A m \in at : m <= n]

HasPrior(spec, text) == \E e \in SpecEntries(spec) : e.text = text

Heuristic(row) ==
  IF row.array = "constraints" THEN "constraint"
  ELSE IF row.text \in Qualities THEN "nonFunctional" ELSE "functional"

\* Mutant: the identifier is always that of the row.
SuggestAnew(spec, row) ==
  [source |-> row, id |-> row,
   class |-> IF HasPrior(spec, row.text) THEN PriorBucket(spec, row.text) ELSE Heuristic(row),
   scope |-> IF row.scope # NoScope THEN row.scope
             ELSE IF HasPrior(spec, row.text) THEN PriorEntry(spec, row.text).scope ELSE "core",
   reviewed |-> FALSE]

Suggest(spec, row) ==
  LET prior == PriorEntry(spec, row.text) IN
  IF HasPrior(spec, row.text)
  THEN [source |-> row, id |-> prior.id, class |-> PriorBucket(spec, row.text),
        scope |-> IF row.scope # NoScope THEN row.scope ELSE prior.scope, reviewed |-> FALSE]
  ELSE [source |-> row, id |-> row, class |-> Heuristic(row),
        scope |-> IF row.scope # NoScope THEN row.scope ELSE "core", reviewed |-> FALSE]

Classed(provenance, bucket) == {n \in DOMAIN provenance : provenance[n].class = bucket}

\* The n-th of some positions.
Nth(S, n) == CHOOSE k \in S : Cardinality({j \in S : j <= k}) = n

\* _project_provenance: the specification that the decisions describe, in their order.
Projected(provenance) ==
  [b \in Buckets |->
     LET chosen == Classed(provenance, b)
     IN  [n \in 1..Cardinality(chosen) |->
            LET d == provenance[Nth(chosen, n)]
            IN  [id |-> d.id, text |-> d.source.text, scope |-> d.scope]]]

Drafted(r) ==
  LET rows == SourceRows(r)
      provenance == [n \in DOMAIN rows |-> Suggest(r.spec, rows[n])]
  IN  [original |-> r, provenance |-> provenance, spec |-> Projected(provenance),
       approved |-> << >>]

-----------------------------------------------------------------------------
(* validation_errors *)

\* validate_spec: as far as the identifiers go.
IdsDistinct(spec) ==
  \A b, c \in Buckets : \A m \in DOMAIN spec[b], n \in DOMAIN spec[c] :
    spec[b][m].id = spec[c][n].id => <<b, m>> = <<c, n>>

\* Mutant: a sentence may get another identifier.
SourceKeptLoosely(m, d) == d.source.scope \in {NoScope, d.scope}

\* _validate_provenance_source
SourceKept(m, d) ==
  /\ d.source.scope \in {NoScope, d.scope}
  /\ HasPrior(m.original.spec, d.source.text) =>
       LET prior == PriorEntry(m.original.spec, d.source.text)
       IN  d.id = prior.id /\ d.scope = prior.scope

\* _validated_classification
ClassAllowed(d) == d.class = "constraint" => d.source.array = "constraints"

Ids(spec) == {e.id : e \in SpecEntries(spec)}

\* _validate_change without the review
Valid(m) ==
  /\ IdsDistinct(m.spec)
  /\ \A n \in DOMAIN m.provenance :
       SourceKept(m, m.provenance[n]) /\ ClassAllowed(m.provenance[n])
  /\ m.spec = Projected(m.provenance)
  /\ Ids(m.original.spec) \subseteq Ids(m.spec)

Publishable(m) == Valid(m) /\ \A n \in DOMAIN m.provenance : m.provenance[n].reviewed

\* approval_digest: of the manifest without its approval.
Sealed(m) == <<m.original, m.provenance, m.spec>>

\* Mutant: any approval will do.
ApprovedOnce(m) == Publishable(m) /\ m.approved # << >>

\* require_approval
Approved(m) == Publishable(m) /\ m.approved = Sealed(m)

-----------------------------------------------------------------------------
(* Actions *)

Change == changes < MaxChanges /\ changes' = changes + 1

\* The admin's editor: a sentence is added, removed, or given another scope.
EditSentences(edited) ==
  /\ Change
  /\ edited # record
  /\ record' = edited
  /\ UNCHANGED <<manifest, stage>>

\* export_snapshot and make_draft
MakeDraft ==
  /\ Change
  /\ manifest' = Drafted(record)
  /\ stage' = "drafted"
  /\ UNCHANGED record

\* The rows are marked, one of them is decided anew, and the specification may be forgotten.
Decide(n, d, matched) ==
  LET marked == [k \in DOMAIN manifest.provenance |->
                   [IF k = n THEN d ELSE manifest.provenance[k] EXCEPT !.reviewed = TRUE]]
  IN  /\ manifest' = [manifest EXCEPT !.provenance = marked,
                                      !.spec = IF matched THEN Projected(marked) ELSE @]
      /\ UNCHANGED record

\* Bound: one review of a draft.
Review(n, d, matched) ==
  /\ stage = "drafted"
  /\ Decide(n, d, matched)
  /\ stage' = "reviewed"
  /\ UNCHANGED changes

\* The file is edited once more after it was approved.
EditApproved(n, d, matched) ==
  /\ stage = "reviewed" /\ manifest.approved # << >>
  /\ Change
  /\ Decide(n, d, matched)
  /\ UNCHANGED stage

\* validate --approve-by
Approve ==
  /\ stage # "none" /\ manifest.approved = << >>
  /\ Publishable(manifest)
  /\ manifest' = [manifest EXCEPT !.approved = Sealed(manifest)]
  /\ UNCHANGED <<record, stage, changes>>

\* apply_manifest, of a record that is as it was.
ApplyApproved ==
  /\ stage # "none"
  /\ Approved(manifest)
  /\ record = manifest.original
  /\ record' = [record EXCEPT !.spec = manifest.spec]
  /\ manifest' = NoChange
  /\ stage' = "none"
  /\ UNCHANGED changes

\* A sentence of an editor's array.
Sentence == [text : Texts, scope : {NoScope, "extension"}]

Without(rows, n) == SubSeq(rows, 1, n - 1) \o SubSeq(rows, n + 1, Len(rows))

Rescoped(rows, n, s) == [rows EXCEPT ![n].scope = s]

Edits(rows) ==
  {Append(rows, s) : s \in IF Len(rows) < MaxRows THEN Sentence ELSE {}}
  \cup {Without(rows, n) : n \in DOMAIN rows}
  \cup {Rescoped(rows, n, s) : n \in DOMAIN rows, s \in {NoScope, "extension"}}

\* What a reviewer may make of a row, bound: one field of it, or nothing.  The source part
\* is refused whenever it differs.
Choices(n) ==
  LET ids == {d.id : d \in Elements(manifest.provenance)} \cup Ids(manifest.original.spec)
      row == manifest.provenance[n]
  IN  {[row EXCEPT !.id = i] : i \in ids}
      \cup {[row EXCEPT !.class = c] : c \in Buckets \cup {"constraint"}}
      \cup {[row EXCEPT !.scope = s] : s \in Scopes}

\* Explicit scopes come with an edit.
Plain == [text : Texts, scope : {NoScope}]

DraftsInit ==
  /\ record \in [requirements : {<<s>> : s \in Plain} \cup {<<s, t>> : s, t \in Plain},
                 constraints : {<< >>} \cup {<<s>> : s \in Plain}, spec : {NoEntries}]
  /\ manifest = NoChange
  /\ stage = "none"
  /\ changes = 0

\* Nobody works on a manifest.
DraftsRest == changes = MaxChanges /\ UNCHANGED draftVars

DraftsNext ==
  \/ \E rows \in Edits(record.requirements) :
       EditSentences([record EXCEPT !.requirements = rows])
  \/ \E rows \in Edits(record.constraints) :
       EditSentences([record EXCEPT !.constraints = rows])
  \/ MakeDraft
  \/ \E n \in DOMAIN manifest.provenance, matched \in BOOLEAN :
       \E d \in Choices(n) : Review(n, d, matched) \/ EditApproved(n, d, matched)
  \/ Approve
  \/ ApplyApproved
  \/ DraftsRest

DraftsSpec == DraftsInit /\ [][DraftsNext]_draftVars

-----------------------------------------------------------------------------
(* Properties *)

Mentioned(r) == {row.text : row \in Elements(SourceRows(r))}

Repeated(r) ==
  LET rows == SourceRows(r) IN \E m, n \in DOMAIN rows : m # n /\ rows[m].text = rows[n].text

\* A draft nobody has touched is refused only for what a person has to settle: a sentence
\* that the record has, or had, twice, a specified sentence that is gone, an explicit scope
\* other than the specified one, or an identifier that a reviewer moved to another sentence.
RefusalsExplained ==
  stage = "drafted" /\ ~Valid(manifest) =>
    LET r == manifest.original IN
    \/ Repeated(r)
    \/ Cardinality(SpecEntries(r.spec)) # Cardinality({e.text : e \in SpecEntries(r.spec)})
    \/ \E e \in SpecEntries(r.spec) : e.text \notin Mentioned(r) \/ e.id.text # e.text
    \/ \E row \in Elements(SourceRows(r)) :
         /\ HasPrior(r.spec, row.text)
         /\ row.scope \notin {NoScope, PriorEntry(r.spec, row.text).scope}

\* Whatever the reviewer decides and edits after the approval: an applied specification
\* has every requirement sentence of the record, every identifier it had before, and no
\* sentence it had before under another identifier or scope; and it is what was approved.
SpecificationGrows ==
  [][record'.spec # record.spec =>
       LET new == SpecEntries(record'.spec) IN
       /\ manifest.approved = Sealed(manifest) /\ record' = [record EXCEPT !.spec = manifest.spec]
       /\ \A n \in DOMAIN record.requirements : \E e \in new : e.text = record.requirements[n].text
       /\ Ids(record.spec) \subseteq Ids(record'.spec)
       /\ \A e \in new : HasPrior(record.spec, e.text) =>
            LET prior == PriorEntry(record.spec, e.text) IN e.id = prior.id /\ e.scope = prior.scope
    ]_draftVars

\* What both properties rest on: the manifest decides about the sentences of its snapshot, in
\* their order, whatever a reviewer does; and one that nobody has reviewed is as it was made.
DraftsSound ==
  /\ DraftsTypeOK
  /\ stage # "none" =>
       LET rows == SourceRows(manifest.original) IN
       /\ DOMAIN manifest.provenance = DOMAIN rows
       /\ \A n \in DOMAIN rows : manifest.provenance[n].source = rows[n]
  /\ stage = "drafted" =>
       LET draft == Drafted(manifest.original) IN
       manifest.provenance = draft.provenance /\ manifest.spec = draft.spec

=============================================================================
