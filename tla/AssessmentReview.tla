-------------------------- MODULE AssessmentReview --------------------------
(***************************************************************************)
(* One assessment of a design: routers/assessment.py takes the approved    *)
(* brief of the problem from the catalogue, which may change at any time,  *)
(* and services/ai_assessor.py asks the language model for a review, sends *)
(* an answer that breaks its rules back once, and otherwise reports that   *)
(* no review is available.                                                 *)
(*                                                                         *)
(* The model's answer is anything in Answers; most of the module is the    *)
(* rules that it must pass.  Texts and prompts are left out.               *)
(*                                                                         *)
(* Faults: "abort", a failed read or an error of the provider; "slow", the *)
(* deadline of the assessment, or of the lookup, passes.                   *)
(***************************************************************************)
EXTENDS Servers, Integers, FiniteSets, FiniteSetsExt

CONSTANTS
  Criteria,      \* the dimensions of the rubric
  Weight,        \* their weights, as whole numbers
  Threshold,     \* MATERIAL_GAP_THRESHOLD: a lower score must be explained
  Briefs,        \* approved revisions of the problem's requirements
  Core,          \* requirements of each of them, in scope and
  Extension,     \* beyond it; those of None anchor an untyped brief
  Submitted,     \* elements of the design that a review may cite
  Answers,       \* answers of the language model
  MaxRevisions   \* bound: changes of the approved brief

ASSUME AssessmentAssumption ==
  /\ IsFiniteSet(Criteria) /\ Criteria # {}
  /\ Weight \in [Criteria -> Nat \ {0}] /\ Threshold \in 0..100
  /\ \A a \in Answers : a.whole => a.scores \in [Criteria -> 0..100]
  /\ None \notin Briefs
  /\ DOMAIN Core = Maybe(Briefs) /\ DOMAIN Extension = Maybe(Briefs)
  /\ MaxRevisions \in Nat

Verdicts == {"strong", "revise", "unclear", "unavailable"}

VARIABLES
  approved,      \* the revision in the catalogue
  revisions,     \* changes so far
  review,        \* the assessment being made
  given          \* what was answered, until the next one begins

reviewVars == <<approved, revisions, review, given>>

Waiting == [pc |-> "idle", named |-> None, custom |-> FALSE, sound |-> TRUE,
            brief |-> None, calls |-> 0]

ReviewTypeOK ==
  /\ approved \in Maybe(Briefs) /\ revisions \in Nat
  /\ review \in [pc : {"idle", "lookup", "ask", "fall"},
                 named : Maybe(Briefs),     \* the revision that the client names
                 custom : BOOLEAN,          \* a problem of the client's own
                 sound : BOOLEAN,           \* the integrity checks pass
                 brief : Maybe(Briefs),     \* the brief to assess by
                 calls : 0..2]
  /\ given.source \in {"none", "ai", "rules"}

-----------------------------------------------------------------------------
(* The rules of an answer *)

Half(n, d) == 2 * (n % d)

\* Python's round: to the nearest, and a half to the even one.
Rounded(n, d) ==
  LET q == n \div d IN
  IF Half(n, d) < d \/ (Half(n, d) = d /\ q % 2 = 0) THEN q ELSE q + 1

Total(f) == MapThenSumSet(LAMBDA c : f[c], Criteria)

Overall(scores) == Rounded(Total([c \in Criteria |-> scores[c] * Weight[c]]), Total(Weight))

SeverityFits(f) ==
  /\ f.kind = "strength" <=> f.severity = "positive"
  /\ f.kind = "extension" => f.severity = "improvement"
  /\ f.kind = "clarification" => f.severity # "critical"

VerdictFits(a) ==
  /\ a.verdict # "unavailable"
  /\ \A f \in a.findings : SeverityFits(f)
  /\ (\E f \in a.findings : f.severity = "critical") => a.verdict = "revise"
  /\ a.verdict = "strong" =>
       /\ Overall(a.scores) >= 50
       /\ \A f \in a.findings : f.kind \notin {"defect", "clarification"}

References(brief) == Core[brief] \cup Extension[brief]

\* An untyped brief needs no coverage, but a coverage of all of it if there is one.
CoverageComplete(a, brief) ==
  /\ \A x, y \in a.coverage : x.id = y.id => x = y
  /\ {x.id : x \in a.coverage} =
       IF brief = None /\ a.coverage = {} THEN {} ELSE References(brief)
  /\ \A x \in a.coverage :
       /\ x.evidence \subseteq Submitted
       /\ x.status \in {"supported", "partial"} => x.evidence # {}

CoreCoverage(a, brief) == {x \in a.coverage : x.id \in Core[brief]}

MissingCore(a, brief) == {x.id : x \in {y \in CoreCoverage(a, brief) : y.status = "missing"}}

DefectGrounded(f, a, brief) ==
  /\ f.criterion # None
  /\ f.evidence # {} \/ f.requirements \cap MissingCore(a, brief) # {}
  /\ f.requirements # {} => ~(f.requirements \subseteq Extension[brief])

\* Mutant: no requirement is needed.
GapGroundedAnyhow(f, brief) == f.evidence # {} /\ f.advice

GapGrounded(f, brief) ==
  /\ f.evidence # {} /\ f.requirements \cap Core[brief] # {}
  /\ f.advice

FindingGrounded(f, a, brief) ==
  /\ f.evidence \subseteq Submitted
  /\ f.requirements \subseteq References(brief)
  /\ f.criterion \in Maybe(Criteria)
  /\ f.kind = "defect" => DefectGrounded(f, a, brief)
  /\ f.kind = "strength" => f.evidence # {}
  /\ f.kind # "defect" => ~f.gap /\ f.criterion = None
  /\ f.gap => GapGrounded(f, brief)

DeductionsJustified(a) ==
  \A c \in Criteria :
    a.scores[c] < Threshold => \E f \in a.findings : f.gap /\ f.criterion = c

VerdictCovered(a, brief) ==
  /\ a.verdict = "strong" =>
       \A x \in CoreCoverage(a, brief) : x.status = "supported"
  /\ a.verdict = "unclear" =>
       \/ \E x \in CoreCoverage(a, brief) : x.status = "unclear"
       \/ \E f \in a.findings : f.kind = "clarification"
  /\ a.verdict = "revise" =>
       \/ \E x \in CoreCoverage(a, brief) : x.status \in {"partial", "missing"}
       \/ \E f \in a.findings : f.kind = "defect"

\* A whole answer is neither refused nor cut off, and has the shape that was asked for.
Accepted(a, brief) ==
  /\ a.whole
  /\ VerdictFits(a)
  /\ CoverageComplete(a, brief)
  /\ \A f \in a.findings : FindingGrounded(f, a, brief)
  /\ DeductionsJustified(a)
  /\ VerdictCovered(a, brief)

-----------------------------------------------------------------------------
(* One request *)

ReviewAt(pc) == review.pc = pc

Given(source, answer) ==
  [source |-> source, named |-> review.named, brief |-> review.brief, answer |-> answer]

Reviewed(result) ==
  /\ given' = result
  /\ review' = Waiting
  /\ UNCHANGED <<approved, revisions>>

NoReview == [source |-> "none"]

BeginReview ==
  /\ ReviewAt("idle")
  /\ \E named \in Maybe(Briefs), custom, sound \in BOOLEAN :
       review' = [Waiting EXCEPT !.pc = "lookup", !.named = named,
                                 !.custom = custom, !.sound = sound]
  /\ given' = NoReview
  /\ UNCHANGED <<approved, revisions>>

\* The answer of get_problem_by_id; a failed read looks like an unknown problem, whose
\* declared brief is kept.
Catalogued ==
  IF review.custom THEN {review.named}
  ELSE {approved} \cup (IF "abort" \in Faults THEN {review.named} ELSE {})

\* resolve_problem_context, and assess_design up to its first call.
LookUpBrief ==
  /\ ReviewAt("lookup")
  /\ \/ \E brief \in Catalogued :
          \/ /\ review.named \in {None, brief}
             /\ review' = [Waiting EXCEPT !.named = review.named, !.brief = brief,
                             !.pc = IF review.sound THEN "ask" ELSE "fall"]
             /\ UNCHANGED <<approved, revisions, given>>
          \/ /\ review.named \notin {None, brief}         \* 409
             /\ Reviewed(NoReview)
     \/ /\ "slow" \in Faults /\ ~review.custom            \* 503
        /\ Reviewed(NoReview)

\* _assessment_attempt: an answer that passes, the first that does not, or the second.
AskModel ==
  /\ ReviewAt("ask")
  /\ \E a \in Answers :
       \/ /\ Accepted(a, review.brief)
          /\ Reviewed(Given("ai", a))
       \/ /\ ~Accepted(a, review.brief)
          /\ review' = [review EXCEPT !.calls = @ + 1,
                          !.pc = IF review.calls = 0 THEN "ask" ELSE "fall"]
          /\ UNCHANGED <<approved, revisions, given>>

\* The provider fails, or the deadline passes before the answer comes.
FailModel ==
  /\ ReviewAt("ask")
  /\ {"abort", "slow"} \cap Faults # {}
  /\ review' = [review EXCEPT !.pc = "fall"]
  /\ UNCHANGED <<approved, revisions, given>>

\* _fallback_assessment: no grade; zeros and an unavailable verdict in their place.
Unavailable == Given("rules", None)

\* The fallback's structural checks only add observations, or are left out.
FallBack ==
  /\ ReviewAt("fall")
  /\ Reviewed(Unavailable)

ReviseBrief ==
  /\ revisions < MaxRevisions
  /\ revisions' = revisions + 1
  /\ approved' \in Briefs \ {approved}
  /\ UNCHANGED <<review, given>>

ReviewInit ==
  /\ approved \in Maybe(Briefs)
  /\ revisions = 0
  /\ review = Waiting
  /\ given = NoReview

Assess == BeginReview \/ LookUpBrief \/ AskModel \/ FailModel \/ FallBack

ReviewNext == Assess \/ ReviseBrief

ReviewSpec == ReviewInit /\ [][ReviewNext]_reviewVars

-----------------------------------------------------------------------------
(* Safety *)

\* A grade that is answered stands on the design and on the brief the client named,
\* whatever the model answers and whenever the catalogue changes: a strong verdict comes
\* with no score below the threshold, hence with an overall score that is not, and with
\* evidence for every requirement in scope; and an overall score below the threshold
\* comes with a defect that cites the design and a requirement in scope
\* (_transform_ai_response, resolve_problem_context).
GradesGrounded ==
  given.source = "ai" =>
    LET a == given.answer IN
    /\ given.named \in {None, given.brief}
    /\ a.verdict = "strong" =>
         /\ Overall(a.scores) >= Threshold
         /\ given.brief # None =>
              \A id \in Core[given.brief] : \E x \in a.coverage :
                x.id = id /\ x.status = "supported" /\ x.evidence \cap Submitted # {}
    /\ Overall(a.scores) < Threshold =>
         \E f \in a.findings :
           /\ f.kind = "defect" /\ f.evidence \cap Submitted # {}
           /\ f.requirements \cap Core[given.brief] # {}

\* GradesGrounded made inductive: while the model is asked, at most twice, the brief is the
\* one that the client named, if it named one.
ReviewConsistent ==
  /\ ReviewTypeOK
  /\ ReviewAt("ask") \/ ReviewAt("fall") => review.named \in {None, review.brief}
  /\ ReviewAt("ask") => review.calls < 2
  /\ GradesGrounded

=============================================================================
