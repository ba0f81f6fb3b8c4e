--------------------------- MODULE AttemptReviews ---------------------------
(***************************************************************************)
(* A practice attempt as one item of the attempts table, and what a save   *)
(* makes of it: how the reviews sent along are merged into those stored,   *)
(* what goes to the history and what may be shown on the leaderboard.      *)
(* Operators only: AttemptStore and AttemptRecord are built from them.     *)
(*                                                                         *)
(* A review is what _normalize_attempt_assessment makes of a client's      *)
(* assessment: scored (a finished AI review) or unscored (an outage, a     *)
(* rule-based check).  Stored reviews are normalized ones.                 *)
(***************************************************************************)
EXTENDS Integers, Sequences

CONSTANTS
  Scored,        \* reviews with scoreAvailable
  Unscored,      \* reviews and checks without
  Score,         \* the score of each scored review
  Brief,         \* the requirementRevision it was made for, if it names one
  Revisions,     \* revisions of the problem's requirement specification
  Contexts,      \* reasoning contexts and interview sessions
  HistoryLimit,  \* 10: how many history entries an attempt keeps
  None           \* no value

Reviews == Scored \cup Unscored

Maybe(S) == S \cup {None}

ASSUME ReviewAssumption ==
  /\ Scored \cap Unscored = {}
  /\ None \notin Reviews /\ None \notin Revisions /\ None \notin Contexts
  /\ None \notin Nat
  /\ Score \in [Scored -> Nat]
  /\ Brief \in [Scored -> Maybe(Revisions)]
  /\ HistoryLimit \in Nat \ {0}

-----------------------------------------------------------------------------

Attempt == [status : {"none", "ghost", "stored"},  \* ghost: lacks required fields
            review : Maybe(Scored),                \* lastAssessment
            check : Maybe(Reviews),                \* lastAssessmentCheck
            count : Nat,                           \* assessmentCount
            history : Seq(Reviews),                \* assessmentHistory
            context : Maybe(Contexts),
            spec : Maybe(Revisions),               \* problemRequirementSpec
            public : BOOLEAN,                      \* isPublic
            score : Maybe(Nat),                    \* leaderboardScore, if listed
            views : Nat]                           \* viewCount

NoAttempt == [status |-> "none", review |-> None, check |-> None, count |-> 0,
              history |-> <<>>, context |-> None, spec |-> None,
              public |-> FALSE, score |-> None, views |-> 0]

\* The body of a save; supplied is the revision the client believes is current.
SaveRequest == [review : Maybe(Reviews), check : Maybe(Reviews),
                context : Maybe(Contexts), supplied : Maybe(Revisions)]

\* Mutant: a scored review replaces the last one without being counted.
OfferNotCounted(m, r, original) ==
  IF r \in Scored
  THEN [m EXCEPT !.review = r, !.check = r]
  ELSE IF r = None THEN m ELSE [m EXCEPT !.check = r, !.added = Append(@, r)]

\* One turn of _merge_attempt_reviews: m holds the last review, the last check, the
\* count and the reviews that are new; original is the check stored before.
Offer(m, r, original) ==
  CASE r = None -> m
    [] r \in Scored /\ r # m.review ->
         [review |-> r, check |-> r, count |-> m.count + 1,
          added |-> Append(m.added, r)]
    [] r \in Scored /\ r = m.review ->
         [m EXCEPT !.check = IF m.check = None THEN r ELSE m.check]
    [] OTHER ->
         [m EXCEPT !.check = r,
                   !.added = IF r = original \/ \E i \in DOMAIN m.added : m.added[i] = r
                             THEN m.added ELSE Append(m.added, r)]

Merged(a, q) ==
  LET before == [review |-> a.review, check |-> a.check, count |-> a.count,
                 added |-> <<>>]
  IN  Offer(Offer(before, q.review, a.check), q.check, a.check)

\* The last HistoryLimit entries.
Recent(history) ==
  IF Len(history) <= HistoryLimit THEN history
  ELSE SubSeq(history, Len(history) - HistoryLimit + 1, Len(history))

\* _qualifying_attempt_assessment: a scored review that no later outage outdates.
Qualifies(a) == a.review \in Scored /\ a.check \notin Unscored

Listed(public, m) == IF public /\ Qualifies(m) THEN Score[m.review] ELSE None

\* The item after a save of q that pins the specification pin: computed from the
\* attempt read before, but for the attributes that a save does not name.
SavedOver(item, read, q, pin) ==
  LET m == Merged(read, q)
  IN  [status |-> "stored", review |-> m.review, check |-> m.check,
       count |-> m.count, history |-> Recent(read.history \o m.added),
       context |-> IF q.context = None THEN read.context ELSE q.context,
       spec |-> pin, public |-> item.public, score |-> Listed(read.public, m),
       views |-> item.views]

Published(a) == [a EXCEPT !.public = TRUE, !.score = Score[a.review]]

\* Unpublishing needs no attempt to exist: it then creates the item.
Unpublished(a) ==
  [a EXCEPT !.status = IF a.status = "none" THEN "ghost" ELSE a.status,
            !.public = FALSE, !.score = None]

Viewed(a) == [a EXCEPT !.views = a.views + 1]

=============================================================================
