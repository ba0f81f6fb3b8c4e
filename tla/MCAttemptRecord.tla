-------------------------- MODULE MCAttemptRecord --------------------------
(***************************************************************************)
(* Small instances of AttemptRecord: two scored reviews made for two       *)
(* revisions, and one outage.                                              *)
(***************************************************************************)
EXTENDS AttemptRecord, TLC

CONSTANTS a, b, u, r1, r2, k

MCScore == [r \in Scored |-> IF r = a THEN 80 ELSE 90]

MCBrief == [r \in Scored |-> IF r = a THEN r1 ELSE r2]

Body(review, check, context, supplied) ==
  [review |-> review, check |-> check, context |-> context, supplied |-> supplied]

\* What clients send: a review with an autosaved context, a review for the newer brief,
\* and an outage together with the review that the client retained.
MCSaves == {Body(a, a, k, None), Body(b, b, None, r2), Body(a, u, None, r1)}

Symmetry == Permutations(Handlers)

=============================================================================
