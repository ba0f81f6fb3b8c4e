---------------------------- MODULE AttemptStore ----------------------------
(***************************************************************************)
(* What the attempts table promises a learner: saves, publications, views  *)
(* and deletions of an attempt happen one at a time, each on the attempt   *)
(* as the one before left it.                                              *)
(***************************************************************************)
EXTENDS AttemptReviews

CONSTANT Saves   \* the bodies of the saves that clients send

VARIABLE attempt

\* A specification once pinned stays; else the save may pin one.
Save ==
  /\ attempt.status # "ghost"
  /\ \E q \in Saves, pin \in Maybe(Revisions) :
       /\ attempt.spec # None => pin = attempt.spec
       /\ attempt' = SavedOver(attempt, attempt, q, pin)

Publish ==
  /\ attempt.status = "stored"
  /\ Qualifies(attempt)
  /\ attempt' = Published(attempt)

Unpublish == attempt' = Unpublished(attempt)

View ==
  /\ attempt.public
  /\ attempt' = Viewed(attempt)

Delete == attempt' = NoAttempt

Init == attempt = NoAttempt

Next == Save \/ Publish \/ Unpublish \/ View \/ Delete

Spec == Init /\ [][Next]_attempt

=============================================================================
