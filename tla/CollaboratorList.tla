-------------------------- MODULE CollaboratorList --------------------------
(***************************************************************************)
(* What sharing promises a design's owner: each change of the list of      *)
(* collaborators is made to the list as the change before left it, and a   *)
(* deleted design has no collaborators and cannot be shared again.         *)
(***************************************************************************)
CONSTANTS Users, Permissions, None

VARIABLES status, people

Grant(u, permission) ==
  /\ status = "stored"
  /\ people' = [people EXCEPT ![u] = permission]
  /\ UNCHANGED status

Remove(u) ==
  /\ status = "stored"
  /\ people' = [people EXCEPT ![u] = None]
  /\ UNCHANGED status

Delete ==
  /\ status = "stored"
  /\ status' = "none"
  /\ people' = [u \in Users |-> None]

\* A write that comes after the delete leaves attributes of a design, never a design.
Remains ==
  /\ status = "none"
  /\ status' = "partial"
  /\ UNCHANGED people

Init ==
  /\ status = "stored"
  /\ people = [u \in Users |-> None]

Next ==
  \/ \E u \in Users : Remove(u) \/ \E permission \in Permissions : Grant(u, permission)
  \/ Delete
  \/ Remains

Spec == Init /\ [][Next]_<<status, people>>

=============================================================================
