-------------------------- MODULE MCCollaboration ---------------------------
(***************************************************************************)
(* Small instances of Collaboration.                                       *)
(***************************************************************************)
EXTENDS Collaboration, TLC

Symmetry == Permutations(Users)

=============================================================================
