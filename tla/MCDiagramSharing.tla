-------------------------- MODULE MCDiagramSharing --------------------------
(***************************************************************************)
(* Small instances of DiagramSharing.                                      *)
(***************************************************************************)
EXTENDS DiagramSharing, TLC

Symmetry == Permutations(Handlers) \cup Permutations(Users)

=============================================================================
