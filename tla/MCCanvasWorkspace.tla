------------------------- MODULE MCCanvasWorkspace -------------------------
(***************************************************************************)
(* Small instances of CanvasWorkspace for model checking.  Handlers, the   *)
(* fresh canvas ids and the names other than the legacy name, asked for    *)
(* or not, are interchangeable.                                            *)
(***************************************************************************)
EXTENDS CanvasWorkspace, TLC

Symmetry ==
  Permutations(Handlers)
    \cup Permutations(CanvasIds \ {LegacyId})
    \cup Permutations(Asked \ {LegacyName})
    \cup Permutations(Names \ (Asked \cup {LegacyName}))

=============================================================================
