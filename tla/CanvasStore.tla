---------------------------- MODULE CanvasStore ----------------------------
(***************************************************************************)
(* What a canvas workspace promises to its clients, with no requests,      *)
(* storage calls or replicas in it.                                        *)
(*                                                                         *)
(*   - A canvas is born at version 1.  Every accepted save advances its    *)
(*     version by exactly one, so a version number names one graph.        *)
(*   - A canvas is retired once and keeps its content; nothing happens to  *)
(*     it afterwards.                                                      *)
(*   - The graph that the parent (a design or a problem attempt) carried   *)
(*     before the workspace had canvases is adopted once, as its first     *)
(*     canvas, and a design drops its own copy only after that.            *)
(*                                                                         *)
(* CanvasWorkspace implements this specification.                          *)
(***************************************************************************)
EXTENDS Naturals

CONSTANTS
  Parent,        \* what the workspace belongs to: a "design" or an "attempt"
  CanvasIds,     \* every canvas id of one workspace
  LegacyId,      \* the id of the canvas adopted from the design itself
  Graphs,        \* canvas contents
  EmptyGraph,    \* the graph of a parent that carries none
  LegacyGraph    \* the graph the parent carries at first

VARIABLES
  canvases,      \* canvases[id]: its status, graph and version
  parentGraph,   \* the copy the parent itself still carries
  offered        \* the graphs that the parent has offered for adoption

vars == <<canvases, parentGraph, offered>>

Unborn == [status |-> "none", graph |-> EmptyGraph, version |-> 0]

Init ==
  /\ canvases = [id \in CanvasIds |-> Unborn]
  /\ parentGraph = LegacyGraph
  /\ offered = {LegacyGraph}

Adopted == canvases[LegacyId].status # "none"

Born(id, graph) ==
  /\ canvases[id].status = "none"
  /\ canvases' = [canvases EXCEPT ![id] =
                    [status |-> "active", graph |-> graph, version |-> 1]]
  /\ UNCHANGED <<parentGraph, offered>>

\* The first canvas takes a graph that the parent offered.
Adopt == \E graph \in offered : Born(LegacyId, graph)

\* Any other canvas is opened in a workspace that has adopted the parent's graph.
Open(id) ==
  /\ Adopted
  /\ id # LegacyId
  /\ \E graph \in Graphs : Born(id, graph)

Save(id) ==
  /\ canvases[id].status = "active"
  /\ \E graph \in Graphs :
       canvases' = [canvases EXCEPT ![id] =
                      [status |-> "active", graph |-> graph,
                       version |-> canvases[id].version + 1]]
  /\ UNCHANGED <<parentGraph, offered>>

Retire(id) ==
  /\ canvases[id].status = "active"
  /\ canvases' = [canvases EXCEPT ![id].status = "deleted"]
  /\ UNCHANGED <<parentGraph, offered>>

\* A design drops its own copy of the graph.
Drop ==
  /\ Parent = "design"
  /\ Adopted
  /\ parentGraph' = EmptyGraph
  /\ UNCHANGED <<canvases, offered>>

\* An attempt is saved outside the workspace, or shows another graph to a reader.
Offer ==
  /\ Parent = "attempt"
  /\ \E graph \in Graphs :
       /\ offered' = offered \cup {graph}
       /\ parentGraph' \in {graph, parentGraph}
  /\ UNCHANGED canvases

Next ==
  \/ Adopt
  \/ \E id \in CanvasIds : Open(id) \/ Save(id) \/ Retire(id)
  \/ Drop
  \/ Offer

Spec == Init /\ [][Next]_vars

=============================================================================
