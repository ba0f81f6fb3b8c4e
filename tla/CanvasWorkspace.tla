-------------------------- MODULE CanvasWorkspace --------------------------
(***************************************************************************)
(* The canvases (tabs) of one workspace: the routes of routers/canvases.py *)
(* and the diagram PUT of routers/diagrams.py, over CanvasService and      *)
(* CanvasRepository, on one DynamoDB table.                                *)
(*                                                                         *)
(* A request is a handler that walks through its storage calls, one call a *)
(* step.  Between two of its calls any other handler may run: the API is   *)
(* deployed as several processes, and nothing locks a workspace.  Writes   *)
(* are single conditional updates of one row.  Reads may be answered by a  *)
(* replica that lags behind ("stale" in Faults): neither list_canvases nor *)
(* get_canvas asks for a consistent read.  A handler may stop after any    *)
(* call ("abort"): the call raised, or the process went away.              *)
(*                                                                         *)
(* A design's graph from before it had canvases is presented as a virtual  *)
(* canvas (the legacy fallback) and stored by the first write request.     *)
(***************************************************************************)
EXTENDS Integers, FiniteSets

CONSTANTS
  Handlers,      \* server processes, each running one request at a time
  Parent,        \* what the workspace belongs to: a "design" or an "attempt"
  CanvasIds,     \* canvas ids (uuids) that requests may draw or name
  LegacyId,      \* the id of the canvas adopted from the parent (its own id)
  Names,         \* canvas names
  LegacyName,    \* LEGACY_CANVAS_NAME
  Asked,         \* bound: the names that requests ask for
  Graphs,        \* canvas contents, nodes and edges together
  EmptyGraph,    \* no nodes and no edges
  LegacyGraph,   \* what the parent carries when the behaviour begins
  MaxCanvases,   \* MAX_CANVASES_PER_WORKSPACE
  MaxRequests,   \* bound: requests that ever arrive
  Faults         \* which of "stale" and "abort" may happen

ASSUME CanvasAssumption ==
  /\ Parent \in {"design", "attempt"}
  /\ IsFiniteSet(CanvasIds) /\ LegacyId \in CanvasIds
  /\ LegacyName \in Names /\ Asked \subseteq Names
  /\ {EmptyGraph, LegacyGraph} \subseteq Graphs
  /\ MaxCanvases \in Nat /\ MaxRequests \in Nat
  /\ Faults \subseteq {"stale", "abort"}

VARIABLES
  rows,          \* the canvas items of the workspace
  lagged,        \* the items as a lagging replica shows them
  parent,        \* the parent's own graph, and the graph its counts describe
  req,           \* the request of each handler
  issued,        \* requests that have arrived
  acked,         \* history: the versions that clients were told are stored
  offered        \* history: the graphs that the parent was seen to carry

vars == <<rows, lagged, parent, req, issued, acked, offered>>

-----------------------------------------------------------------------------
(* Rows and requests *)

Row == [status : {"none", "active", "deleted"}, name : Names, order : Nat,
        graph : Graphs, version : Nat]

NoRow == [status |-> "none", name |-> LegacyName, order |-> 0,
          graph |-> EmptyGraph, version |-> 0]

NewRow(name, order, graph) ==
  [status |-> "active", name |-> name, order |-> order,
   graph |-> graph, version |-> 1]

\* Mutant: the virtual canvas is built like a new one, without the parent's graph.
LegacyRowEmpty(graph) == NewRow(LegacyName, 0, EmptyGraph)

\* legacy_canvas_from_diagram: the virtual canvas of a parent that carries graph.
LegacyRow(graph) == NewRow(LegacyName, 0, graph)

Moves == [id : CanvasIds, order : Nat]

Ops == {"none", "create", "rename", "relabel", "reorder", "save", "delete",
        "duplicate", "legacyPut", "legacySave"}

Steps == {"idle", "source", "materialize", "adopt", "list", "primary", "write",
          "move", "relist", "clear"}

Request == [op : Ops, pc : Steps,
            id : CanvasIds,         \* the canvas to write
            source : CanvasIds,     \* the canvas to copy
            name : Names,           \* the name asked for, then the name to write
            order : Nat,            \* the tab position to write
            graph : Graphs,         \* the content to write, then the one to count
            version : Nat,          \* the version the save expects
            legacy : Graphs,        \* the parent's graph as this request read it
            moves : SUBSET Moves]   \* the positions a reorder has still to write

Idle == [op |-> "none", pc |-> "idle", id |-> LegacyId, source |-> LegacyId,
         name |-> LegacyName, order |-> 0, graph |-> EmptyGraph, version |-> 0,
         legacy |-> LegacyGraph, moves |-> {}]

TypeOK ==
  /\ rows \in [CanvasIds -> Row]
  /\ lagged \in [CanvasIds -> Row]
  /\ parent \in [graph : Graphs, counted : Graphs]
  /\ req \in [Handlers -> Request]
  /\ issued \in Nat
  /\ acked \subseteq [id : CanvasIds, version : Nat, graph : Graphs]
  /\ offered \subseteq Graphs

-----------------------------------------------------------------------------
(* CanvasRepository: what one call reads, and the condition of each write *)

Active(view) == {id \in CanvasIds : view[id].status = "active"}

\* The tables that an eventually consistent read may be answered from.
Readable == IF "stale" \in Faults THEN {rows, lagged} ELSE {rows}

\* list_canvases sorts by order alone; the first of equals is any of them.
Primaries(view) ==
  {id \in Active(view) :
     \A other \in Active(view) : view[id].order <= view[other].order}

\* Mutant: the insert is unconditional.
PutAlways(table, id, row) == [table EXCEPT ![id] = row]

\* put_new_canvas inserts only under a free id.
PutNew(table, id, row) ==
  IF table[id].status = "none" THEN [table EXCEPT ![id] = row] ELSE table

\* Mutant: the save does not compare versions.
SaveAcceptedBlindly(row, version) == row.status = "active"

\* save_content's condition.
SaveAccepted(row, version) == row.status = "active" /\ row.version = version

\* Mutant: the save forgets to advance the version.
SavedRowSameVersion(row, graph, version) == [row EXCEPT !.graph = graph]

SavedRow(row, graph, version) ==
  [row EXCEPT !.graph = graph, !.version = version + 1]

\* update_meta's condition, and soft_delete's.
Writable(row) == row.status = "active"

RenamedRow(row, name) == [row EXCEPT !.name = name]

MovedRow(row, order) == [row EXCEPT !.order = order]

RetiredRow(row) == [row EXCEPT !.status = "deleted"]

-----------------------------------------------------------------------------
(* The rules of canvas_models.py *)

CapacityLeft(view) == Cardinality(Active(view)) < MaxCanvases

NotLast(view) == Cardinality(Active(view)) > 1

\* Mutant: the number of canvases is taken for the next free position.
NextOrderByCount(view) == Cardinality(Active(view))

\* The greatest position in use, if there is one.
LastOrders(view) ==
  {o \in {view[id].order : id \in Active(view)} :
     \A id \in Active(view) : view[id].order <= o}

\* build_canvas: max(orders, default=-1) + 1.
NextOrder(view) ==
  IF LastOrders(view) = {} THEN 0 ELSE 1 + CHOOSE o \in LastOrders(view) : TRUE

\* dedupe_canvas_name: the name itself if it is free, else a numbered one that is.
Deduped(name, taken) == IF name \notin taken THEN {name} ELSE Names \ taken

NamesOf(view, ids) == {view[id].name : id \in ids}

-----------------------------------------------------------------------------
(* Steps of a request *)

At(h, op, pc) == req[h].op = op /\ req[h].pc = pc

Continue(h, request) == req' = [req EXCEPT ![h] = request]

Goto(h, pc) == Continue(h, [req[h] EXCEPT !.pc = pc])

Reply(h) == Continue(h, Idle)

\* What follows materialize_legacy in each operation.
AfterMaterialize(op) ==
  IF op \in {"relabel", "save", "legacySave"} THEN "write" ELSE "list"

\* Mutant: the parent's counts are not refreshed after a write.
FinishWithoutClearing(h) == Reply(h)

\* A design's request goes on to read the primary canvas and clear the parent;
\* an attempt's request is done.
Finish(h) == IF Parent = "design" THEN Goto(h, "relist") ELSE Reply(h)

\* The parent's graph as _load_workspace or _load_attempt_workspace sees it.  An
\* owner's read of a design is consistent, a collaborator's may lag; a failed
\* read of an attempt is taken for an attempt that does not exist.
LegacyReads ==
  {parent.graph}
    \cup (IF "stale" \in Faults THEN offered ELSE {})
    \cup (IF Parent = "attempt" /\ "abort" \in Faults THEN {EmptyGraph} ELSE {})

\* new_canvas_id: a uuid that no stored canvas and no other request has.
FreshIds ==
  {id \in CanvasIds \ {LegacyId} :
     /\ rows[id].status = "none"
     /\ \A h \in Handlers : req[h].op \in {"create", "duplicate"} => req[h].id # id}

Arrive(h, request) ==
  /\ req[h].pc = "idle"
  /\ issued < MaxRequests
  /\ issued' = issued + 1
  /\ \E graph \in LegacyReads :
       /\ Continue(h, [request EXCEPT !.legacy = graph])
       /\ offered' = IF Parent = "attempt" THEN offered \cup {graph} ELSE offered
  /\ UNCHANGED <<rows, lagged, parent, acked>>

BeginCreate(h) ==
  \E id \in FreshIds, name \in Asked :
    Arrive(h, [Idle EXCEPT !.op = "create", !.pc = "materialize",
                           !.id = id, !.name = name])

BeginDuplicate(h) ==
  \E id \in FreshIds, source \in CanvasIds, name \in Asked :
    Arrive(h, [Idle EXCEPT !.op = "duplicate", !.pc = "source",
                           !.id = id, !.source = source, !.name = name])

BeginRename(h) ==
  \E id \in CanvasIds, name \in Asked :
    Arrive(h, [Idle EXCEPT !.op = "rename", !.pc = "materialize",
                           !.id = id, !.name = name])

\* A PATCH of the kind alone: the kind is a label that nothing depends on.
BeginRelabel(h) ==
  \E id \in CanvasIds :
    Arrive(h, [Idle EXCEPT !.op = "relabel", !.pc = "materialize", !.id = id])

BeginReorder(h) ==
  Arrive(h, [Idle EXCEPT !.op = "reorder", !.pc = "materialize"])

\* The legacy fallback is passed on only when the canvas saved is the legacy one.
BeginSave(h) ==
  \E id \in CanvasIds, graph \in Graphs, version \in 1..(issued + 1) :
    Arrive(h, [Idle EXCEPT !.op = "save", !.id = id, !.graph = graph,
                           !.version = version,
                           !.pc = IF id = LegacyId THEN "materialize" ELSE "write"])

BeginDelete(h) ==
  \E id \in CanvasIds :
    Arrive(h, [Idle EXCEPT !.op = "delete", !.pc = "materialize", !.id = id])

\* PUT /diagrams/{id} with a graph, from a client that does not know canvases.
BeginLegacyPut(h) ==
  /\ Parent = "design"
  /\ \E graph \in Graphs :
       Arrive(h, [Idle EXCEPT !.op = "legacyPut", !.pc = "materialize",
                              !.graph = graph])

Begin(h) ==
  \/ BeginCreate(h)
  \/ BeginDuplicate(h)
  \/ BeginRename(h)
  \/ BeginRelabel(h)
  \/ BeginReorder(h)
  \/ BeginSave(h)
  \/ BeginDelete(h)
  \/ BeginLegacyPut(h)

\* A call that only reads changes nothing but the request.
ReadOnly == UNCHANGED <<rows, lagged, parent, issued, acked, offered>>

\* get_canvas of the canvas to copy, before anything is materialized.
DuplicateSource(h) ==
  /\ At(h, "duplicate", "source")
  /\ \E view \in Readable :
       LET source == req[h].source
       IN  IF view[source].status = "active"
           THEN Continue(h, [req[h] EXCEPT !.graph = view[source].graph,
                                           !.pc = "materialize"])
           ELSE IF source = LegacyId
           THEN Continue(h, [req[h] EXCEPT !.graph = req[h].legacy,
                                           !.pc = "materialize"])
           ELSE Reply(h)
  /\ ReadOnly

\* materialize_legacy, first half: does the workspace have canvases?
MaterializeList(h) ==
  /\ req[h].pc = "materialize"
  /\ \E view \in Readable :
       Goto(h, IF Active(view) # {} THEN AfterMaterialize(req[h].op) ELSE "adopt")
  /\ ReadOnly

\* materialize_legacy, second half.
MaterializePut(h) ==
  /\ req[h].pc = "adopt"
  /\ rows' = PutNew(rows, LegacyId, LegacyRow(req[h].legacy))
  /\ Goto(h, AfterMaterialize(req[h].op))
  /\ UNCHANGED <<lagged, parent, issued, acked, offered>>

\* create_canvas and duplicate_canvas: list, check the limit, build the canvas.
BuildCanvas(h) ==
  /\ At(h, "create", "list") \/ At(h, "duplicate", "list")
  /\ \E view \in Readable :
       \/ /\ ~CapacityLeft(view)
          /\ Reply(h)
       \/ /\ CapacityLeft(view)
          /\ \E name \in Deduped(req[h].name, NamesOf(view, Active(view))) :
               Continue(h, [req[h] EXCEPT !.name = name, !.order = NextOrder(view),
                                          !.pc = "write"])
  /\ ReadOnly

InsertCanvas(h) ==
  /\ At(h, "create", "write") \/ At(h, "duplicate", "write")
  /\ LET id == req[h].id
     IN  /\ rows' = PutNew(rows, id, NewRow(req[h].name, req[h].order, req[h].graph))
         /\ acked' = IF rows[id].status = "none"
                     THEN acked \cup {[id |-> id, version |-> 1, graph |-> req[h].graph]}
                     ELSE acked
  /\ Reply(h)
  /\ UNCHANGED <<lagged, parent, issued, offered>>

\* update_canvas: the new name must differ from those of the other canvases.
RenameList(h) ==
  /\ At(h, "rename", "list")
  /\ \E view \in Readable :
       \E name \in Deduped(req[h].name, NamesOf(view, Active(view) \ {req[h].id})) :
         Continue(h, [req[h] EXCEPT !.name = name, !.pc = "write"])
  /\ ReadOnly

RenameWrite(h) ==
  /\ At(h, "rename", "write")
  /\ LET id == req[h].id
     IN  rows' = IF Writable(rows[id])
                 THEN [rows EXCEPT ![id] = RenamedRow(rows[id], req[h].name)]
                 ELSE rows
  /\ Reply(h)
  /\ UNCHANGED <<lagged, parent, issued, acked, offered>>

RelabelWrite(h) ==
  /\ At(h, "relabel", "write")
  /\ Reply(h)
  /\ ReadOnly

MoveNeeded(row, order) == row.order # order

\* reorder_canvases writes only the canvases whose position changes.
MovesTo(view, position) ==
  {[id |-> id, order |-> position[id]] :
     id \in {i \in Active(view) : MoveNeeded(view[i], position[i])}}

\* Every assignment of the positions 0, 1, ... to the active canvases.
TabOrders(view) ==
  LET ids == Active(view)
  IN  {position \in [ids -> 0 .. Cardinality(ids) - 1] :
         \A a, b \in ids : position[a] = position[b] => a = b}

\* The list given must name every active canvas once: either it does not, or it is
\* one of the orders of those canvases.
ReorderList(h) ==
  /\ At(h, "reorder", "list")
  /\ \E view \in Readable :
       \/ Reply(h)
       \/ /\ Active(view) # {}
          /\ \E position \in TabOrders(view) :
               LET moves == MovesTo(view, position)
               IN  Continue(h, [req[h] EXCEPT !.moves = moves,
                                              !.pc = IF moves = {} THEN "relist" ELSE "move"])
  /\ ReadOnly

\* One update_meta; a canvas deleted meanwhile is passed over.
ReorderMove(h) ==
  /\ At(h, "reorder", "move")
  /\ \E move \in req[h].moves :
       /\ \A other \in req[h].moves : move.order <= other.order
       /\ rows' = IF Writable(rows[move.id])
                  THEN [rows EXCEPT ![move.id] = MovedRow(rows[move.id], move.order)]
                  ELSE rows
       /\ LET rest == req[h].moves \ {move}
          IN  Continue(h, [req[h] EXCEPT !.moves = rest,
                                         !.pc = IF rest = {} THEN "relist" ELSE "move"])
  /\ UNCHANGED <<lagged, parent, issued, acked, offered>>

DeleteList(h) ==
  /\ At(h, "delete", "list")
  /\ \E view \in Readable :
       IF req[h].id \in Active(view) /\ NotLast(view)
       THEN Goto(h, "write")
       ELSE Reply(h)
  /\ ReadOnly

DeleteWrite(h) ==
  /\ At(h, "delete", "write")
  /\ LET id == req[h].id
     IN  \/ /\ Writable(rows[id])
            /\ rows' = [rows EXCEPT ![id] = RetiredRow(rows[id])]
            /\ Finish(h)
         \/ /\ ~Writable(rows[id])
            /\ Reply(h)
            /\ UNCHANGED rows
  /\ UNCHANGED <<lagged, parent, issued, acked, offered>>

\* _save_primary_canvas_from_legacy_request: the first canvas in tab order ...
LegacyPutList(h) ==
  /\ At(h, "legacyPut", "list")
  /\ \E view \in Readable :
       \/ /\ Active(view) = {}
          /\ Reply(h)
       \/ \E id \in Primaries(view) :
            Continue(h, [req[h] EXCEPT !.id = id, !.pc = "primary"])
  /\ ReadOnly

\* ... is read for its version, then saved like a canvas PUT (which materializes
\* again).  The request ends here if the canvas is gone, or if the graph, completed
\* with the stored nodes or edges, is not valid.
LegacyPutPrimary(h) ==
  /\ At(h, "legacyPut", "primary")
  /\ \E view \in Readable :
       \/ Reply(h)
       \/ /\ view[req[h].id].status = "active"
          /\ Continue(h, [req[h] EXCEPT !.op = "legacySave", !.pc = "materialize",
                                        !.version = view[req[h].id].version])
  /\ ReadOnly

\* save_content.  A canvas PUT then reads the primary canvas for its counts; the
\* diagram PUT has saved the primary canvas itself.
SaveWrite(h) ==
  /\ At(h, "save", "write") \/ At(h, "legacySave", "write")
  /\ LET id == req[h].id
         graph == req[h].graph
         version == req[h].version
     IN  \/ /\ SaveAccepted(rows[id], version)
            /\ rows' = [rows EXCEPT ![id] = SavedRow(rows[id], graph, version)]
            /\ acked' = acked \cup {[id |-> id, version |-> version + 1, graph |-> graph]}
            /\ IF req[h].op = "save" THEN Finish(h) ELSE Goto(h, "clear")
         \/ /\ ~SaveAccepted(rows[id], version)
            /\ Reply(h)
            /\ UNCHANGED <<rows, acked>>
  /\ UNCHANGED <<lagged, parent, issued, offered>>

\* primary_canvas of a fresh list.
Relist(h) ==
  /\ req[h].pc = "relist"
  /\ \E view \in Readable :
       \/ /\ Active(view) = {} \/ Parent = "attempt"
          /\ Reply(h)
       \/ /\ Parent = "design"
          /\ \E id \in Primaries(view) :
               Continue(h, [req[h] EXCEPT !.graph = view[id].graph, !.pc = "clear"])
  /\ ReadOnly

\* clear_diagram_graph: the parent keeps the counts only.
ClearParent(h) ==
  /\ req[h].pc = "clear"
  /\ parent' = [graph |-> EmptyGraph, counted |-> req[h].graph]
  /\ Reply(h)
  /\ UNCHANGED <<rows, lagged, issued, acked, offered>>

\* The handler stops after any call, and its request with it.
Abort(h) ==
  /\ "abort" \in Faults
  /\ req[h].pc # "idle"
  /\ Reply(h)
  /\ ReadOnly

Handle(h) ==
  \/ DuplicateSource(h)
  \/ MaterializeList(h)
  \/ MaterializePut(h)
  \/ BuildCanvas(h)
  \/ InsertCanvas(h)
  \/ RenameList(h)
  \/ RenameWrite(h)
  \/ RelabelWrite(h)
  \/ ReorderList(h)
  \/ ReorderMove(h)
  \/ DeleteList(h)
  \/ DeleteWrite(h)
  \/ LegacyPutList(h)
  \/ LegacyPutPrimary(h)
  \/ SaveWrite(h)
  \/ Relist(h)
  \/ ClearParent(h)

-----------------------------------------------------------------------------
(* The surroundings *)

\* The lagging replica catches up.
Replicate ==
  /\ "stale" \in Faults
  /\ lagged' = rows
  /\ UNCHANGED <<rows, parent, req, issued, acked, offered>>

\* The attempt's own autosave, which knows nothing of canvases.
AttemptSaved ==
  /\ Parent = "attempt"
  /\ issued < MaxRequests
  /\ issued' = issued + 1
  /\ \E graph \in Graphs :
       /\ parent' = [graph |-> graph, counted |-> graph]
       /\ offered' = offered \cup {graph}
  /\ UNCHANGED <<rows, lagged, req, acked>>

\* No more requests: the bound is used up and every handler is idle.
Rest ==
  /\ issued = MaxRequests
  /\ \A h \in Handlers : req[h].pc = "idle"
  /\ UNCHANGED vars

Init ==
  /\ rows = [id \in CanvasIds |-> NoRow]
  /\ lagged = rows
  /\ parent = [graph |-> LegacyGraph, counted |-> LegacyGraph]
  /\ req = [h \in Handlers |-> Idle]
  /\ issued = 0
  /\ acked = {}
  /\ offered = {LegacyGraph}

Next ==
  \/ \E h \in Handlers : Begin(h) \/ Handle(h) \/ Abort(h)
  \/ Replicate
  \/ AttemptSaved
  \/ Rest

Spec == Init /\ [][Next]_vars

-----------------------------------------------------------------------------
(* Safety: what holds whatever runs concurrently, lags or stops *)

\* The graph a parent carried before it had canvases is never lost: the parent keeps
\* it until the first canvas is stored, and that canvas begins with a graph the parent
\* really carried.  Every write materializes first ("Safe to call repeatedly and
\* concurrently", CanvasService.materialize_legacy), and the parent is cleared by saves,
\* reorders and deletes that may run while others materialize.
LegacyGraphKept ==
  /\ rows[LegacyId].status = "none" => parent.graph \in offered
  /\ rows[LegacyId].version = 1 => rows[LegacyId].graph \in offered

\* A content save that a client was told is stored is stored: the canvas holds that
\* graph until a save that names that very version replaces it, and no other save is
\* ever given the same version ("two tabs or devices cannot silently overwrite each
\* other", CanvasRepository).  Renames, reorders, deletes and materializations that
\* interleave with it must all leave graph and version alone.
AckedSavesKept ==
  /\ \A ack \in acked :
       /\ rows[ack.id].version >= ack.version
       /\ rows[ack.id].version = ack.version => rows[ack.id].graph = ack.graph
  /\ \A a, b \in acked : a.id = b.id /\ a.version = b.version => a = b

\* The workspace implements the promise of CanvasStore: versions advance one by one, a
\* deleted canvas stays as it was, the legacy graph is adopted once, and the parent
\* drops its copy only afterwards.
Store == INSTANCE CanvasStore WITH
  canvases <- [id \in CanvasIds |-> [status |-> rows[id].status,
                                     graph |-> rows[id].graph,
                                     version |-> rows[id].version]],
  parentGraph <- parent.graph

ImplementsStore == Store!Spec

\* Why adoption works: nothing is stored before the first canvas is, the replica shows
\* nothing that is not stored, and while nothing is stored the parent and every request
\* under way still hold a graph that the parent really carried.
AdoptionOpen ==
  /\ \A id \in CanvasIds : lagged[id].status # "none" => rows[id].status # "none"
  /\ rows[LegacyId].status = "none" =>
       /\ \A id \in CanvasIds : rows[id].status = "none"
       /\ \A h \in Handlers : req[h].pc # "idle" => req[h].legacy \in offered

\* What a request relies on: past materialize_legacy, which only a save may skip, the
\* workspace has its first canvas; only designs are cleared; and no request inserts a
\* second canvas under the first one's id.
Ready(request) ==
  /\ \/ request.pc \in {"list", "primary", "move", "relist", "clear"}
     \/ request.pc = "write" /\ request.op # "save"
     => rows[LegacyId].status # "none"
  /\ request.pc = "clear" \/ request.op \in {"legacyPut", "legacySave"}
     => Parent = "design"
  /\ request.op \in {"create", "duplicate"} => request.id # LegacyId

\* Versions start at 1 with the canvas.
VersionsStart ==
  /\ \A id \in CanvasIds : rows[id].version = 0 <=> rows[id].status = "none"
  /\ \A id \in CanvasIds : rows[id].status = "none" => rows[id].graph = EmptyGraph
  /\ \A ack \in acked : ack.version >= 1

\* The inductive invariant: what the reads, the stages of the requests and the parent
\* must agree on for LegacyGraphKept, AckedSavesKept and ImplementsStore to survive
\* every step.
Consistent ==
  /\ TypeOK
  /\ AdoptionOpen
  /\ \A h \in Handlers : Ready(req[h])
  /\ VersionsStart
  /\ LegacyGraphKept
  /\ AckedSavesKept

-----------------------------------------------------------------------------
(* The rules of the workspace: what its requests promise one after the other *)

Quiet == \A h \in Handlers : req[h].pc = "idle"

\* build_canvas and update_canvas: "a unique, normalized name" "at the end of the tab
\* order".  Names and, between requests, positions tell the canvases apart, whatever
\* was deleted, renamed, copied or moved before.
TabsDistinct ==
  \A a, b \in Active(rows) :
    a # b => /\ rows[a].name # rows[b].name
             /\ Quiet => rows[a].order # rows[b].order

\* clear_diagram_graph: "Keep legacy counts current".  Between requests the counts that
\* diagram lists show for a design describe its first canvas.
CountsCurrent ==
  Quiet /\ Parent = "design" =>
    IF Active(rows) = {}
    THEN parent.counted = parent.graph
    ELSE \E id \in Primaries(rows) : parent.counted = rows[id].graph

-----------------------------------------------------------------------------
(* What a request that runs alone, with nothing stale and nothing aborted, *)
(* can rely on: the inductive invariant for TabsDistinct and CountsCurrent *)

Sequential == Faults = {} /\ \E h : Handlers = {h}

NamesDistinct ==
  \A a, b \in Active(rows) : a # b => rows[a].name # rows[b].name

OrdersDistinct ==
  \A a, b \in Active(rows) : a # b => rows[a].order # rows[b].order

CountsRight ==
  IF Active(rows) = {}
  THEN parent.counted = parent.graph
  ELSE \E id \in Primaries(rows) : parent.counted = rows[id].graph

\* What the request has read is still so when it writes, and what it has yet to write
\* brings positions and counts in order again.
InTurn(request) ==
  /\ request.pc # "move" => OrdersDistinct
  /\ request.pc = "move" =>
       \E position \in TabOrders(rows) : request.moves = MovesTo(rows, position)
  /\ Parent = "design" /\ request.pc \notin {"move", "relist", "clear"} => CountsRight
  /\ request.pc = "clear" => \E id \in Primaries(rows) : request.graph = rows[id].graph
  /\ request.pc = "adopt" => Active(rows) = {}
  /\ Parent = "design" /\ request.pc # "idle" /\ Active(rows) = {} =>
       request.legacy = parent.graph
  /\ request.pc = "write" =>
       /\ request.op \in {"create", "duplicate"} =>
            /\ request.name \notin NamesOf(rows, Active(rows))
            /\ \A id \in Active(rows) : rows[id].order < request.order
       /\ request.op = "rename" =>
            request.name \notin NamesOf(rows, Active(rows) \ {request.id})
       /\ request.op = "delete" => Active(rows) \ {request.id} # {}
  /\ request.pc = "primary" \/ request.op = "legacySave" => request.id \in Primaries(rows)

\* Only a workspace that never had a canvas is empty.
TurnsTaken ==
  /\ NamesDistinct
  /\ Active(rows) = {} => rows[LegacyId].status = "none"
  /\ \A h \in Handlers : InTurn(req[h])

=============================================================================
