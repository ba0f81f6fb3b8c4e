----------------------- MODULE CanvasWorkspaceProofs -----------------------
(***************************************************************************)
(* Proofs about CanvasWorkspace, for any number of handlers, canvases,     *)
(* names, graphs and requests, and whichever faults happen.                *)
(***************************************************************************)
EXTENDS CanvasWorkspace, FiniteSetTheorems, WellFoundedInduction, TLAPS

-----------------------------------------------------------------------------
(* Operators *)

\* What a read is answered from is a table of rows.
LEMMA ReadableTyped ==
  ASSUME TypeOK, NEW view \in Readable
  PROVE  view \in [CanvasIds -> Row]
  BY DEF Readable, TypeOK

\* The position given to a new canvas is a natural number.
LEMMA NextOrderNat ==
  ASSUME NEW view \in [CanvasIds -> Row]
  PROVE  NextOrder(view) \in Nat
<1>1. LastOrders(view) \subseteq Nat
  BY DEF LastOrders, Active, Row
<1>2. CASE LastOrders(view) = {}
  BY <1>2 DEF NextOrder
<1>3. CASE LastOrders(view) # {}
  <2>1. (CHOOSE o \in LastOrders(view) : TRUE) \in LastOrders(view)
    BY <1>3
  <2>2. QED  BY <1>1, <1>3, <2>1 DEF NextOrder
<1>4. QED  BY <1>2, <1>3

\* The writes of a reorder are positions for canvases.
LEMMA MovesTyped ==
  ASSUME CanvasAssumption,
         NEW view \in [CanvasIds -> Row], NEW position \in TabOrders(view)
  PROVE  MovesTo(view, position) \in SUBSET Moves
<1>1. Active(view) \subseteq CanvasIds
  BY DEF Active
<1>2. Cardinality(Active(view)) \in Nat
  BY <1>1, FS_Subset, FS_CardinalityType DEF CanvasAssumption
<1>3. \A id \in Active(view) : position[id] \in Nat
  BY <1>2 DEF TabOrders
<1>4. QED  BY <1>1, <1>3 DEF MovesTo, Moves

LEMMA IdleTyped == CanvasAssumption => Idle \in Request
  BY DEF CanvasAssumption, Idle, Request, Ops, Steps, Moves

LEMMA RequestFields ==
  ASSUME NEW r \in Request
  PROVE  /\ r.op \in Ops /\ r.pc \in Steps
         /\ r.id \in CanvasIds /\ r.source \in CanvasIds
         /\ r.name \in Names /\ r.order \in Nat
         /\ r.graph \in Graphs /\ r.version \in Nat
         /\ r.legacy \in Graphs /\ r.moves \in SUBSET Moves
  BY DEF Request

\* The updates that the steps of a request make keep it a request.
LEMMA RequestUpdates ==
  ASSUME NEW r \in Request, NEW pc \in Steps
  PROVE  /\ [r EXCEPT !.pc = pc] \in Request
         /\ \A id \in CanvasIds : [r EXCEPT !.id = id, !.pc = pc] \in Request
         /\ \A graph \in Graphs : [r EXCEPT !.graph = graph, !.pc = pc] \in Request
         /\ \A name \in Names :
              /\ [r EXCEPT !.name = name, !.pc = pc] \in Request
              /\ \A order \in Nat :
                   [r EXCEPT !.name = name, !.order = order, !.pc = pc] \in Request
         /\ \A moves \in SUBSET Moves : [r EXCEPT !.moves = moves, !.pc = pc] \in Request
         /\ \A version \in Nat :
              [r EXCEPT !.op = "legacySave", !.pc = pc, !.version = version] \in Request
<1>1. "legacySave" \in Ops
  BY DEF Ops
<1>2. QED  BY <1>1 DEF Request

\* A step that leaves a handler with a request keeps the requests typed.
LEMMA ContinueTyped ==
  ASSUME req \in [Handlers -> Request], NEW h \in Handlers, NEW r \in Request,
         Continue(h, r)
  PROVE  req' \in [Handlers -> Request]
  BY DEF Continue

LEMMA NewRowTyped ==
  ASSUME NEW name \in Names, NEW order \in Nat, NEW graph \in Graphs
  PROVE  NewRow(name, order, graph) \in Row
  BY DEF NewRow, Row

\* The updates that the conditional writes make keep a row a row.
LEMMA RowUpdates ==
  ASSUME NEW row \in Row
  PROVE  /\ \A name \in Names : RenamedRow(row, name) \in Row
         /\ \A order \in Nat : MovedRow(row, order) \in Row
         /\ RetiredRow(row) \in Row
         /\ \A graph \in Graphs, version \in Nat : SavedRow(row, graph, version) \in Row
<1>1. ASSUME NEW name \in Names  PROVE RenamedRow(row, name) \in Row
  BY DEF RenamedRow, Row
<1>2. ASSUME NEW order \in Nat  PROVE MovedRow(row, order) \in Row
  BY DEF MovedRow, Row
<1>3. RetiredRow(row) \in Row
  BY DEF RetiredRow, Row
<1>4. ASSUME NEW graph \in Graphs, NEW version \in Nat
      PROVE  SavedRow(row, graph, version) \in Row
  <2>1. \A v \in Nat : [row EXCEPT !.graph = graph, !.version = v] \in Row
    BY DEF Row
  <2>2. version + 1 \in Nat
    OBVIOUS
  <2>3. QED  BY <2>1, <2>2 DEF SavedRow
<1>5. QED  BY <1>1, <1>2, <1>3, <1>4

\* An insert changes at most the row under its id, and only if that was free.
LEMMA PutNewTyped ==
  ASSUME NEW table \in [CanvasIds -> Row], NEW id \in CanvasIds, NEW row \in Row
  PROVE  PutNew(table, id, row) \in [CanvasIds -> Row]
  BY DEF PutNew

-----------------------------------------------------------------------------
(* Type correctness *)

\* What a request is when it arrives.
Arriving(request) ==
  /\ request \in Request
  /\ \/ request.pc \in {"materialize", "source"}
     \/ request.op = "save" /\ request.pc = "write"
  /\ request.op # "legacySave"
  /\ request.op = "legacyPut" => Parent = "design"
  /\ request.op \in {"create", "duplicate"} => request.id # LegacyId

\* Every operation begins with such a request.
LEMMA BeginArrives ==
  ASSUME CanvasAssumption, issued \in Nat, NEW h \in Handlers, Begin(h)
  PROVE  \E r : Arriving(r) /\ Arrive(h, r)
<1>1. Idle \in Request
  BY IdleTyped
<1>2. CASE BeginCreate(h)
  <2>1. PICK id \in FreshIds, name \in Asked :
          Arrive(h, [Idle EXCEPT !.op = "create", !.pc = "materialize",
                                 !.id = id, !.name = name])
    BY <1>2 DEF BeginCreate
  <2>2. id \in CanvasIds \ {LegacyId} /\ name \in Names
    BY DEF FreshIds, CanvasAssumption
  <2>3. PICK q \in Request :
          q = [Idle EXCEPT !.op = "create", !.pc = "materialize",
                                !.id = id, !.name = name]
    BY <1>1, <2>1, <2>2 DEF Idle, Request, Ops, Steps
  <2>4. q.op = "create" /\ q.pc = "materialize" /\ q.id = id
    BY <1>1, <2>3 DEF Idle, Request
  <2>5. QED  BY <2>2, <2>1, <2>3, <2>4 DEF Arriving
<1>3. CASE BeginDuplicate(h)
  <2>1. PICK id \in FreshIds, source \in CanvasIds, name \in Asked :
          Arrive(h, [Idle EXCEPT !.op = "duplicate", !.pc = "source",
                                 !.id = id, !.source = source, !.name = name])
    BY <1>3 DEF BeginDuplicate
  <2>2. id \in CanvasIds \ {LegacyId} /\ name \in Names
    BY DEF FreshIds, CanvasAssumption
  <2>3. PICK q \in Request :
          q = [Idle EXCEPT !.op = "duplicate", !.pc = "source",
                                !.id = id, !.source = source, !.name = name]
    BY <1>1, <2>1, <2>2 DEF Idle, Request, Ops, Steps
  <2>4. q.op = "duplicate" /\ q.pc = "source" /\ q.id = id
    BY <1>1, <2>3 DEF Idle, Request
  <2>5. QED  BY <2>2, <2>1, <2>3, <2>4 DEF Arriving
<1>4. CASE BeginRename(h)
  <2>1. PICK id \in CanvasIds, name \in Asked :
          Arrive(h, [Idle EXCEPT !.op = "rename", !.pc = "materialize",
                                 !.id = id, !.name = name])
    BY <1>4 DEF BeginRename
  <2>2. PICK q \in Request :
          q = [Idle EXCEPT !.op = "rename", !.pc = "materialize",
                                !.id = id, !.name = name]
    BY <1>1, <2>1 DEF Idle, Request, Ops, Steps, CanvasAssumption
  <2>3. q.op = "rename" /\ q.pc = "materialize"
    BY <1>1, <2>2 DEF Idle, Request
  <2>4. QED  BY <2>1, <2>2, <2>3 DEF Arriving
<1>5. CASE BeginRelabel(h)
  <2>1. PICK id \in CanvasIds :
          Arrive(h, [Idle EXCEPT !.op = "relabel", !.pc = "materialize", !.id = id])
    BY <1>5 DEF BeginRelabel
  <2>2. PICK q \in Request :
          q = [Idle EXCEPT !.op = "relabel", !.pc = "materialize", !.id = id]
    BY <1>1, <2>1 DEF Idle, Request, Ops, Steps
  <2>3. q.op = "relabel" /\ q.pc = "materialize"
    BY <1>1, <2>2 DEF Idle, Request
  <2>4. QED  BY <2>1, <2>2, <2>3 DEF Arriving
<1>6. CASE BeginReorder(h)
  <2>1. PICK q \in Request :
          q = [Idle EXCEPT !.op = "reorder", !.pc = "materialize"]
    BY <1>1 DEF Idle, Request, Ops, Steps
  <2>2. q.op = "reorder" /\ q.pc = "materialize"
    BY <1>1, <2>1 DEF Idle, Request
  <2>3. QED  BY <1>6, <2>1, <2>2 DEF Arriving, BeginReorder
<1>7. CASE BeginSave(h)
  <2>1. PICK id \in CanvasIds, graph \in Graphs, version \in 1..(issued + 1) :
          Arrive(h, [Idle EXCEPT !.op = "save", !.id = id, !.graph = graph,
                                 !.version = version,
                                 !.pc = IF id = LegacyId THEN "materialize" ELSE "write"])
    BY <1>7 DEF BeginSave
  <2>2. version \in Nat
    OBVIOUS
  <2>3. PICK q \in Request :
          q = [Idle EXCEPT !.op = "save", !.id = id, !.graph = graph,
                                !.version = version,
                                !.pc = IF id = LegacyId THEN "materialize" ELSE "write"]
    BY <1>1, <2>1, <2>2 DEF Idle, Request, Ops, Steps
  <2>4. q.op = "save" /\ q.pc \in {"materialize", "write"}
    BY <1>1, <2>3 DEF Idle, Request
  <2>5. QED  BY <2>1, <2>3, <2>4 DEF Arriving
<1>8. CASE BeginDelete(h)
  <2>1. PICK id \in CanvasIds :
          Arrive(h, [Idle EXCEPT !.op = "delete", !.pc = "materialize", !.id = id])
    BY <1>8 DEF BeginDelete
  <2>2. PICK q \in Request :
          q = [Idle EXCEPT !.op = "delete", !.pc = "materialize", !.id = id]
    BY <1>1, <2>1 DEF Idle, Request, Ops, Steps
  <2>3. q.op = "delete" /\ q.pc = "materialize"
    BY <1>1, <2>2 DEF Idle, Request
  <2>4. QED  BY <2>1, <2>2, <2>3 DEF Arriving
<1>9. CASE BeginLegacyPut(h)
  <2>1. PICK graph \in Graphs :
          Arrive(h, [Idle EXCEPT !.op = "legacyPut", !.pc = "materialize",
                                 !.graph = graph])
    BY <1>9 DEF BeginLegacyPut
  <2>2. PICK q \in Request :
          q = [Idle EXCEPT !.op = "legacyPut", !.pc = "materialize", !.graph = graph]
    BY <1>1, <2>1 DEF Idle, Request, Ops, Steps
  <2>3. q.op = "legacyPut" /\ q.pc = "materialize"
    BY <1>1, <2>2 DEF Idle, Request
  <2>4. QED  BY <1>9, <2>1, <2>2, <2>3 DEF Arriving, BeginLegacyPut
<1>10. QED
  BY <1>2, <1>3, <1>4, <1>5, <1>6, <1>7, <1>8, <1>9 DEF Begin

\* A request that arrives is typed.
LEMMA BeginTyped ==
  ASSUME CanvasAssumption, TypeOK, NEW h \in Handlers, Begin(h)
  PROVE  TypeOK'
<1>. USE DEF TypeOK
<1>1. ASSUME NEW r \in Request, Arrive(h, r)
      PROVE  TypeOK'
  <2>1. LegacyReads \subseteq Graphs
    BY DEF LegacyReads, CanvasAssumption
  <2>2. PICK graph \in LegacyReads :
          /\ Continue(h, [r EXCEPT !.legacy = graph])
          /\ offered' = IF Parent = "attempt" THEN offered \cup {graph} ELSE offered
    BY <1>1 DEF Arrive
  <2>3. graph \in Graphs
    BY <2>1, <2>2
  <2>4. [r EXCEPT !.legacy = graph] \in Request
    BY <2>3 DEF Request
  <2>5. /\ req' \in [Handlers -> Request]
        /\ offered' \subseteq Graphs
    BY <2>2, <2>3, <2>4, ContinueTyped
  <2>6. issued' \in Nat /\ UNCHANGED <<rows, lagged, parent, acked>>
    BY <1>1 DEF Arrive
  <2>7. QED  BY <2>5, <2>6
<1>2. QED  BY <1>1, BeginArrives DEF Arriving

\* Every step of a request keeps the types, case by case.
LEMMA HandleTyped ==
  ASSUME CanvasAssumption, TypeOK, NEW h \in Handlers, Handle(h)
  PROVE  TypeOK'
<1>. DEFINE r == req[h]
            Kept == UNCHANGED <<rows, lagged, parent, issued, acked, offered>>
<1>1. /\ rows \in [CanvasIds -> Row]
      /\ r \in Request
      /\ Idle \in Request
      /\ \A view \in Readable : view \in [CanvasIds -> Row]
  BY IdleTyped, ReadableTyped DEF TypeOK
<1>2. /\ r.id \in CanvasIds /\ r.source \in CanvasIds
      /\ r.name \in Names /\ r.order \in Nat
      /\ r.graph \in Graphs /\ r.version \in Nat
      /\ r.legacy \in Graphs /\ r.moves \in SUBSET Moves
  BY <1>1, RequestFields
<1>3. ASSUME NEW q \in Request, Continue(h, q), Kept
      PROVE  TypeOK'
  BY <1>3, ContinueTyped DEF TypeOK
<1>4. ASSUME Reply(h), Kept
      PROVE  TypeOK'
  BY <1>1, <1>3, <1>4 DEF Reply
<1>5. ASSUME NEW q \in Request, Continue(h, q), rows' \in [CanvasIds -> Row],
             acked' \subseteq [id : CanvasIds, version : Nat, graph : Graphs],
             UNCHANGED <<lagged, parent, issued, offered>>
      PROVE  TypeOK'
  BY <1>5, ContinueTyped DEF TypeOK
<1>6. \A pc \in Steps : [r EXCEPT !.pc = pc] \in Request
  BY <1>1, RequestUpdates
<1>7. acked \subseteq [id : CanvasIds, version : Nat, graph : Graphs]
  BY DEF TypeOK
<1>8. \A row \in Row :
        /\ \A name \in Names : RenamedRow(row, name) \in Row
        /\ \A order \in Nat : MovedRow(row, order) \in Row
        /\ RetiredRow(row) \in Row
        /\ \A graph \in Graphs, version \in Nat : SavedRow(row, graph, version) \in Row
  BY RowUpdates
<1>9. \A row \in Row, id \in CanvasIds : [rows EXCEPT ![id] = row] \in [CanvasIds -> Row]
  BY <1>1
<1>10. {"materialize", "adopt", "list", "primary", "write", "move", "relist", "clear"}
          \subseteq Steps /\ AfterMaterialize(r.op) \in Steps
  BY DEF Steps, AfterMaterialize
<1>11. ASSUME Finish(h)
       PROVE  \E q \in Request : Continue(h, q)
  BY <1>1, <1>6, <1>10, <1>11 DEF Finish, Goto, Reply
<1>a. CASE DuplicateSource(h)
  <2>1. Kept
    BY <1>a DEF DuplicateSource, ReadOnly
  <2>2. PICK view \in Readable :
          \/ Continue(h, [r EXCEPT !.graph = view[r.source].graph, !.pc = "materialize"])
          \/ Continue(h, [r EXCEPT !.graph = r.legacy, !.pc = "materialize"])
          \/ Reply(h)
    BY <1>a DEF DuplicateSource
  <2>3. view[r.source].graph \in Graphs
    BY <1>1, <1>2, <2>2 DEF Row
  <2>4. /\ [r EXCEPT !.graph = view[r.source].graph, !.pc = "materialize"] \in Request
        /\ [r EXCEPT !.graph = r.legacy, !.pc = "materialize"] \in Request
    BY <1>1, <1>2, <1>10, <2>3, RequestUpdates
  <2>5. QED  BY <1>3, <1>4, <2>1, <2>2, <2>4
<1>b. CASE MaterializeList(h)
  <2>1. Kept
    BY <1>b DEF MaterializeList, ReadOnly
  <2>2. PICK pc \in Steps : Goto(h, pc)
    BY <1>b, <1>10 DEF MaterializeList
  <2>3. QED  BY <1>3, <1>6, <2>1, <2>2 DEF Goto
<1>c. CASE MaterializePut(h)
  <2>1. LegacyRow(r.legacy) \in Row
    BY <1>2, NewRowTyped DEF LegacyRow, CanvasAssumption
  <2>2. rows' \in [CanvasIds -> Row]
    BY <1>1, <1>c, <2>1, PutNewTyped DEF MaterializePut, CanvasAssumption
  <2>3. Continue(h, [r EXCEPT !.pc = AfterMaterialize(r.op)])
    BY <1>c DEF MaterializePut, Goto
  <2>4. QED  BY <1>5, <1>6, <1>7, <1>10, <1>c, <2>2, <2>3 DEF MaterializePut
<1>d. CASE BuildCanvas(h)
  <2>1. Kept
    BY <1>d DEF BuildCanvas, ReadOnly
  <2>2. SUFFICES ASSUME NEW view \in Readable,
                        NEW name \in Deduped(r.name, NamesOf(view, Active(view))),
                        Continue(h, [r EXCEPT !.name = name, !.order = NextOrder(view),
                                              !.pc = "write"])
                 PROVE  TypeOK'
    BY <1>4, <1>d, <2>1 DEF BuildCanvas
  <2>3. name \in Names
    BY <1>2 DEF Deduped
  <2>4. NextOrder(view) \in Nat
    BY <1>1, NextOrderNat
  <2>5. [r EXCEPT !.name = name, !.order = NextOrder(view), !.pc = "write"] \in Request
    BY <1>1, <1>10, <2>3, <2>4, RequestUpdates
  <2>6. QED  BY <1>3, <2>1, <2>2, <2>5
<1>e. CASE InsertCanvas(h)
  <2>1. NewRow(r.name, r.order, r.graph) \in Row
    BY <1>2, NewRowTyped
  <2>2. rows' \in [CanvasIds -> Row]
    BY <1>1, <1>2, <1>e, <2>1, PutNewTyped DEF InsertCanvas
  <2>3. acked' \subseteq [id : CanvasIds, version : Nat, graph : Graphs]
    BY <1>2, <1>7, <1>e DEF InsertCanvas
  <2>4. Continue(h, Idle) /\ UNCHANGED <<lagged, parent, issued, offered>>
    BY <1>e DEF InsertCanvas, Reply
  <2>5. QED  BY <1>1, <1>5, <2>2, <2>3, <2>4
<1>f. CASE RenameList(h)
  <2>1. Kept
    BY <1>f DEF RenameList, ReadOnly
  <2>2. SUFFICES ASSUME NEW view \in Readable,
                        NEW name \in Deduped(r.name, NamesOf(view, Active(view) \ {r.id})),
                        Continue(h, [r EXCEPT !.name = name, !.pc = "write"])
                 PROVE  TypeOK'
    BY <1>f, <2>1 DEF RenameList
  <2>3. name \in Names
    BY <1>2 DEF Deduped
  <2>4. [r EXCEPT !.name = name, !.pc = "write"] \in Request
    BY <1>1, <1>10, <2>3, RequestUpdates
  <2>5. QED  BY <1>3, <2>1, <2>2, <2>4
<1>g. CASE RenameWrite(h)
  <2>1. rows' \in [CanvasIds -> Row]
    BY <1>1, <1>2, <1>8, <1>9, <1>g DEF RenameWrite
  <2>2. Continue(h, Idle) /\ UNCHANGED <<lagged, parent, issued, acked, offered>>
    BY <1>g DEF RenameWrite, Reply
  <2>3. QED  BY <1>1, <1>5, <1>7, <2>1, <2>2
<1>h. CASE RelabelWrite(h)
  BY <1>4, <1>h DEF RelabelWrite, ReadOnly
<1>i. CASE ReorderList(h)
  <2>1. Kept
    BY <1>i DEF ReorderList, ReadOnly
  <2>2. SUFFICES ASSUME NEW view \in Readable, NEW position \in TabOrders(view),
                        NEW pc \in {"relist", "move"},
                        Continue(h, [r EXCEPT !.moves = MovesTo(view, position), !.pc = pc])
                 PROVE  TypeOK'
    BY <1>4, <1>i, <2>1 DEF ReorderList
  <2>3. MovesTo(view, position) \in SUBSET Moves
    BY <1>1, MovesTyped
  <2>4. [r EXCEPT !.moves = MovesTo(view, position), !.pc = pc] \in Request
    BY <1>1, <1>10, <2>3, RequestUpdates
  <2>5. QED  BY <1>3, <2>1, <2>2, <2>4
<1>j. CASE ReorderMove(h)
  <2>1. PICK move \in r.moves, pc \in {"relist", "move"} :
          /\ rows' = IF Writable(rows[move.id])
                     THEN [rows EXCEPT ![move.id] = MovedRow(rows[move.id], move.order)]
                     ELSE rows
          /\ Continue(h, [r EXCEPT !.moves = r.moves \ {move}, !.pc = pc])
    BY <1>j DEF ReorderMove
  <2>2. move.id \in CanvasIds /\ move.order \in Nat
    BY <1>2 DEF Moves
  <2>3. rows' \in [CanvasIds -> Row]
    BY <1>1, <1>8, <1>9, <2>1, <2>2
  <2>4. [r EXCEPT !.moves = r.moves \ {move}, !.pc = pc] \in Request
    BY <1>1, <1>2, <1>10, RequestUpdates
  <2>5. QED  BY <1>5, <1>7, <1>j, <2>1, <2>3, <2>4 DEF ReorderMove
<1>k. CASE DeleteList(h)
  <2>1. Kept /\ (Goto(h, "write") \/ Reply(h))
    BY <1>k DEF DeleteList, ReadOnly
  <2>2. QED  BY <1>3, <1>4, <1>6, <1>10, <2>1 DEF Goto
<1>l. CASE DeleteWrite(h)
  <2>1. rows' \in [CanvasIds -> Row]
    BY <1>1, <1>2, <1>8, <1>9, <1>l DEF DeleteWrite
  <2>2. \E q \in Request : Continue(h, q)
    BY <1>1, <1>11, <1>l DEF DeleteWrite, Reply
  <2>3. UNCHANGED <<lagged, parent, issued, acked, offered>>
    BY <1>l DEF DeleteWrite
  <2>4. QED  BY <1>5, <1>7, <2>1, <2>2, <2>3
<1>m. CASE LegacyPutList(h)
  <2>1. Kept
    BY <1>m DEF LegacyPutList, ReadOnly
  <2>2. SUFFICES ASSUME NEW view \in Readable, NEW id \in Primaries(view),
                        Continue(h, [r EXCEPT !.id = id, !.pc = "primary"])
                 PROVE  TypeOK'
    BY <1>4, <1>m, <2>1 DEF LegacyPutList
  <2>3. id \in CanvasIds
    BY DEF Primaries, Active
  <2>4. QED  BY <1>1, <1>3, <1>10, <2>1, <2>2, <2>3, RequestUpdates
<1>n. CASE LegacyPutPrimary(h)
  <2>1. Kept
    BY <1>n DEF LegacyPutPrimary, ReadOnly
  <2>2. SUFFICES ASSUME NEW view \in Readable,
                        Continue(h, [r EXCEPT !.op = "legacySave", !.pc = "materialize",
                                              !.version = view[r.id].version])
                 PROVE  TypeOK'
    BY <1>4, <1>n, <2>1 DEF LegacyPutPrimary
  <2>3. view[r.id].version \in Nat
    BY <1>1, <1>2 DEF Row
  <2>4. QED  BY <1>1, <1>3, <1>10, <2>1, <2>2, <2>3, RequestUpdates
<1>o. CASE SaveWrite(h)
  <2>1. rows' \in [CanvasIds -> Row]
    <3>1. SavedRow(rows[r.id], r.graph, r.version) \in Row
      BY <1>1, <1>2, <1>8
    <3>2. QED  BY <1>1, <1>2, <1>9, <1>o, <3>1 DEF SaveWrite
  <2>2. acked' \subseteq [id : CanvasIds, version : Nat, graph : Graphs]
    BY <1>2, <1>7, <1>o DEF SaveWrite
  <2>3. \E q \in Request : Continue(h, q)
    BY <1>1, <1>6, <1>10, <1>11, <1>o DEF SaveWrite, Reply, Goto
  <2>4. UNCHANGED <<lagged, parent, issued, offered>>
    BY <1>o DEF SaveWrite
  <2>5. QED  BY <1>5, <2>1, <2>2, <2>3, <2>4
<1>p. CASE Relist(h)
  <2>1. Kept
    BY <1>p DEF Relist, ReadOnly
  <2>2. SUFFICES ASSUME NEW view \in Readable, NEW id \in Primaries(view),
                        Continue(h, [r EXCEPT !.graph = view[id].graph, !.pc = "clear"])
                 PROVE  TypeOK'
    BY <1>4, <1>p, <2>1 DEF Relist
  <2>3. view[id].graph \in Graphs
    BY <1>1 DEF Primaries, Active, Row
  <2>4. QED  BY <1>1, <1>3, <1>10, <2>1, <2>2, <2>3, RequestUpdates
<1>q. CASE ClearParent(h)
  <2>1. parent' \in [graph : Graphs, counted : Graphs]
    BY <1>2, <1>q DEF ClearParent, CanvasAssumption
  <2>2. req' \in [Handlers -> Request]
    BY <1>1, <1>q, ContinueTyped DEF ClearParent, Reply, TypeOK
  <2>3. QED  BY <1>q, <2>1, <2>2 DEF ClearParent, TypeOK
<1>z. QED
  BY <1>a, <1>b, <1>c, <1>d, <1>e, <1>f, <1>g, <1>h, <1>i, <1>j, <1>k, <1>l, <1>m,
     <1>n, <1>o, <1>p, <1>q DEF Handle

\* Type correctness: the tables, the requests and the histories keep their types.
THEOREM TypeCorrect == Spec => []TypeOK
<1>. USE CanvasAssumption
<1>1. Init => TypeOK
  BY IdleTyped DEF Init, TypeOK, NoRow, Row, CanvasAssumption
<1>2. TypeOK /\ [Next]_vars => TypeOK'
  <2>. SUFFICES ASSUME TypeOK, [Next]_vars PROVE TypeOK'
    OBVIOUS
  <2>1. ASSUME NEW h \in Handlers, Begin(h)  PROVE TypeOK'
    BY <2>1, BeginTyped
  <2>2. ASSUME NEW h \in Handlers, Handle(h)  PROVE TypeOK'
    BY <2>2, HandleTyped
  <2>3. ASSUME NEW h \in Handlers, Abort(h)  PROVE TypeOK'
    BY <2>3, IdleTyped, ContinueTyped DEF Abort, Reply, ReadOnly, TypeOK
  <2>4. CASE Replicate
    BY <2>4 DEF Replicate, TypeOK
  <2>5. CASE AttemptSaved
    BY <2>5 DEF AttemptSaved, TypeOK
  <2>6. CASE UNCHANGED vars
    BY <2>6 DEF vars, TypeOK
  <2>7. QED
    BY <2>1, <2>2, <2>3, <2>4, <2>5, <2>6 DEF Next, Rest
<1>3. QED  BY <1>1, <1>2, PTL DEF Spec

-----------------------------------------------------------------------------
(* What a step does to the stored canvases *)

Stored == rows[LegacyId].status # "none"

Put(id, row) == rows' = [rows EXCEPT ![id] = row]

Undisturbed == UNCHANGED <<rows, acked, parent, offered>>

Adopting ==
  /\ ~Stored
  /\ \E graph \in offered : Put(LegacyId, LegacyRow(graph))
  /\ UNCHANGED <<acked, parent, offered>>

Opening ==
  /\ Stored
  /\ \E id \in CanvasIds \ {LegacyId}, name \in Names, order \in Nat, graph \in Graphs :
       /\ rows[id].status = "none"
       /\ Put(id, NewRow(name, order, graph))
       /\ acked' = acked \cup {[id |-> id, version |-> 1, graph |-> graph]}
  /\ UNCHANGED <<parent, offered>>

\* A write of the name or the position.
Touching ==
  /\ \E id \in CanvasIds, row \in Row :
       /\ <<row.status, row.graph, row.version>> =
            <<rows[id].status, rows[id].graph, rows[id].version>>
       /\ Put(id, row)
  /\ UNCHANGED <<acked, parent, offered>>

Retiring ==
  /\ \E id \in CanvasIds : rows[id].status = "active" /\ Put(id, RetiredRow(rows[id]))
  /\ UNCHANGED <<acked, parent, offered>>

Saving ==
  /\ \E id \in CanvasIds, graph \in Graphs :
       /\ rows[id].status = "active"
       /\ Put(id, SavedRow(rows[id], graph, rows[id].version))
       /\ acked' = acked \cup {[id |-> id, version |-> rows[id].version + 1,
                                graph |-> graph]}
  /\ UNCHANGED <<parent, offered>>

Dropping ==
  /\ Parent = "design" /\ Stored
  /\ parent'.graph = EmptyGraph
  /\ UNCHANGED <<rows, acked, offered>>

Offering ==
  /\ Parent = "attempt"
  /\ \E graph \in Graphs :
       /\ offered' = offered \cup {graph}
       /\ parent'.graph \in {graph, parent.graph}
  /\ UNCHANGED <<rows, acked>>

Effect ==
  \/ Undisturbed
  \/ Adopting
  \/ Opening
  \/ Touching
  \/ Retiring
  \/ Saving
  \/ Dropping
  \/ Offering

\* What the effects leave of the canvases that were stored before.
Growing ==
  /\ \A id \in CanvasIds : rows[id].status # "none" => rows'[id].status # "none"
  /\ rows'[LegacyId].status = "none" => \A id \in CanvasIds : rows'[id].status = "none"
  /\ offered \subseteq offered'

\* No effect loses the parent's graph or an acknowledged save.
LEMMA EffectKeeps ==
  ASSUME CanvasAssumption, Consistent, TypeOK', Effect
  PROVE  VersionsStart' /\ LegacyGraphKept' /\ AckedSavesKept' /\ Growing
<1>. USE DEF Growing, VersionsStart, LegacyGraphKept, AckedSavesKept
<1>1. /\ rows \in [CanvasIds -> Row] /\ rows' \in [CanvasIds -> Row]
      /\ LegacyId \in CanvasIds
      /\ acked \subseteq [id : CanvasIds, version : Nat, graph : Graphs]
      /\ VersionsStart /\ LegacyGraphKept /\ AckedSavesKept
      /\ rows[LegacyId].status = "none" => \A id \in CanvasIds : rows[id].status = "none"
      /\ \A id \in CanvasIds : rows[id].version \in Nat
  BY DEF Consistent, TypeOK, AdoptionOpen, CanvasAssumption, Row
<1>2. CASE Undisturbed
  BY <1>1, <1>2 DEF Undisturbed
<1>3. CASE Adopting
  <2>1. PICK graph \in offered : Put(LegacyId, LegacyRow(graph))
    BY <1>3 DEF Adopting
  <2>2. /\ rows'[LegacyId].status = "active"
        /\ rows'[LegacyId].version = 1 /\ rows'[LegacyId].graph = graph
        /\ \A id \in CanvasIds \ {LegacyId} : rows'[id] = rows[id]
    BY <1>1, <2>1 DEF Put, LegacyRow, NewRow
  <2>3. rows[LegacyId].version = 0
    BY <1>1, <1>3 DEF Adopting, Stored
  <2>4. \A ack \in acked : ack.id # LegacyId
    BY <1>1, <2>3
  <2>5. QED  BY <1>1, <1>3, <2>2, <2>4 DEF Adopting
<1>4. CASE Opening
  <2>1. PICK id \in CanvasIds \ {LegacyId}, name \in Names, order \in Nat, graph \in Graphs :
          /\ rows[id].status = "none"
          /\ Put(id, NewRow(name, order, graph))
          /\ acked' = acked \cup {[id |-> id, version |-> 1, graph |-> graph]}
    BY <1>4 DEF Opening
  <2>2. /\ rows'[id].status = "active"
        /\ rows'[id].version = 1 /\ rows'[id].graph = graph
        /\ \A other \in CanvasIds \ {id} : rows'[other] = rows[other]
    BY <1>1, <2>1 DEF Put, NewRow
  <2>3. \A ack \in acked : ack.id # id
    BY <1>1, <2>1
  <2>4. QED  BY <1>1, <1>4, <2>1, <2>2, <2>3 DEF Opening, Stored
<1>5. CASE Touching
  <2>1. \A id \in CanvasIds :
          /\ rows'[id].status = rows[id].status
          /\ rows'[id].graph = rows[id].graph
          /\ rows'[id].version = rows[id].version
    BY <1>1, <1>5 DEF Touching, Put
  <2>2. QED  BY <1>1, <1>5, <2>1 DEF Touching
<1>6. CASE Retiring
  <2>1. \A id \in CanvasIds :
          /\ rows'[id].status = "none" <=> rows[id].status = "none"
          /\ rows'[id].graph = rows[id].graph
          /\ rows'[id].version = rows[id].version
    BY <1>1, <1>6 DEF Retiring, Put, RetiredRow, Row
  <2>2. QED  BY <1>1, <1>6, <2>1 DEF Retiring
<1>7. CASE Saving
  <2>1. PICK id \in CanvasIds, graph \in Graphs :
          /\ rows[id].status = "active"
          /\ Put(id, SavedRow(rows[id], graph, rows[id].version))
          /\ acked' = acked \cup {[id |-> id, version |-> rows[id].version + 1,
                                   graph |-> graph]}
    BY <1>7 DEF Saving
  <2>2. /\ rows'[id].status = "active"
        /\ rows'[id].version = rows[id].version + 1 /\ rows'[id].graph = graph
        /\ \A other \in CanvasIds \ {id} : rows'[other] = rows[other]
    BY <1>1, <2>1 DEF Put, SavedRow, Row
  <2>3. rows[id].version >= 1
    BY <1>1, <2>1
  <2>4. \A ack \in acked : ack.id = id => ack.version <= rows[id].version
    BY <1>1
  <2>5. VersionsStart'
    BY <1>1, <2>1, <2>2, <2>3
  <2>6. LegacyGraphKept' /\ Growing
    BY <1>1, <1>7, <2>1, <2>2, <2>3 DEF Saving
  <2>7. AckedSavesKept'
    <3>1. \A ack \in acked :
            /\ rows'[ack.id].version >= ack.version
            /\ rows'[ack.id].version = ack.version => rows'[ack.id].graph = ack.graph
      BY <1>1, <2>2, <2>4
    <3>2. \A ack \in acked : ack.id = id => ack.version # rows[id].version + 1
      BY <1>1, <2>4
    <3>3. QED  BY <1>1, <2>1, <2>2, <3>1, <3>2
  <2>8. QED  BY <2>5, <2>6, <2>7
<1>8. CASE Dropping
  BY <1>1, <1>8 DEF Dropping, Stored
<1>9. CASE Offering
  BY <1>1, <1>9 DEF Offering
<1>10. QED
  BY <1>2, <1>3, <1>4, <1>5, <1>6, <1>7, <1>8, <1>9 DEF Effect

-----------------------------------------------------------------------------
(* Which effect each step has, and what it leaves its request relying on *)

\* The request goes on with what it knew of the parent, or ends.
NextRequest(h) ==
  \E request \in Request :
    /\ Continue(h, request)
    /\ Ready(request)'
    /\ request.pc # "idle" => /\ req[h].pc # "idle"
                              /\ request.legacy = req[h].legacy

\* A read that shows an active canvas comes from a workspace with its first canvas.
LEMMA ReadShowsAdoption ==
  ASSUME Consistent, CanvasAssumption, NEW view \in Readable, Active(view) # {}
  PROVE  Stored
  BY DEF Consistent, AdoptionOpen, Readable, Active, Stored, CanvasAssumption

LEMMA ReplyIsNext ==
  ASSUME CanvasAssumption, NEW h \in Handlers, Reply(h)
  PROVE  NextRequest(h)
<1>1. Idle \in Request /\ Ready(Idle)'
  BY IdleTyped DEF Ready, Idle
<1>2. QED  BY <1>1 DEF NextRequest, Reply, Idle

\* request is old, at step pc, with another name, position, content or list of moves.
Follows(request, old, pc) ==
  /\ request \in Request
  /\ request.pc = pc
  /\ request.op = old.op /\ request.id = old.id /\ request.legacy = old.legacy

LEMMA UpdatesFollow ==
  ASSUME NEW r \in Request, NEW pc \in Steps
  PROVE  /\ Follows([r EXCEPT !.pc = pc], r, pc)
         /\ \A graph \in Graphs : Follows([r EXCEPT !.graph = graph, !.pc = pc], r, pc)
         /\ \A name \in Names :
              /\ Follows([r EXCEPT !.name = name, !.pc = pc], r, pc)
              /\ \A order \in Nat :
                   Follows([r EXCEPT !.name = name, !.order = order, !.pc = pc], r, pc)
         /\ \A moves \in SUBSET Moves :
              Follows([r EXCEPT !.moves = moves, !.pc = pc], r, pc)
<1>1. Follows([r EXCEPT !.pc = pc], r, pc)
  BY RequestUpdates DEF Follows, Request
<1>2. ASSUME NEW graph \in Graphs
      PROVE  Follows([r EXCEPT !.graph = graph, !.pc = pc], r, pc)
  BY RequestUpdates DEF Follows, Request
<1>3. ASSUME NEW name \in Names
      PROVE  Follows([r EXCEPT !.name = name, !.pc = pc], r, pc)
  BY RequestUpdates DEF Follows, Request
<1>4. ASSUME NEW name \in Names, NEW order \in Nat
      PROVE  Follows([r EXCEPT !.name = name, !.order = order, !.pc = pc], r, pc)
  BY RequestUpdates DEF Follows, Request
<1>5. ASSUME NEW moves \in SUBSET Moves
      PROVE  Follows([r EXCEPT !.moves = moves, !.pc = pc], r, pc)
  BY RequestUpdates DEF Follows, Request
<1>. QED  BY <1>1, <1>2, <1>3, <1>4, <1>5

\* A step that moves on: to materialize_legacy, or in a workspace with its first canvas.
LEMMA ContinueIsNext ==
  ASSUME NEW h \in Handlers, NEW q \in Request, Continue(h, q),
         req[h].pc # "idle", q.legacy = req[h].legacy,
         Stored' \/ q.pc \in {"materialize", "adopt"},
         q.pc = "clear" \/ q.op \in {"legacyPut", "legacySave"} => Parent = "design",
         q.op \in {"create", "duplicate"} => q.id # LegacyId
  PROVE  NextRequest(h)
  BY DEF NextRequest, Ready, Stored

LEMMA FollowIsNext ==
  ASSUME NEW h \in Handlers, NEW q, NEW pc, Follows(q, req[h], pc), Continue(h, q),
         req[h].pc # "idle", Ready(req[h]), Stored' \/ pc \in {"materialize", "adopt"},
         pc = "clear" => Parent = "design"
  PROVE  NextRequest(h)
  BY ContinueIsNext DEF Follows, Ready

LEMMA GotoIsNext ==
  ASSUME TypeOK, NEW h \in Handlers, NEW pc \in Steps, Goto(h, pc),
         req[h].pc # "idle", Ready(req[h]), Stored' \/ pc \in {"materialize", "adopt"},
         pc = "clear" => Parent = "design"
  PROVE  NextRequest(h)
<1>1. Follows([req[h] EXCEPT !.pc = pc], req[h], pc)
  BY UpdatesFollow DEF TypeOK
<1>2. QED  BY <1>1, FollowIsNext DEF Goto

LEMMA HandleEffect ==
  ASSUME CanvasAssumption, Consistent, TypeOK', NEW h \in Handlers, Handle(h)
  PROVE  Effect /\ NextRequest(h) /\ lagged' = lagged
<1>. DEFINE r == req[h]
<1>1. /\ rows \in [CanvasIds -> Row] /\ LegacyId \in CanvasIds
      /\ r \in Request /\ Ready(r) /\ TypeOK
      /\ \A view \in Readable : view \in [CanvasIds -> Row]
  BY ReadableTyped DEF Consistent, TypeOK, CanvasAssumption
<1>2. /\ r.id \in CanvasIds /\ r.source \in CanvasIds
      /\ r.name \in Names /\ r.order \in Nat
      /\ r.graph \in Graphs /\ r.version \in Nat
      /\ r.legacy \in Graphs /\ r.moves \in SUBSET Moves
  BY <1>1, RequestFields
<1>3. ReadOnly => Undisturbed /\ lagged' = lagged /\ Effect /\ (Stored => Stored')
  BY DEF ReadOnly, Undisturbed, Effect, Stored
<1>4. AfterMaterialize(r.op) \in {"write", "list"}
  BY DEF AfterMaterialize
<1>5. {"materialize", "adopt", "list", "primary", "write", "move", "relist", "clear"}
        \subseteq Steps
  BY DEF Steps
<1>6. ~Stored => /\ \A id \in CanvasIds : rows[id].status = "none"
                 /\ r.pc # "idle" => r.legacy \in offered
  BY DEF Consistent, AdoptionOpen, Stored
<1>a. CASE DuplicateSource(h)
  <2>1. PICK graph \in Graphs :
          \/ Continue(h, [r EXCEPT !.graph = graph, !.pc = "materialize"])
          \/ Reply(h)
    BY <1>1, <1>2, <1>a DEF DuplicateSource, Row
  <2>2. r.pc = "source" /\ ReadOnly
    BY <1>a DEF DuplicateSource, At
  <2>3. Follows([r EXCEPT !.graph = graph, !.pc = "materialize"], r, "materialize")
    BY <1>1, <1>5, UpdatesFollow
  <2>4. NextRequest(h)
    BY <1>1, <2>1, <2>2, <2>3, FollowIsNext, ReplyIsNext
  <2>5. QED  BY <1>3, <2>2, <2>4
<1>b. CASE MaterializeList(h)
  <2>1. r.pc = "materialize" /\ ReadOnly
    BY <1>b DEF MaterializeList
  <2>2. CASE Goto(h, "adopt")
    BY <1>1, <1>3, <1>5, <2>1, <2>2, GotoIsNext
  <2>3. CASE Goto(h, AfterMaterialize(r.op)) /\ Stored
    BY <1>1, <1>3, <1>4, <1>5, <2>1, <2>3, GotoIsNext
  <2>4. QED  BY <1>b, <2>2, <2>3, ReadShowsAdoption DEF MaterializeList
<1>c. CASE MaterializePut(h)
  <2>1. /\ r.pc = "adopt" /\ lagged' = lagged
        /\ rows' = PutNew(rows, LegacyId, LegacyRow(r.legacy))
        /\ UNCHANGED <<parent, acked, offered>>
    BY <1>c DEF MaterializePut
  <2>2. Effect /\ Stored'
    <3>1. CASE Stored
      BY <2>1, <3>1 DEF PutNew, Stored, Effect, Undisturbed
    <3>2. CASE ~Stored
      <4>1. Put(LegacyId, LegacyRow(r.legacy))
        BY <2>1, <3>2 DEF PutNew, Put, Stored
      <4>2. Stored'
        BY <1>1, <4>1 DEF Put, Stored, LegacyRow, NewRow
      <4>3. QED  BY <1>6, <2>1, <3>2, <4>1, <4>2 DEF Adopting, Effect
    <3>3. QED  BY <3>1, <3>2
  <2>3. NextRequest(h)
    BY <1>1, <1>4, <1>5, <1>c, <2>1, <2>2, GotoIsNext DEF MaterializePut
  <2>4. QED  BY <2>1, <2>2, <2>3
<1>d. CASE BuildCanvas(h)
  <2>1. r.pc = "list" /\ r.op \in {"create", "duplicate"} /\ ReadOnly /\ Stored
    BY <1>1, <1>d DEF BuildCanvas, At, Ready, Stored
  <2>2. SUFFICES ASSUME NEW view \in Readable,
                        NEW name \in Deduped(r.name, NamesOf(view, Active(view))),
                        Continue(h, [r EXCEPT !.name = name, !.order = NextOrder(view),
                                              !.pc = "write"])
                 PROVE  NextRequest(h)
    BY <1>3, <1>d, <2>1, ReplyIsNext DEF BuildCanvas
  <2>3. name \in Names /\ NextOrder(view) \in Nat
    BY <1>1, <1>2, NextOrderNat DEF Deduped
  <2>4. Follows([r EXCEPT !.name = name, !.order = NextOrder(view), !.pc = "write"],
                r, "write")
    BY <1>1, <1>5, <2>3, UpdatesFollow
  <2>5. QED  BY <1>1, <1>3, <2>1, <2>2, <2>4, FollowIsNext
<1>e. CASE InsertCanvas(h)
  <2>1. /\ Stored /\ r.id \in CanvasIds \ {LegacyId}
        /\ Reply(h) /\ UNCHANGED <<lagged, parent, offered>>
    BY <1>1, <1>2, <1>e DEF InsertCanvas, At, Ready, Stored
  <2>2. ASSUME rows[r.id].status = "none"  PROVE Opening
    BY <1>2, <1>e, <2>1, <2>2 DEF InsertCanvas, PutNew, Put, Opening
  <2>3. ASSUME rows[r.id].status # "none"  PROVE Undisturbed
    BY <1>e, <2>1, <2>3 DEF InsertCanvas, PutNew, Undisturbed
  <2>4. QED  BY <2>1, <2>2, <2>3, ReplyIsNext DEF Effect
<1>f. CASE RenameList(h)
  <2>1. r.pc = "list" /\ ReadOnly /\ Stored
    BY <1>1, <1>f DEF RenameList, At, Ready, Stored
  <2>2. PICK name \in Names : Continue(h, [r EXCEPT !.name = name, !.pc = "write"])
    BY <1>2, <1>f DEF RenameList, Deduped
  <2>3. Follows([r EXCEPT !.name = name, !.pc = "write"], r, "write")
    BY <1>1, <1>5, UpdatesFollow
  <2>4. NextRequest(h)
    BY <1>1, <1>3, <2>1, <2>2, <2>3, FollowIsNext
  <2>5. QED  BY <1>3, <2>1, <2>4
<1>g. CASE RenameWrite(h)
  <2>1. Reply(h) /\ UNCHANGED <<lagged, parent, acked, offered>>
    BY <1>g DEF RenameWrite
  <2>2. /\ RenamedRow(rows[r.id], r.name) \in Row
        /\ RenamedRow(rows[r.id], r.name).status = rows[r.id].status
        /\ RenamedRow(rows[r.id], r.name).graph = rows[r.id].graph
        /\ RenamedRow(rows[r.id], r.name).version = rows[r.id].version
    BY <1>1, <1>2 DEF RenamedRow, Row
  <2>3. Undisturbed \/ Touching
    BY <1>2, <1>g, <2>1, <2>2 DEF RenameWrite, Undisturbed, Touching, Put
  <2>4. QED  BY <2>1, <2>3, ReplyIsNext DEF Effect
<1>h. CASE RelabelWrite(h)
  BY <1>3, <1>h, ReplyIsNext DEF RelabelWrite
<1>i. CASE ReorderList(h)
  <2>1. r.pc = "list" /\ ReadOnly /\ Stored
    BY <1>1, <1>i DEF ReorderList, At, Ready, Stored
  <2>2. SUFFICES ASSUME NEW view \in Readable, NEW position \in TabOrders(view),
                        NEW pc \in {"relist", "move"},
                        Continue(h, [r EXCEPT !.moves = MovesTo(view, position), !.pc = pc])
                 PROVE  NextRequest(h)
    BY <1>3, <1>i, <2>1, ReplyIsNext DEF ReorderList
  <2>3. Follows([r EXCEPT !.moves = MovesTo(view, position), !.pc = pc],
                r, pc)
    BY <1>1, <1>5, MovesTyped, UpdatesFollow
  <2>4. QED  BY <1>1, <1>3, <2>1, <2>2, <2>3, FollowIsNext
<1>j. CASE ReorderMove(h)
  <2>1. PICK move \in r.moves, pc \in {"relist", "move"} :
          /\ rows' = IF Writable(rows[move.id])
                     THEN [rows EXCEPT ![move.id] = MovedRow(rows[move.id], move.order)]
                     ELSE rows
          /\ Continue(h, [r EXCEPT !.moves = r.moves \ {move}, !.pc = pc])
    BY <1>j DEF ReorderMove
  <2>2. r.pc = "move" /\ Stored /\ UNCHANGED <<lagged, parent, acked, offered>>
    BY <1>1, <1>j DEF ReorderMove, At, Ready, Stored
  <2>3. move.id \in CanvasIds /\ move.order \in Nat
    BY <1>2 DEF Moves
  <2>4. /\ MovedRow(rows[move.id], move.order) \in Row
        /\ MovedRow(rows[move.id], move.order).status = rows[move.id].status
        /\ MovedRow(rows[move.id], move.order).graph = rows[move.id].graph
        /\ MovedRow(rows[move.id], move.order).version = rows[move.id].version
    BY <1>1, <2>3 DEF MovedRow, Row
  <2>5. Undisturbed \/ Touching
    BY <2>1, <2>2, <2>3, <2>4 DEF Undisturbed, Touching, Put
  <2>6. Effect /\ Stored'
    <3>1. Effect
      BY <2>5 DEF Effect
    <3>2. QED  BY <1>1, <2>2, <3>1, EffectKeeps DEF Growing, Stored
  <2>7. Follows([r EXCEPT !.moves = r.moves \ {move}, !.pc = pc], r, pc)
    BY <1>1, <1>2, <1>5, UpdatesFollow
  <2>8. NextRequest(h)
    BY <1>1, <2>1, <2>2, <2>6, <2>7, FollowIsNext
  <2>9. QED  BY <2>2, <2>6, <2>8
<1>k. CASE DeleteList(h)
  <2>1. r.pc = "list" /\ ReadOnly /\ Stored
    BY <1>1, <1>k DEF DeleteList, At, Ready, Stored
  <2>2. Goto(h, "write") \/ Reply(h)
    BY <1>k DEF DeleteList
  <2>3. QED  BY <1>1, <1>3, <1>5, <2>1, <2>2, GotoIsNext, ReplyIsNext
<1>l. CASE DeleteWrite(h)
  <2>1. r.pc = "write" /\ Stored /\ UNCHANGED <<lagged, parent, acked, offered>>
    BY <1>1, <1>l DEF DeleteWrite, At, Ready, Stored
  <2>2. Undisturbed \/ Retiring
    BY <1>2, <1>l, <2>1 DEF DeleteWrite, Undisturbed, Retiring, Put, Writable
  <2>3. Effect /\ Stored'
    <3>1. Effect
      BY <2>2 DEF Effect
    <3>2. QED  BY <1>1, <2>1, <3>1, EffectKeeps DEF Growing, Stored
  <2>4. Goto(h, "relist") \/ Reply(h)
    BY <1>l DEF DeleteWrite, Finish
  <2>5. NextRequest(h)
    BY <1>1, <1>5, <2>1, <2>3, <2>4, GotoIsNext, ReplyIsNext
  <2>6. QED  BY <2>1, <2>3, <2>5
<1>m. CASE LegacyPutList(h)
  <2>1. r.pc = "list" /\ ReadOnly /\ Stored /\ r.op = "legacyPut"
    BY <1>1, <1>m DEF LegacyPutList, At, Ready, Stored
  <2>2. SUFFICES ASSUME NEW view \in Readable, NEW id \in Primaries(view),
                        Continue(h, [r EXCEPT !.id = id, !.pc = "primary"])
                 PROVE  NextRequest(h)
    BY <1>3, <1>m, <2>1, ReplyIsNext DEF LegacyPutList
  <2>3. id \in CanvasIds
    BY DEF Primaries, Active
  <2>4. [r EXCEPT !.id = id, !.pc = "primary"] \in Request
    BY <1>1, <1>5, <2>3, RequestUpdates
  <2>5. /\ [r EXCEPT !.id = id, !.pc = "primary"].legacy = r.legacy
        /\ [r EXCEPT !.id = id, !.pc = "primary"].op = r.op
        /\ [r EXCEPT !.id = id, !.pc = "primary"].pc = "primary"
    BY <1>1 DEF Request
  <2>6. Parent = "design"
    BY <1>1, <2>1 DEF Ready
  <2>7. QED  BY <1>3, <2>1, <2>2, <2>4, <2>5, <2>6, ContinueIsNext
<1>n. CASE LegacyPutPrimary(h)
  <2>1. r.pc = "primary" /\ ReadOnly /\ Parent = "design"
    BY <1>1, <1>n DEF LegacyPutPrimary, At, Ready
  <2>2. SUFFICES ASSUME NEW view \in Readable,
                        Continue(h, [r EXCEPT !.op = "legacySave", !.pc = "materialize",
                                              !.version = view[r.id].version])
                 PROVE  NextRequest(h)
    BY <1>3, <1>n, <2>1, ReplyIsNext DEF LegacyPutPrimary
  <2>3. view[r.id].version \in Nat
    BY <1>1, <1>2 DEF Row
  <2>4. [r EXCEPT !.op = "legacySave", !.pc = "materialize",
                  !.version = view[r.id].version] \in Request
    BY <1>1, <1>5, <2>3, RequestUpdates
  <2>5. LET q == [r EXCEPT !.op = "legacySave", !.pc = "materialize",
                           !.version = view[r.id].version]
        IN  q.legacy = r.legacy /\ q.op = "legacySave" /\ q.pc = "materialize"
    BY <1>1 DEF Request
  <2>6. QED  BY <2>1, <2>2, <2>4, <2>5, ContinueIsNext
<1>o. CASE SaveWrite(h)
  <2>1. /\ r.pc = "write" /\ r.op \in {"save", "legacySave"}
        /\ UNCHANGED <<lagged, parent, offered>>
    BY <1>o DEF SaveWrite, At
  <2>2. CASE ~SaveAccepted(rows[r.id], r.version)
    BY <1>o, <2>1, <2>2, ReplyIsNext DEF SaveWrite, Undisturbed, Effect
  <2>3. CASE SaveAccepted(rows[r.id], r.version)
    <3>1. rows[r.id].status = "active" /\ rows[r.id].version = r.version
      BY <2>3 DEF SaveAccepted
    <3>2. Stored
      BY <1>2, <1>6, <3>1
    <3>3. Saving
      BY <1>2, <1>o, <2>1, <2>3, <3>1 DEF SaveWrite, Saving, Put
    <3>4. Effect /\ Stored'
      <4>1. Effect
        BY <3>3 DEF Effect
      <4>2. QED  BY <1>1, <3>2, <4>1, EffectKeeps DEF Growing, Stored
    <3>5. \/ Goto(h, "relist") \/ Reply(h)
          \/ Goto(h, "clear") /\ r.op = "legacySave"
      BY <1>o, <2>1, <2>3 DEF SaveWrite, Finish
    <3>6. r.op = "legacySave" => Parent = "design"
      BY <1>1 DEF Ready
    <3>7. NextRequest(h)
      BY <1>1, <1>5, <2>1, <3>4, <3>5, <3>6, GotoIsNext, ReplyIsNext
    <3>8. QED  BY <2>1, <3>4, <3>7
  <2>4. QED  BY <2>2, <2>3
<1>p. CASE Relist(h)
  <2>1. r.pc = "relist" /\ ReadOnly /\ Stored
    BY <1>1, <1>p DEF Relist, Ready, Stored
  <2>2. SUFFICES ASSUME NEW view \in Readable, NEW id \in Primaries(view),
                        Parent = "design",
                        Continue(h, [r EXCEPT !.graph = view[id].graph, !.pc = "clear"])
                 PROVE  NextRequest(h)
    BY <1>3, <1>p, <2>1, ReplyIsNext DEF Relist
  <2>3. view[id].graph \in Graphs
    BY <1>1 DEF Primaries, Active, Row
  <2>4. Follows([r EXCEPT !.graph = view[id].graph, !.pc = "clear"],
                r, "clear")
    BY <1>1, <1>5, <2>3, UpdatesFollow
  <2>5. QED  BY <1>1, <1>3, <2>1, <2>2, <2>4, FollowIsNext
<1>q. CASE ClearParent(h)
  <2>1. Stored /\ Parent = "design"
    BY <1>1, <1>q DEF ClearParent, Ready, Stored
  <2>2. /\ parent'.graph = EmptyGraph /\ Reply(h)
        /\ UNCHANGED <<rows, lagged, acked, offered>>
    BY <1>q DEF ClearParent
  <2>3. QED  BY <2>1, <2>2, ReplyIsNext DEF Dropping, Effect
<1>z. QED
  BY <1>a, <1>b, <1>c, <1>d, <1>e, <1>f, <1>g, <1>h, <1>i, <1>j, <1>k, <1>l, <1>m,
     <1>n, <1>o, <1>p, <1>q DEF Handle

-----------------------------------------------------------------------------
(* The inductive invariant *)

\* The request of h after a step: what Consistent asks of it.
Sound(h) ==
  \E request \in Request :
    /\ Continue(h, request)
    /\ Ready(request)'
    /\ request.pc # "idle" => Stored' \/ request.legacy \in offered'

\* A request that arrives knows what the parent offers.
LEMMA BeginSound ==
  ASSUME CanvasAssumption, Consistent, TypeOK', NEW h \in Handlers, Begin(h)
  PROVE  Effect /\ Sound(h) /\ lagged' = lagged
<1>1. ASSUME NEW r, Arriving(r), Arrive(h, r)
      PROVE  Effect /\ Sound(h) /\ lagged' = lagged
  <2>1. PICK graph \in LegacyReads :
          /\ Continue(h, [r EXCEPT !.legacy = graph])
          /\ offered' = IF Parent = "attempt" THEN offered \cup {graph} ELSE offered
    BY <1>1 DEF Arrive
  <2>2. UNCHANGED <<rows, lagged, parent, acked>>
    BY <1>1 DEF Arrive
  <2>3. graph \in Graphs
    BY DEF LegacyReads, Consistent, TypeOK, CanvasAssumption
  <2>4. Effect
    <3>1. CASE Parent = "attempt"
      BY <2>1, <2>2, <2>3, <3>1 DEF Offering, Effect
    <3>2. CASE Parent # "attempt"
      BY <2>1, <2>2, <3>2 DEF Undisturbed, Effect
    <3>3. QED  BY <3>1, <3>2
  <2>5. Stored' \/ graph \in offered'
    <3>1. CASE Parent = "attempt"
      BY <2>1, <3>1
    <3>2. CASE Parent # "attempt"
      BY <2>1, <2>2, <3>2 DEF LegacyReads, Consistent, LegacyGraphKept, Stored
    <3>3. QED  BY <3>1, <3>2
  <2>6. PICK q \in Request : q = [r EXCEPT !.legacy = graph]
    BY <1>1, <2>3 DEF Arriving, Request
  <2>7. q.op = r.op /\ q.pc = r.pc /\ q.id = r.id /\ q.legacy = graph
    BY <1>1, <2>6 DEF Arriving, Request
  <2>8. Ready(q)'
    BY <1>1, <2>7 DEF Arriving, Ready
  <2>9. QED  BY <2>1, <2>2, <2>4, <2>5, <2>6, <2>7, <2>8 DEF Sound
<1>2. QED  BY <1>1, BeginArrives DEF Consistent, TypeOK

\* What the effect of a step and the request it leaves say together.
LEMMA SoundKeeps ==
  ASSUME CanvasAssumption, Consistent, TypeOK', Effect,
         lagged' = lagged \/ lagged' = rows,
         UNCHANGED req \/ \E h \in Handlers : Sound(h)
  PROVE  Consistent'
<1>1. VersionsStart' /\ LegacyGraphKept' /\ AckedSavesKept' /\ Growing
  BY EffectKeeps
<1>2. \A id \in CanvasIds : lagged'[id].status # "none" => rows'[id].status # "none"
  BY <1>1 DEF Growing, Consistent, AdoptionOpen
<1>3. Stored => Stored'
  BY <1>1 DEF Growing, Stored, CanvasAssumption
<1>4. \A h \in Handlers :
        /\ Ready(req[h]) /\ req[h] \in Request
        /\ req[h].pc # "idle" => Stored' \/ req[h].legacy \in offered'
  BY <1>1, <1>3 DEF Consistent, TypeOK, AdoptionOpen, Growing, Stored
<1>5. ASSUME NEW h \in Handlers, req'[h] = req[h]
      PROVE  Ready(req[h])' /\ (req'[h].pc # "idle" => Stored' \/ req'[h].legacy \in offered')
  BY <1>3, <1>4, <1>5 DEF Ready, Stored
<1>6. ASSUME NEW h \in Handlers
      PROVE  Ready(req[h])' /\ (req'[h].pc # "idle" => Stored' \/ req'[h].legacy \in offered')
  <2>1. CASE UNCHANGED req
    BY <1>5, <2>1
  <2>2. ASSUME NEW k \in Handlers, Sound(k)
        PROVE  Ready(req[h])' /\ (req'[h].pc # "idle" => Stored' \/ req'[h].legacy \in offered')
    <3>1. PICK q \in Request :
            /\ req' = [req EXCEPT ![k] = q]
            /\ Ready(q)'
            /\ q.pc # "idle" => Stored' \/ q.legacy \in offered'
      BY <2>2 DEF Sound, Continue
    <3>2. req \in [Handlers -> Request]
      BY DEF Consistent, TypeOK
    <3>3. CASE h = k
      <4>1. req'[h] = q
        BY <3>1, <3>2, <3>3
      <4>2. QED  BY <3>1, <4>1 DEF Ready
    <3>4. CASE h # k
      BY <1>5, <3>1, <3>2, <3>4
    <3>5. QED  BY <3>3, <3>4
  <2>3. QED  BY <2>1, <2>2
<1>7. AdoptionOpen'
  BY <1>1, <1>2, <1>6 DEF AdoptionOpen, Growing, Stored
<1>8. QED  BY <1>1, <1>6, <1>7 DEF Consistent

\* What every step does: an effect on the canvases, and requests that stay sound.
LEMMA StepKeeps ==
  ASSUME CanvasAssumption, Consistent, TypeOK', Next
  PROVE  Effect /\ Consistent'
<1>1. ASSUME NEW h \in Handlers, Begin(h)
      PROVE  Effect /\ Consistent'
  BY <1>1, BeginSound, SoundKeeps
<1>2. ASSUME NEW h \in Handlers, Handle(h)
      PROVE  Effect /\ Consistent'
  <2>1. Effect /\ NextRequest(h) /\ lagged' = lagged
    BY <1>2, HandleEffect
  <2>2. PICK q \in Request :
          /\ Continue(h, q)
          /\ Ready(q)'
          /\ q.pc # "idle" => req[h].pc # "idle" /\ q.legacy = req[h].legacy
    BY <2>1 DEF NextRequest
  <2>3. Growing
    BY <2>1, EffectKeeps
  <2>4. q.pc # "idle" => Stored' \/ q.legacy \in offered'
    BY <2>2, <2>3 DEF Consistent, AdoptionOpen, Growing, Stored, CanvasAssumption
  <2>5. Sound(h)
    BY <2>2, <2>4 DEF Sound
  <2>6. QED  BY <2>1, <2>5, SoundKeeps
<1>3. ASSUME NEW h \in Handlers, Abort(h)
      PROVE  Effect /\ Consistent'
  <2>1. Reply(h) /\ lagged' = lagged /\ Effect
    BY <1>3 DEF Abort, ReadOnly, Undisturbed, Effect
  <2>2. Sound(h)
    BY <2>1, ReplyIsNext, IdleTyped DEF Sound, Reply, Ready, Idle
  <2>3. QED  BY <2>1, <2>2, SoundKeeps
<1>4. ASSUME Replicate
      PROVE  Effect /\ Consistent'
  BY <1>4, SoundKeeps DEF Replicate, Undisturbed, Effect
<1>5. ASSUME AttemptSaved
      PROVE  Effect /\ Consistent'
  <2>1. Effect
    <3>1. PICK graph \in Graphs :
            /\ parent' = [graph |-> graph, counted |-> graph]
            /\ offered' = offered \cup {graph}
      BY <1>5 DEF AttemptSaved
    <3>2. QED  BY <1>5, <3>1 DEF AttemptSaved, Offering, Effect
  <2>2. lagged' = lagged /\ UNCHANGED req
    BY <1>5 DEF AttemptSaved
  <2>3. QED  BY <2>1, <2>2, SoundKeeps
<1>6. ASSUME Rest
      PROVE  Effect /\ Consistent'
  <2>1. Effect /\ lagged' = lagged /\ UNCHANGED req
    BY <1>6 DEF Rest, vars, Undisturbed, Effect
  <2>2. QED  BY <2>1, SoundKeeps
<1>7. QED
  BY <1>1, <1>2, <1>3, <1>4, <1>5, <1>6 DEF Next

\* The reads, the stages of the requests and the parent always agree.
THEOREM ConsistentCorrect == Spec => []Consistent
<1>. USE CanvasAssumption
<1>1. Init => Consistent
  <2>. SUFFICES ASSUME Init PROVE Consistent
    OBVIOUS
  <2>1. TypeOK
    BY IdleTyped DEF Init, TypeOK, NoRow, Row, CanvasAssumption
  <2>2. AdoptionOpen /\ \A h \in Handlers : Ready(req[h])
    BY DEF Init, AdoptionOpen, Ready, NoRow, Idle, CanvasAssumption
  <2>3. VersionsStart /\ LegacyGraphKept /\ AckedSavesKept
    BY DEF Init, VersionsStart, LegacyGraphKept, AckedSavesKept, NoRow, CanvasAssumption
  <2>4. QED  BY <2>1, <2>2, <2>3 DEF Consistent
<1>2. Consistent /\ TypeOK' /\ [Next]_vars => Consistent'
  <2>. SUFFICES ASSUME Consistent, TypeOK', [Next]_vars PROVE Consistent'
    OBVIOUS
  <2>1. CASE Next
    BY <2>1, StepKeeps
  <2>2. CASE UNCHANGED vars
    BY <2>2 DEF vars, Consistent, TypeOK, AdoptionOpen, Ready, VersionsStart,
                LegacyGraphKept, AckedSavesKept
  <2>3. QED  BY <2>1, <2>2
<1>3. QED  BY <1>1, <1>2, TypeCorrect, PTL DEF Spec

\* The graph from before the workspace had canvases is never lost, whatever writes
\* materialize it, clear the parent, lag or stop concurrently.
THEOREM LegacyGraphIsKept == Spec => []LegacyGraphKept
<1>1. Consistent => LegacyGraphKept
  BY DEF Consistent
<1>2. QED  BY <1>1, ConsistentCorrect, PTL

\* A save that a client was told is stored is replaced only by a save of the next version.
THEOREM AckedSavesAreKept == Spec => []AckedSavesKept
<1>1. Consistent => AckedSavesKept
  BY DEF Consistent
<1>2. QED  BY <1>1, ConsistentCorrect, PTL

-----------------------------------------------------------------------------
(* Refinement *)

\* The canvases of CanvasStore, as ImplementsStore reads them off the rows.
Canvases ==
  [id \in CanvasIds |-> [status |-> rows[id].status,
                         graph |-> rows[id].graph,
                         version |-> rows[id].version]]

\* Each effect is an action of CanvasStore, or changes nothing that it sees.
LEMMA EffectRefines ==
  ASSUME CanvasAssumption, Consistent, TypeOK', Effect
  PROVE  Store!Next \/ UNCHANGED <<Canvases, parent.graph, offered>>
<1>1. /\ rows \in [CanvasIds -> Row] /\ rows' \in [CanvasIds -> Row]
      /\ LegacyId \in CanvasIds /\ offered \subseteq Graphs
  BY DEF Consistent, TypeOK, CanvasAssumption
<1>2. ASSUME NEW id \in CanvasIds, NEW row \in Row, Put(id, row)
      PROVE  Canvases' = [Canvases EXCEPT ![id] = [status |-> row.status,
                                                   graph |-> row.graph,
                                                   version |-> row.version]]
  BY <1>1, <1>2 DEF Put, Canvases
<1>3. CASE Undisturbed
  BY <1>3 DEF Undisturbed, Canvases
<1>4. CASE Adopting
  <2>1. PICK graph \in offered : Put(LegacyId, LegacyRow(graph))
    BY <1>4 DEF Adopting
  <2>2. Canvases' = [Canvases EXCEPT ![LegacyId] =
                       [status |-> "active", graph |-> graph, version |-> 1]]
    BY <1>1, <1>2, <2>1, NewRowTyped DEF LegacyRow, NewRow, CanvasAssumption
  <2>3. Canvases[LegacyId].status = "none"
    BY <1>1, <1>4 DEF Adopting, Stored, Canvases
  <2>4. Store!Adopt
    BY <1>4, <2>1, <2>2, <2>3 DEF Adopting, Store!Adopt, Store!Born, Canvases
  <2>5. QED  BY <2>4 DEF Store!Next
<1>5. CASE Opening
  <2>1. PICK id \in CanvasIds \ {LegacyId}, name \in Names, order \in Nat, graph \in Graphs :
          rows[id].status = "none" /\ Put(id, NewRow(name, order, graph))
    BY <1>5 DEF Opening
  <2>2. Canvases' = [Canvases EXCEPT ![id] =
                       [status |-> "active", graph |-> graph, version |-> 1]]
    BY <1>1, <1>2, <2>1, NewRowTyped DEF NewRow
  <2>3. Canvases[id].status = "none" /\ Canvases[LegacyId].status # "none"
    BY <1>1, <1>5, <2>1 DEF Opening, Stored, Canvases
  <2>4. Store!Open(id)
    BY <1>5, <2>1, <2>2, <2>3
       DEF Opening, Store!Open, Store!Adopted, Store!Born, Canvases
  <2>5. QED  BY <2>4 DEF Store!Next
<1>6. CASE Touching
  <2>1. \A id \in CanvasIds :
          /\ rows'[id].status = rows[id].status
          /\ rows'[id].graph = rows[id].graph
          /\ rows'[id].version = rows[id].version
    BY <1>1, <1>6 DEF Touching, Put
  <2>2. QED  BY <1>6, <2>1 DEF Touching, Canvases
<1>7. CASE Retiring
  <2>1. PICK id \in CanvasIds : rows[id].status = "active" /\ Put(id, RetiredRow(rows[id]))
    BY <1>7 DEF Retiring
  <2>2. RetiredRow(rows[id]) \in Row
    BY <1>1, RowUpdates
  <2>3. /\ RetiredRow(rows[id]).status = "deleted"
        /\ RetiredRow(rows[id]).graph = rows[id].graph
        /\ RetiredRow(rows[id]).version = rows[id].version
    BY <1>1 DEF RetiredRow, Row
  <2>4. Canvases' = [Canvases EXCEPT ![id].status = "deleted"]
    <3>1. Canvases[id] = [status |-> rows[id].status, graph |-> rows[id].graph,
                          version |-> rows[id].version]
      BY DEF Canvases
    <3>2. [Canvases[id] EXCEPT !.status = "deleted"] =
            [status |-> "deleted", graph |-> rows[id].graph, version |-> rows[id].version]
      BY <3>1
    <3>3. QED  BY <1>2, <2>1, <2>2, <2>3, <3>2
  <2>5. Store!Retire(id)
    BY <1>7, <2>1, <2>4 DEF Retiring, Store!Retire, Canvases
  <2>6. QED  BY <2>5 DEF Store!Next
<1>8. CASE Saving
  <2>1. PICK id \in CanvasIds, graph \in Graphs :
          /\ rows[id].status = "active"
          /\ Put(id, SavedRow(rows[id], graph, rows[id].version))
    BY <1>8 DEF Saving
  <2>2. rows[id].version \in Nat
    BY <1>1 DEF Row
  <2>3. SavedRow(rows[id], graph, rows[id].version) \in Row
    BY <1>1, <2>2, RowUpdates
  <2>4. LET row == SavedRow(rows[id], graph, rows[id].version)
        IN  /\ row.status = rows[id].status /\ row.graph = graph
            /\ row.version = rows[id].version + 1
    BY <1>1 DEF SavedRow, Row
  <2>5. Canvases' = [Canvases EXCEPT ![id] =
                       [status |-> "active", graph |-> graph,
                        version |-> Canvases[id].version + 1]]
    <3>1. Canvases[id].version = rows[id].version
      BY DEF Canvases
    <3>2. Canvases' = [Canvases EXCEPT ![id] =
                         [status |-> "active", graph |-> graph,
                          version |-> rows[id].version + 1]]
      BY <1>2, <2>1, <2>3, <2>4
    <3>3. QED  BY <3>1, <3>2
  <2>6. Store!Save(id)
    BY <1>8, <2>1, <2>5 DEF Saving, Store!Save, Canvases
  <2>7. QED  BY <2>6 DEF Store!Next
<1>9. CASE Dropping
  <2>1. Store!Drop
    BY <1>1, <1>9 DEF Dropping, Stored, Store!Drop, Store!Adopted, Canvases
  <2>2. QED  BY <2>1 DEF Store!Next
<1>10. CASE Offering
  <2>1. Store!Offer
    BY <1>10 DEF Offering, Store!Offer, Canvases
  <2>2. QED  BY <2>1 DEF Store!Next
<1>11. QED
  BY <1>3, <1>4, <1>5, <1>6, <1>7, <1>8, <1>9, <1>10 DEF Effect

\* The workspace keeps the promise of CanvasStore: every step of every interleaving is
\* one of its actions, or changes nothing that it speaks of.
THEOREM WorkspaceImplementsStore == Spec => ImplementsStore
<1>. USE CanvasAssumption
<1>1. Init => Store!Init
  BY DEF Init, NoRow, Store!Init, Store!Unborn
<1>2. Consistent /\ TypeOK' /\ [Next]_vars => [Store!Next]_(Store!vars)
  <2>. SUFFICES ASSUME Consistent, TypeOK', [Next]_vars
                PROVE  [Store!Next]_(Store!vars)
    OBVIOUS
  <2>1. CASE Next
    BY <2>1, StepKeeps, EffectRefines DEF Store!vars, Canvases
  <2>2. CASE UNCHANGED vars
    BY <2>2 DEF vars, Store!vars
  <2>3. QED  BY <2>1, <2>2
<1>3. QED
  BY <1>1, <1>2, TypeCorrect, ConsistentCorrect, PTL DEF Spec, ImplementsStore, Store!Spec

-----------------------------------------------------------------------------
(* A workspace that one request at a time works on *)

\* A finite set of numbers has a greatest one.
LEMMA GreatestExists ==
  ASSUME NEW S \in SUBSET Nat, IsFiniteSet(S), S # {}
  PROVE  \E m \in S : \A x \in S : x <= m
<1>. DEFINE Above(x) == {y \in S : y > x}
            T == {Cardinality(Above(x)) : x \in S}
            Less == {p \in Nat \X Nat : p[1] < p[2]}
<1>1. \A x \in S : IsFiniteSet(Above(x)) /\ Cardinality(Above(x)) \in Nat
  BY FS_Subset, FS_CardinalityType
<1>2. T \subseteq Nat /\ T # {}
  BY <1>1
<1>3. IsWellFoundedOn(Less, Nat)
  BY NatLessThanWellFounded DEF OpToRel
<1>4. PICK n \in T : \A k \in T : ~(<<k, n>> \in Less)
  <2>. HIDE DEF T, Less
  <2>. QED  BY <1>2, <1>3, WFMin
<1>5. \A k \in T : ~(k < n)
  BY <1>2, <1>4
<1>6. PICK m \in S : n = Cardinality(Above(m))
  BY <1>4
<1>7. ASSUME NEW y \in S, y > m
      PROVE  FALSE
  <2>1. Above(y) \subseteq Above(m) /\ y \in Above(m) /\ y \notin Above(y)
    <3>1. S \subseteq Nat /\ y \in Nat /\ m \in Nat
      OBVIOUS
    <3>2. ASSUME NEW x \in S, x > y PROVE x > m
      <4>1. x \in Nat
        BY <3>1
      <4>. QED  BY <1>7, <3>1, <3>2, <4>1
    <3>3. ~(y > y)
      BY <3>1
    <3>. QED  BY <1>7, <3>2, <3>3
  <2>2. Cardinality(Above(y)) \in T
    OBVIOUS
  <2>. HIDE DEF Above, T
  <2>3. Cardinality(Above(y)) <= Cardinality(Above(m)) /\ Above(y) # Above(m)
    BY <1>1, <2>1, FS_Subset
  <2>4. Cardinality(Above(y)) < Cardinality(Above(m))
    BY <1>1, <2>1, <2>3, FS_Subset
  <2>. QED  BY <1>5, <1>6, <2>2, <2>4
<1>8. \A x \in S : x <= m
  BY <1>7
<1>. QED  BY <1>8

\* A new canvas comes after all others.
LEMMA NextOrderIsLast ==
  ASSUME CanvasAssumption, NEW view \in [CanvasIds -> Row]
  PROVE  \A id \in Active(view) : view[id].order < NextOrder(view)
<1>. DEFINE S == {view[id].order : id \in Active(view)}
<1>1. S \in SUBSET Nat /\ IsFiniteSet(Active(view))
  <2>1. Active(view) \subseteq CanvasIds
    BY DEF Active
  <2>. QED  BY <2>1, FS_Subset DEF CanvasAssumption, Row
<1>2. IsFiniteSet(S)
  <2>. DEFINE f == [id \in Active(view) |-> view[id].order]
  <2>1. f \in Surjection(Active(view), S)
    BY DEF Surjection
  <2>. QED  BY <1>1, <2>1, FS_Surjection
<1>3. CASE Active(view) = {}
  BY <1>3
<1>4. CASE Active(view) # {}
  <2>1. S # {}
    BY <1>4
  <2>2. LastOrders(view) # {} /\ LastOrders(view) \subseteq Nat
    <3>1. \E m \in S : \A x \in S : x <= m
      <4>. HIDE DEF S
      <4>. QED  BY <1>1, <1>2, <2>1, GreatestExists
    <3>. QED  BY <1>1, <3>1 DEF LastOrders
  <2>3. PICK o \in LastOrders(view) : NextOrder(view) = 1 + o
    BY <2>2 DEF NextOrder
  <2>4. \A id \in Active(view) : view[id].order <= o /\ view[id].order \in Nat
    BY <1>1, <2>3 DEF LastOrders
  <2>. QED  BY <2>2, <2>3, <2>4
<1>. QED  BY <1>3, <1>4

\* What a request that is waiting, or has only begun, can rely on.
LEMMA InTurnIdle ==
  ASSUME NEW r, r.pc \notin {"move", "relist", "clear", "primary", "write", "adopt"},
         r.op # "legacySave", OrdersDistinct,
         Parent = "design" => CountsRight,
         r.pc = "idle" \/ (Parent = "design" /\ Active(rows) = {} => r.legacy = parent.graph)
  PROVE  InTurn(r)
  BY DEF InTurn

\* The workspace is left alone, and the request goes on.
LEMMA OnlyRequest ==
  ASSUME TurnsTaken, UNCHANGED <<rows, parent>>, NEW h \in Handlers, Handlers = {h},
         req \in [Handlers -> Request], NEW r \in Request, Continue(h, r), InTurn(r)
  PROVE  TurnsTaken'
<1>1. req'[h] = r
  BY DEF Continue
<1>2. InTurn(r)'
  BY DEF InTurn, OrdersDistinct, CountsRight
<1>3. NamesDistinct' /\ (Active(rows)' = {} => rows'[LegacyId].status = "none")
  BY DEF TurnsTaken, NamesDistinct, Active
<1>. QED  BY <1>1, <1>2, <1>3 DEF TurnsTaken

\* A request that ends without a write leaves the workspace in order.
LEMMA EndsInOrder ==
  ASSUME CanvasAssumption, TurnsTaken, UNCHANGED <<rows, parent>>,
         NEW h \in Handlers, Handlers = {h}, req \in [Handlers -> Request], Reply(h),
         req[h].pc \notin {"move", "clear"},
         req[h].pc = "relist" => Parent = "attempt"
  PROVE  TurnsTaken'
<1>1. Idle \in Request /\ Idle.pc = "idle" /\ Idle.op = "none"
  BY IdleTyped DEF Idle
<1>2. InTurn(Idle)
  <2>1. InTurn(req[h])
    BY DEF TurnsTaken
  <2>2. OrdersDistinct /\ (Parent = "design" => CountsRight)
    BY <2>1 DEF InTurn
  <2>. QED  BY <1>1, <2>2, InTurnIdle
<1>. QED  BY <1>1, <1>2, OnlyRequest DEF Reply

\* Nothing is stale and nothing fails: a read shows what is stored.
LEMMA ReadsAreTrue ==
  ASSUME Faults = {}
  PROVE  Readable = {rows} /\ LegacyReads = {parent.graph}
  BY DEF Readable, LegacyReads

LEMMA BeginInTurn ==
  ASSUME CanvasAssumption, Consistent, TurnsTaken, Faults = {},
         NEW h \in Handlers, Handlers = {h}, Begin(h)
  PROVE  TurnsTaken'
<1>1. TypeOK
  BY DEF Consistent
<1>2. PICK r : Arriving(r) /\ Arrive(h, r)
  BY <1>1, BeginArrives DEF TypeOK
<1>. DEFINE q == [r EXCEPT !.legacy = parent.graph]
<1>3. Continue(h, q) /\ req[h].pc = "idle" /\ UNCHANGED <<rows, parent>>
  BY <1>2, ReadsAreTrue DEF Arrive
<1>4. /\ q \in Request /\ q.pc = r.pc /\ q.op = r.op /\ q.legacy = parent.graph
  BY <1>1, <1>2 DEF Arriving, Request, TypeOK
<1>. HIDE DEF q
<1>5. InTurn(req[h])
  BY DEF TurnsTaken
<1>6. OrdersDistinct /\ (Parent = "design" => CountsRight)
  BY <1>3, <1>5 DEF InTurn
<1>7. InTurn(q)
  BY <1>2, <1>4, <1>6 DEF InTurn, Arriving
<1>. QED  BY <1>1, <1>3, <1>4, <1>7, OnlyRequest DEF TypeOK

\* A request goes on with its own reading of the parent.
LEMMA GoesOn ==
  ASSUME CanvasAssumption, TypeOK, TurnsTaken, ReadOnly,
         NEW h \in Handlers, Handlers = {h}, NEW q \in Request, Continue(h, q),
         req[h].pc \notin {"idle", "move", "relist", "clear"},
         q.legacy = req[h].legacy,
         q.pc \notin {"idle", "move", "clear"},
         q.pc = "adopt" => Active(rows) = {},
         q.pc = "write" =>
           /\ q.op \in {"create", "duplicate"} =>
                /\ q.name \notin NamesOf(rows, Active(rows))
                /\ \A id \in Active(rows) : rows[id].order < q.order
           /\ q.op = "rename" => q.name \notin NamesOf(rows, Active(rows) \ {q.id})
           /\ q.op = "delete" => Active(rows) \ {q.id} # {},
         q.pc = "primary" \/ q.op = "legacySave" => q.id \in Primaries(rows)
  PROVE  TurnsTaken'
<1>1. InTurn(req[h])
  BY DEF TurnsTaken
<1>2. InTurn(q)
  BY <1>1 DEF InTurn
<1>. QED  BY <1>2, OnlyRequest DEF TypeOK, ReadOnly

LEMMA SourceInTurn ==
  ASSUME CanvasAssumption, Consistent, TurnsTaken, Faults = {},
         NEW h \in Handlers, Handlers = {h}, DuplicateSource(h)
  PROVE  TurnsTaken'
<1>1. /\ TypeOK /\ rows \in [CanvasIds -> Row] /\ req \in [Handlers -> Request]
      /\ ReadOnly /\ req[h].pc = "source" /\ req[h].op = "duplicate"
  BY DEF Consistent, TypeOK, DuplicateSource, At
<1>2. PICK graph \in Graphs :
        Continue(h, [req[h] EXCEPT !.graph = graph, !.pc = "materialize"]) \/ Reply(h)
  <2>1. req[h].legacy \in Graphs /\ req[h].source \in CanvasIds
    BY <1>1, RequestFields
  <2>2. rows[req[h].source].graph \in Graphs
    BY <1>1, <2>1 DEF Row
  <2>. QED  BY <2>1, <2>2, ReadsAreTrue DEF DuplicateSource
<1>3. CASE Reply(h)
  BY <1>1, <1>3, EndsInOrder DEF ReadOnly
<1>4. CASE Continue(h, [req[h] EXCEPT !.graph = graph, !.pc = "materialize"])
  <2>. DEFINE q == [req[h] EXCEPT !.graph = graph, !.pc = "materialize"]
  <2>1. q \in Request /\ q.pc = "materialize" /\ q.op = "duplicate" /\ q.legacy = req[h].legacy
    <3>1. req[h] \in Request /\ req[h].op = "duplicate" /\ "materialize" \in Steps
      BY <1>1 DEF Steps
    <3>2. q \in Request
      BY <3>1, RequestUpdates
    <3>. QED  BY <3>1, <3>2 DEF Request
  <2>. HIDE DEF q
  <2>2. Continue(h, q)
    BY <1>4 DEF q
  <2>. QED  BY <1>1, <2>1, <2>2, GoesOn
<1>. QED  BY <1>2, <1>3, <1>4

\* A request that moves on to a step where nothing more is asked of it.
LEMMA GotoInTurn ==
  ASSUME CanvasAssumption, TypeOK, TurnsTaken, ReadOnly,
         NEW h \in Handlers, Handlers = {h}, NEW pc \in Steps, Goto(h, pc),
         req[h].pc \in {"materialize", "list"},
         pc \in {"adopt", "list", "write"},
         pc = "adopt" => Active(rows) = {},
         pc = "write" => \/ req[h].op \in {"relabel", "save", "legacySave"}
                         \/ req[h].op = "delete" /\ Active(rows) \ {req[h].id} # {}
  PROVE  TurnsTaken'
<1>. DEFINE q == [req[h] EXCEPT !.pc = pc]
<1>1. req[h] \in Request
  BY DEF TypeOK
<1>2. /\ q \in Request /\ q.pc = pc /\ q.op = req[h].op /\ q.legacy = req[h].legacy
      /\ q.id = req[h].id
  BY <1>1 DEF Request
<1>3. Continue(h, q)
  BY DEF Goto
<1>. HIDE DEF q
<1>4. q.op = "legacySave" => q.id \in Primaries(rows)
  BY <1>2 DEF TurnsTaken, InTurn
<1>. QED  BY <1>2, <1>3, <1>4, GoesOn

LEMMA MaterializeListInTurn ==
  ASSUME CanvasAssumption, Consistent, TurnsTaken, Faults = {},
         NEW h \in Handlers, Handlers = {h}, MaterializeList(h)
  PROVE  TurnsTaken'
<1>1. TypeOK /\ ReadOnly /\ req[h].pc = "materialize"
  BY DEF Consistent, MaterializeList
<1>2. Goto(h, IF Active(rows) # {} THEN AfterMaterialize(req[h].op) ELSE "adopt")
  BY ReadsAreTrue DEF MaterializeList
<1>3. /\ AfterMaterialize(req[h].op) \in {"list", "write"}
      /\ AfterMaterialize(req[h].op) = "write" =>
           req[h].op \in {"relabel", "save", "legacySave"}
  BY DEF AfterMaterialize
<1>4. {"adopt", "list", "write"} \subseteq Steps
  BY DEF Steps
<1>. QED  BY <1>1, <1>2, <1>3, <1>4, GotoInTurn

LEMMA BuildInTurn ==
  ASSUME CanvasAssumption, Consistent, TurnsTaken, Faults = {},
         NEW h \in Handlers, Handlers = {h}, BuildCanvas(h)
  PROVE  TurnsTaken'
<1>1. /\ TypeOK /\ rows \in [CanvasIds -> Row] /\ req[h] \in Request
      /\ req \in [Handlers -> Request]
      /\ ReadOnly /\ req[h].pc = "list" /\ req[h].op \in {"create", "duplicate"}
  BY DEF Consistent, TypeOK, BuildCanvas, At
<1>2. CASE Reply(h)
  BY <1>1, <1>2, EndsInOrder DEF ReadOnly
<1>3. CASE \E name \in Deduped(req[h].name, NamesOf(rows, Active(rows))) :
             Continue(h, [req[h] EXCEPT !.name = name, !.order = NextOrder(rows),
                                        !.pc = "write"])
  <2>1. PICK name \in Deduped(req[h].name, NamesOf(rows, Active(rows))) :
          Continue(h, [req[h] EXCEPT !.name = name, !.order = NextOrder(rows),
                                     !.pc = "write"])
    BY <1>3
  <2>2. name \in Names /\ name \notin NamesOf(rows, Active(rows))
    <3>1. req[h].name \in Names
      BY <1>1, RequestFields
    <3>. QED  BY <3>1 DEF Deduped
  <2>3. PICK order \in Nat : order = NextOrder(rows)
    BY <1>1, NextOrderNat
  <2>4. \A id \in Active(rows) : rows[id].order < order
    BY <1>1, <2>3, NextOrderIsLast
  <2>. DEFINE q == [req[h] EXCEPT !.name = name, !.order = order, !.pc = "write"]
  <2>5. /\ q \in Request /\ q.pc = "write" /\ q.op = req[h].op /\ q.legacy = req[h].legacy
        /\ q.name = name /\ q.order = order
    BY <1>1, <2>2 DEF Request, Steps
  <2>6. Continue(h, q)
    BY <2>1, <2>3
  <2>. HIDE DEF q
  <2>. QED  BY <1>1, <2>2, <2>4, <2>5, <2>6, GoesOn
<1>. QED  BY <1>2, <1>3, ReadsAreTrue DEF BuildCanvas

LEMMA RenameListInTurn ==
  ASSUME CanvasAssumption, Consistent, TurnsTaken, Faults = {},
         NEW h \in Handlers, Handlers = {h}, RenameList(h)
  PROVE  TurnsTaken'
<1>1. /\ TypeOK /\ req[h] \in Request
      /\ ReadOnly /\ req[h].pc = "list" /\ req[h].op = "rename"
  BY DEF Consistent, TypeOK, RenameList, At
<1>2. PICK name \in Deduped(req[h].name, NamesOf(rows, Active(rows) \ {req[h].id})) :
        Continue(h, [req[h] EXCEPT !.name = name, !.pc = "write"])
  BY ReadsAreTrue DEF RenameList
<1>3. name \in Names /\ name \notin NamesOf(rows, Active(rows) \ {req[h].id})
  <2>1. req[h].name \in Names
    BY <1>1, RequestFields
  <2>. QED  BY <2>1 DEF Deduped
<1>. DEFINE q == [req[h] EXCEPT !.name = name, !.pc = "write"]
<1>4. /\ q \in Request /\ q.pc = "write" /\ q.op = req[h].op /\ q.legacy = req[h].legacy
      /\ q.name = name /\ q.id = req[h].id
  BY <1>1, <1>3 DEF Request, Steps
<1>5. Continue(h, q)
  BY <1>2
<1>. HIDE DEF q
<1>. QED  BY <1>1, <1>3, <1>4, <1>5, GoesOn

LEMMA DeleteListInTurn ==
  ASSUME CanvasAssumption, Consistent, TurnsTaken, Faults = {},
         NEW h \in Handlers, Handlers = {h}, DeleteList(h)
  PROVE  TurnsTaken'
<1>1. /\ TypeOK /\ req \in [Handlers -> Request]
      /\ ReadOnly /\ req[h].pc = "list" /\ req[h].op = "delete"
  BY DEF Consistent, TypeOK, DeleteList, At
<1>2. CASE Reply(h)
  BY <1>1, <1>2, EndsInOrder DEF ReadOnly
<1>3. CASE Goto(h, "write") /\ NotLast(rows)
  <2>1. Active(rows) \ {req[h].id} # {}
    <3>. SUFFICES ASSUME Active(rows) \ {req[h].id} = {} PROVE FALSE
      OBVIOUS
    <3>. DEFINE one == {req[h].id}
    <3>1. IsFiniteSet(one) /\ Cardinality(one) = 1 /\ Active(rows) \subseteq one
      BY FS_Singleton
    <3>. HIDE DEF one
    <3>2. Cardinality(Active(rows)) <= 1 /\ Cardinality(Active(rows)) \in Nat
      BY <3>1, FS_Subset, FS_CardinalityType
    <3>. QED  BY <1>3, <3>2 DEF NotLast
  <2>. QED  BY <1>1, <1>3, <2>1, GotoInTurn DEF Steps
<1>. QED  BY <1>2, <1>3, ReadsAreTrue DEF DeleteList

LEMMA ReorderListInTurn ==
  ASSUME CanvasAssumption, Consistent, TurnsTaken, Faults = {},
         NEW h \in Handlers, Handlers = {h}, ReorderList(h)
  PROVE  TurnsTaken'
<1>1. /\ TypeOK /\ rows \in [CanvasIds -> Row] /\ req[h] \in Request
      /\ req \in [Handlers -> Request]
      /\ ReadOnly /\ req[h].pc = "list" /\ req[h].op = "reorder" /\ InTurn(req[h])
  BY DEF Consistent, TypeOK, ReorderList, At, TurnsTaken
<1>2. CASE Reply(h)
  BY <1>1, <1>2, EndsInOrder DEF ReadOnly
<1>3. ASSUME Active(rows) # {}, NEW position \in TabOrders(rows), NEW moves,
             moves = MovesTo(rows, position),
             Continue(h, [req[h] EXCEPT !.moves = moves,
                                        !.pc = IF moves = {} THEN "relist" ELSE "move"])
      PROVE  TurnsTaken'
  <2>. DEFINE q == [req[h] EXCEPT !.moves = moves,
                                  !.pc = IF moves = {} THEN "relist" ELSE "move"]
  <2>1. moves \in SUBSET Moves
    BY <1>1, <1>3, MovesTyped
  <2>2. /\ q \in Request /\ q.op = "reorder" /\ q.moves = moves
        /\ q.pc \in {"relist", "move"}
    BY <1>1, <2>1 DEF Request, Steps
  <2>3. Continue(h, q)
    BY <1>3
  <2>. HIDE DEF q
  <2>4. InTurn(q)
    BY <1>1, <1>3, <2>2 DEF InTurn
  <2>. QED  BY <1>1, <2>2, <2>3, <2>4, OnlyRequest DEF ReadOnly
<1>. QED  BY <1>2, <1>3, ReadsAreTrue DEF ReorderList

LEMMA LegacyPutListInTurn ==
  ASSUME CanvasAssumption, Consistent, TurnsTaken, Faults = {},
         NEW h \in Handlers, Handlers = {h}, LegacyPutList(h)
  PROVE  TurnsTaken'
<1>1. /\ TypeOK /\ req[h] \in Request /\ req \in [Handlers -> Request]
      /\ ReadOnly /\ req[h].pc = "list" /\ req[h].op = "legacyPut"
  BY DEF Consistent, TypeOK, LegacyPutList, At
<1>2. CASE Reply(h)
  BY <1>1, <1>2, EndsInOrder DEF ReadOnly
<1>3. ASSUME NEW id \in Primaries(rows),
             Continue(h, [req[h] EXCEPT !.id = id, !.pc = "primary"])
      PROVE  TurnsTaken'
  <2>. DEFINE q == [req[h] EXCEPT !.id = id, !.pc = "primary"]
  <2>1. id \in CanvasIds
    BY DEF Primaries, Active
  <2>2. /\ q \in Request /\ q.op = "legacyPut" /\ q.pc = "primary" /\ q.id = id
        /\ q.legacy = req[h].legacy
    BY <1>1, <2>1 DEF Request, Steps
  <2>3. Continue(h, q)
    BY <1>3
  <2>. HIDE DEF q
  <2>. QED  BY <1>1, <2>2, <2>3, GoesOn
<1>. QED  BY <1>2, <1>3, ReadsAreTrue DEF LegacyPutList

LEMMA LegacyPutPrimaryInTurn ==
  ASSUME CanvasAssumption, Consistent, TurnsTaken, Faults = {},
         NEW h \in Handlers, Handlers = {h}, LegacyPutPrimary(h)
  PROVE  TurnsTaken'
<1>1. /\ TypeOK /\ rows \in [CanvasIds -> Row]
      /\ req[h] \in Request /\ req \in [Handlers -> Request]
      /\ ReadOnly /\ req[h].pc = "primary" /\ req[h].op = "legacyPut" /\ InTurn(req[h])
  BY DEF Consistent, TypeOK, LegacyPutPrimary, At, TurnsTaken
<1>2. CASE Reply(h)
  BY <1>1, <1>2, EndsInOrder DEF ReadOnly
<1>3. CASE Continue(h, [req[h] EXCEPT !.op = "legacySave", !.pc = "materialize",
                                      !.version = rows[req[h].id].version])
  <2>. DEFINE q == [req[h] EXCEPT !.op = "legacySave", !.pc = "materialize",
                                  !.version = rows[req[h].id].version]
  <2>1. rows[req[h].id].version \in Nat /\ req[h].id \in Primaries(rows)
    <3>1. req[h].id \in CanvasIds
      BY <1>1, RequestFields
    <3>. QED  BY <1>1, <3>1 DEF Row, InTurn
  <2>2. /\ q \in Request /\ q.op = "legacySave" /\ q.pc = "materialize"
        /\ q.id = req[h].id /\ q.legacy = req[h].legacy
    BY <1>1, <2>1 DEF Request, Steps, Ops
  <2>3. Continue(h, q)
    BY <1>3
  <2>. HIDE DEF q
  <2>. QED  BY <1>1, <2>1, <2>2, <2>3, GoesOn
<1>. QED  BY <1>2, <1>3, ReadsAreTrue DEF LegacyPutPrimary

LEMMA RelistInTurn ==
  ASSUME CanvasAssumption, Consistent, TurnsTaken, Faults = {},
         NEW h \in Handlers, Handlers = {h}, Relist(h)
  PROVE  TurnsTaken'
<1>1. /\ TypeOK /\ rows \in [CanvasIds -> Row]
      /\ req[h] \in Request /\ req \in [Handlers -> Request]
      /\ ReadOnly /\ req[h].pc = "relist" /\ InTurn(req[h])
  BY DEF Consistent, TypeOK, Relist, TurnsTaken
<1>2. Active(rows) # {}
  BY <1>1 DEF Consistent, Ready, TurnsTaken
<1>3. CASE Parent = "attempt" /\ Reply(h)
  BY <1>1, <1>3, EndsInOrder DEF ReadOnly
<1>4. ASSUME NEW id \in Primaries(rows),
             Continue(h, [req[h] EXCEPT !.graph = rows[id].graph, !.pc = "clear"])
      PROVE  TurnsTaken'
  <2>. DEFINE q == [req[h] EXCEPT !.graph = rows[id].graph, !.pc = "clear"]
  <2>1. rows[id].graph \in Graphs
    BY <1>1 DEF Row, Primaries, Active
  <2>2. /\ q \in Request /\ q.op = req[h].op /\ q.pc = "clear" /\ q.id = req[h].id
        /\ q.graph = rows[id].graph
    BY <1>1, <2>1 DEF Request, Steps
  <2>3. Continue(h, q)
    BY <1>4
  <2>. HIDE DEF q
  <2>4. InTurn(q)
    BY <1>1, <1>2, <2>2 DEF InTurn
  <2>. QED  BY <1>1, <2>2, <2>3, <2>4, OnlyRequest DEF ReadOnly
<1>. QED  BY <1>2, <1>3, <1>4, ReadsAreTrue DEF Relist

LEMMA RelabelInTurn ==
  ASSUME CanvasAssumption, Consistent, TurnsTaken, Faults = {},
         NEW h \in Handlers, Handlers = {h}, RelabelWrite(h)
  PROVE  TurnsTaken'
<1>1. /\ req \in [Handlers -> Request] /\ UNCHANGED <<rows, parent>>
      /\ req[h].pc = "write" /\ Reply(h)
  BY DEF Consistent, TypeOK, RelabelWrite, At, ReadOnly
<1>. QED  BY <1>1, EndsInOrder

\* A write that leaves the workspace, and the request, in order.
LEMMA WriteInTurn ==
  ASSUME NEW h \in Handlers, Handlers = {h}, req \in [Handlers -> Request],
         NEW q \in Request, Continue(h, q), NamesDistinct',
         Active(rows)' # {}, InTurn(q)'
  PROVE  TurnsTaken'
<1>1. req'[h] = q
  BY DEF Continue
<1>. QED  BY <1>1 DEF TurnsTaken

\* A request that ends with its write leaves every tab a position of its own, and a
\* design with the right counts.
LEMMA WriteEnds ==
  ASSUME CanvasAssumption, NEW h \in Handlers, Handlers = {h},
         req \in [Handlers -> Request], Reply(h), NamesDistinct', Active(rows)' # {},
         OrdersDistinct', Parent = "design" => CountsRight'
  PROVE  TurnsTaken'
<1>1. PICK q \in Request : q = Idle /\ Continue(h, q)
  BY IdleTyped DEF Reply
<1>2. q.pc = "idle" /\ q.op = "none"
  BY <1>1 DEF Idle
<1>3. InTurn(q)'
  BY <1>2 DEF InTurn
<1>. QED  BY <1>1, <1>3, WriteInTurn

\* A write after which a design reads its first canvas again, for the counts.
LEMMA WriteFinishes ==
  ASSUME CanvasAssumption, NEW h \in Handlers, Handlers = {h},
         req \in [Handlers -> Request], Finish(h), NamesDistinct', Active(rows)' # {},
         OrdersDistinct', req[h].op # "legacySave"
  PROVE  TurnsTaken'
<1>1. CASE Parent = "design"
  <2>1. req[h] \in Request
    OBVIOUS
  <2>2. PICK q \in Request : q = [req[h] EXCEPT !.pc = "relist"] /\ Continue(h, q)
    BY <1>1, <2>1 DEF Finish, Goto, Request, Steps
  <2>3. q.pc = "relist" /\ q.op = req[h].op
    BY <2>1, <2>2 DEF Request
  <2>4. InTurn(q)'
    BY <2>3 DEF InTurn
  <2>. QED  BY <2>2, <2>4, WriteInTurn
<1>2. CASE Parent # "design"
  BY <1>2, WriteEnds DEF Finish
<1>. QED  BY <1>1, <1>2

\* What a write to one row does to the table.
LEMMA RowWritten ==
  ASSUME NEW table \in [CanvasIds -> Row], NEW id \in CanvasIds, NEW row \in Row,
         NEW new, new = [table EXCEPT ![id] = row]
  PROVE  /\ new \in [CanvasIds -> Row] /\ new[id] = row
         /\ \A other \in CanvasIds \ {id} : new[other] = table[other]
  OBVIOUS

\* A write that keeps a canvas in its place keeps the first canvases.
LEMMA SameTabs ==
  ASSUME NEW table, NEW new,
         \A id \in CanvasIds : /\ new[id].status = table[id].status
                               /\ new[id].order = table[id].order
  PROVE  Active(new) = Active(table) /\ Primaries(new) = Primaries(table)
<1>1. Active(new) = Active(table)
  BY DEF Active
<1>. QED  BY <1>1 DEF Primaries, Active

LEMMA MaterializePutInTurn ==
  ASSUME CanvasAssumption, Consistent, TurnsTaken, Faults = {},
         NEW h \in Handlers, Handlers = {h}, MaterializePut(h)
  PROVE  TurnsTaken'
<1>1. /\ TypeOK /\ rows \in [CanvasIds -> Row] /\ LegacyId \in CanvasIds
      /\ req[h] \in Request /\ req \in [Handlers -> Request] /\ parent' = parent
      /\ req[h].pc = "adopt" /\ InTurn(req[h])
  BY DEF Consistent, TypeOK, MaterializePut, TurnsTaken, CanvasAssumption
<1>2. Active(rows) = {} /\ rows[LegacyId].status = "none"
  BY <1>1 DEF InTurn, TurnsTaken
<1>3. req[h].op # "legacySave"
  BY <1>1, <1>2 DEF InTurn, Primaries
<1>4. PICK row \in Row : row = LegacyRow(req[h].legacy)
  <2>1. req[h].legacy \in Graphs
    BY <1>1, RequestFields
  <2>. QED  BY <2>1, NewRowTyped DEF LegacyRow, CanvasAssumption
<1>5. row.status = "active" /\ row.graph = req[h].legacy
  BY <1>4 DEF LegacyRow, NewRow
<1>6. PICK new \in [CanvasIds -> Row] :
        new = rows' /\ new = [rows EXCEPT ![LegacyId] = row]
  BY <1>1, <1>2, <1>4 DEF MaterializePut, PutNew
<1>7. new[LegacyId] = row /\ \A id \in CanvasIds \ {LegacyId} : new[id] = rows[id]
  BY <1>1, <1>6
<1>8. Active(new) = {LegacyId}
  BY <1>1, <1>2, <1>5, <1>7 DEF Active
<1>9. Primaries(new) = {LegacyId}
  <2>1. new[LegacyId].order \in Nat
    BY <1>1 DEF Row
  <2>. QED  BY <1>8, <2>1 DEF Primaries
<1>10. PICK q \in Request :
         q = [req[h] EXCEPT !.pc = AfterMaterialize(req[h].op)] /\ Continue(h, q)
  BY <1>1 DEF MaterializePut, Goto, AfterMaterialize, Request, Steps
<1>11. /\ q.pc \in {"list", "write"} /\ q.op = req[h].op /\ q.op # "legacySave"
       /\ q.pc = "write" => q.op \in {"relabel", "save"}
  BY <1>1, <1>3, <1>10 DEF AfterMaterialize, Request
<1>12. NamesDistinct' /\ OrdersDistinct' /\ Active(rows)' # {}
  <2>1. \A a, b \in Active(new) : a = b
    BY <1>8
  <2>2. NamesDistinct' /\ OrdersDistinct'
    BY <1>6, <2>1 DEF NamesDistinct, OrdersDistinct
  <2>3. LegacyId \in Active(new)
    BY <1>8
  <2>. QED  BY <1>6, <2>2, <2>3
<1>13. Parent = "design" => CountsRight'
  <2>. SUFFICES ASSUME Parent = "design" PROVE CountsRight'
    OBVIOUS
  <2>1. parent.counted = parent.graph /\ req[h].legacy = parent.graph
    BY <1>1, <1>2 DEF InTurn, CountsRight
  <2>2. \E id \in Primaries(new) : parent.counted = new[id].graph
    BY <1>5, <1>7, <1>9, <2>1
  <2>. QED  BY <1>1, <1>6, <1>8, <2>2 DEF CountsRight
<1>14. InTurn(q)'
  BY <1>11, <1>12, <1>13 DEF InTurn
<1>. QED  BY <1>1, <1>10, <1>12, <1>14, WriteInTurn

LEMMA InsertInTurn ==
  ASSUME CanvasAssumption, Consistent, TurnsTaken, Faults = {},
         NEW h \in Handlers, Handlers = {h}, InsertCanvas(h)
  PROVE  TurnsTaken'
<1>1. /\ TypeOK /\ rows \in [CanvasIds -> Row]
      /\ req[h] \in Request /\ req \in [Handlers -> Request] /\ parent' = parent
      /\ req[h].pc = "write" /\ req[h].op \in {"create", "duplicate"} /\ InTurn(req[h])
      /\ Reply(h) /\ NamesDistinct
  BY DEF Consistent, TypeOK, InsertCanvas, At, TurnsTaken
<1>2. Active(rows) # {}
  BY <1>1 DEF Consistent, Ready, TurnsTaken
<1>3. PICK id \in CanvasIds : id = req[h].id
  BY <1>1, RequestFields
<1>4. CASE rows[id].status # "none"
  <2>1. rows' = rows
    BY <1>3, <1>4 DEF InsertCanvas, PutNew
  <2>. QED  BY <1>1, <2>1, EndsInOrder
<1>5. CASE rows[id].status = "none"
  <2>1. PICK row \in Row : row = NewRow(req[h].name, req[h].order, req[h].graph)
    <3>1. req[h].name \in Names /\ req[h].order \in Nat /\ req[h].graph \in Graphs
      BY <1>1, RequestFields
    <3>. QED  BY <3>1, NewRowTyped
  <2>2. row.status = "active" /\ row.name = req[h].name /\ row.order = req[h].order
    BY <2>1 DEF NewRow
  <2>3. PICK new \in [CanvasIds -> Row] : new = rows' /\ new = [rows EXCEPT ![id] = row]
    BY <1>1, <1>3, <1>5, <2>1 DEF InsertCanvas, PutNew
  <2>4. new[id] = row /\ \A other \in CanvasIds \ {id} : new[other] = rows[other]
    BY <1>1, <2>3
  <2>5. Active(new) = Active(rows) \cup {id} /\ id \notin Active(rows)
    BY <1>5, <2>2, <2>4 DEF Active
  <2>6. Active(rows) \subseteq CanvasIds
    BY DEF Active
  <2>7. /\ row.name \notin {rows[other].name : other \in Active(rows)}
        /\ \A other \in Active(rows) : rows[other].order < row.order
    BY <1>1, <2>2 DEF InTurn, NamesOf
  <2>8. \A other \in Active(rows) : new[other] = rows[other]
    BY <2>4, <2>5, <2>6
  <2>9. \A other \in Active(rows) :
          /\ rows[other].order \in Nat /\ row.order \in Nat
          /\ rows[other].order # row.order /\ rows[other].order <= row.order
    BY <1>1, <2>6, <2>7 DEF Row
  <2>10. NamesDistinct'
    <3>1. \A a, b \in Active(new) : a # b => new[a].name # new[b].name
      BY <1>1, <2>4, <2>5, <2>7, <2>8 DEF NamesDistinct
    <3>. QED  BY <2>3, <3>1 DEF NamesDistinct
  <2>11. OrdersDistinct'
    <3>1. \A a, b \in Active(rows) : a # b => rows[a].order # rows[b].order
      BY <1>1 DEF InTurn, OrdersDistinct
    <3>2. \A a, b \in Active(new) : a # b => new[a].order # new[b].order
      BY <2>4, <2>5, <2>8, <2>9, <3>1
    <3>. QED  BY <2>3, <3>2 DEF OrdersDistinct
  <2>12. Parent = "design" => CountsRight'
    <3>. SUFFICES ASSUME Parent = "design" PROVE CountsRight'
      OBVIOUS
    <3>1. PICK p \in Primaries(rows) : parent.counted = rows[p].graph
      BY <1>1, <1>2 DEF InTurn, CountsRight
    <3>2. p \in Active(rows) /\ \A other \in Active(rows) : rows[p].order <= rows[other].order
      BY DEF Primaries
    <3>3. \A other \in Active(new) : new[p].order <= new[other].order
      BY <2>4, <2>5, <2>8, <2>9, <3>2
    <3>4. p \in Primaries(new)
      BY <2>5, <3>2, <3>3 DEF Primaries
    <3>5. \E q \in Primaries(new) : parent.counted = new[q].graph
      BY <2>8, <3>1, <3>2, <3>4
    <3>. QED  BY <1>1, <2>3, <2>5, <3>5 DEF CountsRight
  <2>13. Active(rows)' # {}
    BY <2>3, <2>5
  <2>. QED  BY <1>1, <2>10, <2>11, <2>12, <2>13, WriteEnds
<1>. QED  BY <1>4, <1>5

LEMMA RenameInTurn ==
  ASSUME CanvasAssumption, Consistent, TurnsTaken, Faults = {},
         NEW h \in Handlers, Handlers = {h}, RenameWrite(h)
  PROVE  TurnsTaken'
<1>1. /\ TypeOK /\ rows \in [CanvasIds -> Row]
      /\ req[h] \in Request /\ req \in [Handlers -> Request] /\ parent' = parent
      /\ req[h].pc = "write" /\ req[h].op = "rename" /\ InTurn(req[h])
      /\ Reply(h) /\ NamesDistinct
  BY DEF Consistent, TypeOK, RenameWrite, At, TurnsTaken
<1>2. PICK id \in CanvasIds : id = req[h].id
  BY <1>1, RequestFields
<1>3. CASE ~Writable(rows[id])
  <2>1. rows' = rows
    BY <1>2, <1>3 DEF RenameWrite
  <2>. QED  BY <1>1, <2>1, EndsInOrder
<1>4. CASE Writable(rows[id])
  <2>1. PICK row \in Row : row = RenamedRow(rows[id], req[h].name)
    <3>1. req[h].name \in Names
      BY <1>1, RequestFields
    <3>. QED  BY <1>1, <3>1, RowUpdates
  <2>2. /\ row.status = rows[id].status /\ row.name = req[h].name
        /\ row.order = rows[id].order /\ row.graph = rows[id].graph
    BY <1>1, <2>1 DEF RenamedRow, Row
  <2>3. PICK new \in [CanvasIds -> Row] : new = rows' /\ new = [rows EXCEPT ![id] = row]
    BY <1>1, <1>2, <1>4, <2>1 DEF RenameWrite
  <2>4. new[id] = row /\ \A other \in CanvasIds \ {id} : new[other] = rows[other]
    BY <1>1, <2>3
  <2>5. \A other \in CanvasIds : /\ new[other].status = rows[other].status
                                 /\ new[other].order = rows[other].order
                                 /\ new[other].graph = rows[other].graph
    BY <2>2, <2>4
  <2>6. Active(new) = Active(rows) /\ Primaries(new) = Primaries(rows)
    BY <2>5, SameTabs
  <2>7. id \in Active(rows) /\ Active(rows) \subseteq CanvasIds
    BY <1>4 DEF Writable, Active
  <2>8. row.name \notin {rows[other].name : other \in Active(rows) \ {id}}
    BY <1>1, <1>2, <2>2 DEF InTurn, NamesOf
  <2>9. NamesDistinct'
    <3>1. \A a, b \in Active(new) : a # b => new[a].name # new[b].name
      BY <1>1, <2>4, <2>6, <2>7, <2>8 DEF NamesDistinct
    <3>. QED  BY <2>3, <3>1 DEF NamesDistinct
  <2>10. OrdersDistinct'
    <3>1. \A a, b \in Active(rows) : a # b => rows[a].order # rows[b].order
      BY <1>1 DEF InTurn, OrdersDistinct
    <3>2. \A a, b \in Active(new) : a # b => new[a].order # new[b].order
      BY <2>5, <2>6, <2>7, <3>1
    <3>. QED  BY <2>3, <3>2 DEF OrdersDistinct
  <2>11. Parent = "design" => CountsRight'
    <3>. SUFFICES ASSUME Parent = "design" PROVE CountsRight'
      OBVIOUS
    <3>1. PICK p \in Primaries(rows) : parent.counted = rows[p].graph
      BY <1>1, <2>7 DEF InTurn, CountsRight
    <3>2. \E q \in Primaries(new) : parent.counted = new[q].graph
      BY <2>5, <2>6, <3>1 DEF Primaries, Active
    <3>. QED  BY <1>1, <2>3, <2>6, <2>7, <3>2 DEF CountsRight
  <2>12. Active(rows)' # {}
    BY <2>3, <2>6, <2>7
  <2>. QED  BY <1>1, <2>9, <2>10, <2>11, <2>12, WriteEnds
<1>. QED  BY <1>3, <1>4

\* The move written is the last that the position of its canvas needs.
LEMMA MoveWritten ==
  ASSUME NEW view \in [CanvasIds -> Row], NEW position \in TabOrders(view),
         NEW id \in Active(view), NEW new \in [CanvasIds -> Row],
         new[id] = MovedRow(view[id], position[id]), MovedRow(view[id], position[id]) \in Row,
         \A other \in CanvasIds \ {id} : new[other] = view[other]
  PROVE  /\ Active(new) = Active(view) /\ position \in TabOrders(new)
         /\ MovesTo(new, position) =
              MovesTo(view, position) \ {[id |-> id, order |-> position[id]]}
<1>1. Active(view) \subseteq CanvasIds
  BY DEF Active
<1>2. new[id].status = view[id].status /\ new[id].order = position[id]
  <2>1. view[id] \in Row
    BY <1>1
  <2>. QED  BY <2>1 DEF MovedRow, Row
<1>3. Active(new) = Active(view)
  BY <1>1, <1>2 DEF Active
<1>4. position \in TabOrders(new)
  BY <1>3 DEF TabOrders
<1>. DEFINE move == [id |-> id, order |-> position[id]]
<1>5. ASSUME NEW m
      PROVE  m \in MovesTo(new, position) <=> m \in MovesTo(view, position) \ {move}
  <2>1. m \in MovesTo(new, position) <=>
          \E i \in Active(view) : /\ m = [id |-> i, order |-> position[i]]
                                  /\ new[i].order # position[i]
    BY <1>3 DEF MovesTo, MoveNeeded
  <2>2. m \in MovesTo(view, position) <=>
          \E i \in Active(view) : /\ m = [id |-> i, order |-> position[i]]
                                  /\ view[i].order # position[i]
    BY DEF MovesTo, MoveNeeded
  <2>3. \A i \in Active(view) : i # id => new[i] = view[i]
    BY <1>1
  <2>4. \A i \in Active(view) :
          m = [id |-> i, order |-> position[i]] => m.id = i
    OBVIOUS
  <2>5. move.id = id
    OBVIOUS
  <2>. QED  BY <1>2, <2>1, <2>2, <2>3, <2>4, <2>5
<1>. QED  BY <1>3, <1>4, <1>5

LEMMA ReorderMoveInTurn ==
  ASSUME CanvasAssumption, Consistent, TurnsTaken, Faults = {},
         NEW h \in Handlers, Handlers = {h}, ReorderMove(h)
  PROVE  TurnsTaken'
<1>1. /\ TypeOK /\ rows \in [CanvasIds -> Row]
      /\ req[h] \in Request /\ req \in [Handlers -> Request] /\ parent' = parent
      /\ req[h].pc = "move" /\ req[h].op = "reorder" /\ InTurn(req[h])
      /\ NamesDistinct
  BY DEF Consistent, TypeOK, ReorderMove, At, TurnsTaken
<1>2. PICK position \in TabOrders(rows) : req[h].moves = MovesTo(rows, position)
  BY <1>1 DEF InTurn
<1>3. PICK move \in req[h].moves :
        /\ rows' = IF Writable(rows[move.id])
                   THEN [rows EXCEPT ![move.id] = MovedRow(rows[move.id], move.order)]
                   ELSE rows
        /\ Continue(h, [req[h] EXCEPT !.moves = req[h].moves \ {move},
                                      !.pc = IF req[h].moves \ {move} = {}
                                             THEN "relist" ELSE "move"])
  BY DEF ReorderMove
<1>4. PICK id \in Active(rows) : move = [id |-> id, order |-> position[id]]
  BY <1>2 DEF MovesTo
<1>5. move.id = id /\ move.order = position[id] /\ move.order \in Nat /\ id \in CanvasIds
      /\ Writable(rows[id])
  <2>1. req[h].moves \in SUBSET Moves
    BY <1>1, RequestFields
  <2>. QED  BY <1>4, <2>1 DEF Moves, Active, Writable
<1>6. PICK row \in Row : row = MovedRow(rows[id], position[id])
  BY <1>1, <1>5, RowUpdates
<1>7. row.name = rows[id].name
  BY <1>1, <1>5, <1>6 DEF MovedRow, Row
<1>8. PICK new \in [CanvasIds -> Row] : new = rows' /\ new = [rows EXCEPT ![id] = row]
  BY <1>1, <1>3, <1>5, <1>6
<1>9. new[id] = row /\ \A other \in CanvasIds \ {id} : new[other] = rows[other]
  BY <1>1, <1>5, <1>8
<1>10. /\ Active(new) = Active(rows) /\ position \in TabOrders(new)
       /\ MovesTo(new, position) = req[h].moves \ {move}
  BY <1>1, <1>2, <1>4, <1>6, <1>9, MoveWritten
<1>11. PICK rest \in SUBSET Moves : rest = req[h].moves \ {move}
  <2>1. req[h].moves \in SUBSET Moves
    BY <1>1, RequestFields
  <2>. QED  BY <2>1
<1>12. PICK q \in Request :
         /\ q = [req[h] EXCEPT !.moves = rest, !.pc = IF rest = {} THEN "relist" ELSE "move"]
         /\ Continue(h, q)
  BY <1>1, <1>3, <1>11 DEF Request, Steps
<1>13. q.moves = rest /\ q.op = "reorder" /\ q.pc = IF rest = {} THEN "relist" ELSE "move"
  BY <1>1, <1>12 DEF Request
<1>14. NamesDistinct'
  <2>1. \A i \in CanvasIds : new[i].name = rows[i].name
    BY <1>7, <1>9
  <2>2. \A a, b \in Active(new) : a # b => new[a].name # new[b].name
    BY <1>1, <1>10, <2>1 DEF NamesDistinct, Active
  <2>. QED  BY <1>8, <2>2 DEF NamesDistinct
<1>15. rest = {} => OrdersDistinct'
  <2>. SUFFICES ASSUME rest = {} PROVE OrdersDistinct'
    OBVIOUS
  <2>1. \A i \in Active(new) : new[i].order = position[i]
    <3>1. MovesTo(new, position) = {}
      BY <1>10, <1>11
    <3>2. ASSUME NEW i \in Active(new), new[i].order # position[i]
          PROVE  [id |-> i, order |-> position[i]] \in MovesTo(new, position)
      BY <3>2 DEF MovesTo, MoveNeeded
    <3>. QED  BY <3>1, <3>2
  <2>2. \A a, b \in Active(new) : position[a] = position[b] => a = b
    BY <1>10 DEF TabOrders
  <2>3. \A a, b \in Active(new) : a # b => new[a].order # new[b].order
    BY <2>1, <2>2
  <2>. QED  BY <1>8, <2>3 DEF OrdersDistinct
<1>16. Active(rows)' # {}
  BY <1>8, <1>10
<1>17. rest # {} => \E p \in TabOrders(rows)' : q.moves = MovesTo(rows, p)'
  <2>1. \E p \in TabOrders(new) : q.moves = MovesTo(new, p)
    BY <1>10, <1>11, <1>13
  <2>. QED  BY <1>8, <2>1
<1>18. InTurn(q)'
  BY <1>13, <1>15, <1>16, <1>17 DEF InTurn
<1>. QED  BY <1>1, <1>12, <1>14, <1>16, <1>18, WriteInTurn

LEMMA DeleteInTurn ==
  ASSUME CanvasAssumption, Consistent, TurnsTaken, Faults = {},
         NEW h \in Handlers, Handlers = {h}, DeleteWrite(h)
  PROVE  TurnsTaken'
<1>1. /\ TypeOK /\ rows \in [CanvasIds -> Row]
      /\ req[h] \in Request /\ req \in [Handlers -> Request] /\ parent' = parent
      /\ req[h].pc = "write" /\ req[h].op = "delete" /\ InTurn(req[h])
      /\ NamesDistinct
  BY DEF Consistent, TypeOK, DeleteWrite, At, TurnsTaken
<1>2. PICK id \in CanvasIds : id = req[h].id
  BY <1>1, RequestFields
<1>3. CASE Reply(h) /\ rows' = rows
  BY <1>1, <1>3, EndsInOrder
<1>4. CASE Writable(rows[id]) /\ rows' = [rows EXCEPT ![id] = RetiredRow(rows[id])] /\ Finish(h)
  <2>1. PICK row \in Row : row = RetiredRow(rows[id])
    BY <1>1, RowUpdates
  <2>2. row.status = "deleted"
    BY <1>1, <2>1 DEF RetiredRow, Row
  <2>3. PICK new \in [CanvasIds -> Row] : new = rows' /\ new = [rows EXCEPT ![id] = row]
    BY <1>1, <1>4, <2>1
  <2>4. new[id] = row /\ \A other \in CanvasIds \ {id} : new[other] = rows[other]
    BY <1>1, <2>3
  <2>5. Active(new) = Active(rows) \ {id}
    BY <2>2, <2>4 DEF Active
  <2>6. Active(new) # {}
    BY <1>1, <1>2, <2>5 DEF InTurn
  <2>7. \A i \in Active(new) : new[i] = rows[i] /\ i \in Active(rows)
    BY <2>4, <2>5 DEF Active
  <2>8. NamesDistinct'
    <3>1. \A a, b \in Active(new) : a # b => new[a].name # new[b].name
      BY <1>1, <2>7 DEF NamesDistinct
    <3>. QED  BY <2>3, <3>1 DEF NamesDistinct
  <2>9. OrdersDistinct'
    <3>1. \A a, b \in Active(rows) : a # b => rows[a].order # rows[b].order
      BY <1>1 DEF InTurn, OrdersDistinct
    <3>2. \A a, b \in Active(new) : a # b => new[a].order # new[b].order
      BY <2>7, <3>1
    <3>. QED  BY <2>3, <3>2 DEF OrdersDistinct
  <2>10. Active(rows)' # {}
    BY <2>3, <2>6
  <2>. QED  BY <1>1, <1>4, <2>8, <2>9, <2>10, WriteFinishes
<1>. QED  BY <1>2, <1>3, <1>4 DEF DeleteWrite

LEMMA SaveInTurn ==
  ASSUME CanvasAssumption, Consistent, TurnsTaken, Faults = {},
         NEW h \in Handlers, Handlers = {h}, SaveWrite(h)
  PROVE  TurnsTaken'
<1>1. /\ TypeOK /\ rows \in [CanvasIds -> Row]
      /\ req[h] \in Request /\ req \in [Handlers -> Request] /\ parent' = parent
      /\ req[h].pc = "write" /\ req[h].op \in {"save", "legacySave"} /\ InTurn(req[h])
      /\ NamesDistinct
  BY DEF Consistent, TypeOK, SaveWrite, At, TurnsTaken
<1>2. PICK id \in CanvasIds : id = req[h].id
  BY <1>1, RequestFields
<1>3. CASE Reply(h) /\ rows' = rows
  BY <1>1, <1>3, EndsInOrder
<1>4. CASE /\ SaveAccepted(rows[id], req[h].version)
           /\ rows' = [rows EXCEPT ![id] = SavedRow(rows[id], req[h].graph, req[h].version)]
           /\ IF req[h].op = "save" THEN Finish(h) ELSE Goto(h, "clear")
  <2>1. PICK row \in Row : row = SavedRow(rows[id], req[h].graph, req[h].version)
    <3>1. req[h].graph \in Graphs /\ req[h].version \in Nat
      BY <1>1, RequestFields
    <3>. QED  BY <1>1, <3>1, RowUpdates
  <2>2. /\ row.status = rows[id].status /\ row.name = rows[id].name
        /\ row.order = rows[id].order /\ row.graph = req[h].graph
    BY <1>1, <2>1 DEF SavedRow, Row
  <2>3. PICK new \in [CanvasIds -> Row] : new = rows' /\ new = [rows EXCEPT ![id] = row]
    BY <1>1, <1>4, <2>1
  <2>4. new[id] = row /\ \A other \in CanvasIds \ {id} : new[other] = rows[other]
    BY <1>1, <2>3
  <2>5. \A other \in CanvasIds : /\ new[other].status = rows[other].status
                                 /\ new[other].order = rows[other].order
                                 /\ new[other].name = rows[other].name
    BY <2>2, <2>4
  <2>6. Active(new) = Active(rows) /\ Primaries(new) = Primaries(rows)
    BY <2>5, SameTabs
  <2>7. id \in Active(rows) /\ Active(rows) \subseteq CanvasIds
    BY <1>4 DEF SaveAccepted, Active
  <2>8. NamesDistinct'
    <3>1. \A a, b \in Active(new) : a # b => new[a].name # new[b].name
      BY <1>1, <2>5, <2>6, <2>7 DEF NamesDistinct
    <3>. QED  BY <2>3, <3>1 DEF NamesDistinct
  <2>9. OrdersDistinct'
    <3>1. \A a, b \in Active(rows) : a # b => rows[a].order # rows[b].order
      BY <1>1 DEF InTurn, OrdersDistinct
    <3>2. \A a, b \in Active(new) : a # b => new[a].order # new[b].order
      BY <2>5, <2>6, <2>7, <3>1
    <3>. QED  BY <2>3, <3>2 DEF OrdersDistinct
  <2>10. Active(rows)' # {}
    BY <2>3, <2>6, <2>7
  <2>11. CASE req[h].op = "save"
    BY <1>1, <1>4, <2>8, <2>9, <2>10, <2>11, WriteFinishes
  <2>12. CASE req[h].op = "legacySave"
    <3>1. PICK q \in Request : q = [req[h] EXCEPT !.pc = "clear"] /\ Continue(h, q)
      BY <1>1, <1>4, <2>12 DEF Goto, Request, Steps
    <3>2. q.pc = "clear" /\ q.graph = req[h].graph /\ q.id = id
      BY <1>1, <1>2, <3>1 DEF Request
    <3>3. id \in Primaries(new) /\ q.graph = new[id].graph
      BY <1>1, <1>2, <2>2, <2>4, <2>6, <2>12, <3>2 DEF InTurn
    <3>4. \E i \in Primaries(rows)' : q.graph = rows'[i].graph
      BY <2>3, <3>3
    <3>5. q.id \in Primaries(rows)'
      BY <2>3, <3>2, <3>3
    <3>6. InTurn(q)'
      BY <2>9, <2>10, <3>2, <3>4, <3>5 DEF InTurn
    <3>. QED  BY <1>1, <2>8, <2>10, <3>1, <3>6, WriteInTurn
  <2>. QED  BY <1>1, <2>11, <2>12
<1>. QED  BY <1>2, <1>3, <1>4 DEF SaveWrite

LEMMA ClearInTurn ==
  ASSUME CanvasAssumption, Consistent, TurnsTaken, Faults = {},
         NEW h \in Handlers, Handlers = {h}, ClearParent(h)
  PROVE  TurnsTaken'
<1>1. /\ TypeOK /\ req \in [Handlers -> Request] /\ rows' = rows
      /\ req[h].pc = "clear" /\ InTurn(req[h]) /\ Reply(h) /\ NamesDistinct
      /\ parent'.counted = req[h].graph
  BY DEF Consistent, TypeOK, ClearParent, TurnsTaken
<1>2. Active(rows) # {}
  BY <1>1 DEF Consistent, Ready, TurnsTaken
<1>3. OrdersDistinct /\ \E id \in Primaries(rows) : req[h].graph = rows[id].graph
  BY <1>1 DEF InTurn
<1>4. NamesDistinct' /\ OrdersDistinct' /\ Active(rows)' # {}
  BY <1>1, <1>2, <1>3 DEF NamesDistinct, OrdersDistinct
<1>5. CountsRight'
  BY <1>1, <1>2, <1>3 DEF CountsRight
<1>. QED  BY <1>1, <1>4, <1>5, WriteEnds

\* One step of the only request, or of its surroundings.
LEMMA StepInTurn ==
  ASSUME CanvasAssumption, Consistent, TurnsTaken, Sequential, [Next]_vars
  PROVE  TurnsTaken'
<1>1. PICK h : Handlers = {h} /\ h \in Handlers
  BY DEF Sequential
<1>2. Faults = {}
  BY DEF Sequential
<1>3. CASE Begin(h)
  BY <1>1, <1>2, <1>3, BeginInTurn
<1>4. CASE Handle(h)
  BY <1>1, <1>2, <1>4, SourceInTurn, MaterializeListInTurn, MaterializePutInTurn,
     BuildInTurn, InsertInTurn, RenameListInTurn, RenameInTurn, RelabelInTurn,
     ReorderListInTurn, ReorderMoveInTurn, DeleteListInTurn, DeleteInTurn,
     LegacyPutListInTurn, LegacyPutPrimaryInTurn, SaveInTurn, RelistInTurn, ClearInTurn
     DEF Handle
<1>5. CASE AttemptSaved
  <2>1. Parent # "design" /\ rows' = rows /\ req' = req
    BY <1>5 DEF AttemptSaved
  <2>2. \A g \in Handlers : InTurn(req[g]) => InTurn(req[g])'
    BY <2>1 DEF InTurn, OrdersDistinct
  <2>. QED  BY <2>1, <2>2 DEF TurnsTaken, NamesDistinct
<1>6. CASE UNCHANGED vars
  BY <1>6 DEF vars, TurnsTaken, InTurn, NamesDistinct, OrdersDistinct, CountsRight
<1>7. ~Abort(h) /\ ~Replicate
  BY <1>2 DEF Abort, Replicate
<1>. QED  BY <1>1, <1>3, <1>4, <1>5, <1>6, <1>7 DEF Next, Rest

\* The inductive invariant of a workspace whose requests run one after the other: what a
\* request listed is still so when it writes, and what it leaves unfinished (the moves of
\* a reorder, the counts of a design) it finishes itself.
THEOREM TurnsTakenCorrect == Sequential => (Spec => []TurnsTaken)
<1>. SUFFICES ASSUME Sequential PROVE Spec => []TurnsTaken
  OBVIOUS
<1>. USE CanvasAssumption
<1>1. Init => TurnsTaken
  <2>. SUFFICES ASSUME Init PROVE TurnsTaken
    OBVIOUS
  <2>1. \A id \in CanvasIds : rows[id].status = "none"
    BY DEF Init, NoRow
  <2>2. Active(rows) = {} /\ rows[LegacyId].status = "none"
    BY <2>1 DEF Active, CanvasAssumption
  <2>3. NamesDistinct /\ OrdersDistinct /\ CountsRight
    BY <2>2 DEF NamesDistinct, OrdersDistinct, CountsRight, Init
  <2>4. \A h \in Handlers : req[h].pc = "idle" /\ req[h].op = "none"
    BY DEF Init, Idle
  <2>5. \A h \in Handlers : InTurn(req[h])
    BY <2>3, <2>4 DEF InTurn
  <2>. QED  BY <2>2, <2>3, <2>5 DEF TurnsTaken
<1>2. Consistent /\ TurnsTaken /\ [Next]_vars => TurnsTaken'
  BY StepInTurn
<1>. QED  BY <1>1, <1>2, ConsistentCorrect, PTL DEF Spec

\* While requests run one after the other, no two tabs share a name, and none share a
\* position between requests (build_canvas, update_canvas, reorder_canvases).  With two
\* requests at once they may: both list the canvases before either writes.
THEOREM TabsAreDistinct == Sequential => (Spec => []TabsDistinct)
<1>. SUFFICES ASSUME Sequential PROVE Spec => []TabsDistinct
  OBVIOUS
<1>1. TurnsTaken => TabsDistinct
  <2>. SUFFICES ASSUME TurnsTaken PROVE TabsDistinct
    OBVIOUS
  <2>1. Quiet => OrdersDistinct
    <3>1. PICK h : h \in Handlers
      BY DEF Sequential
    <3>. QED  BY <3>1 DEF Quiet, TurnsTaken, InTurn
  <2>. QED  BY <2>1 DEF TurnsTaken, NamesDistinct, OrdersDistinct, TabsDistinct
<1>. QED  BY <1>1, TurnsTakenCorrect, PTL

\* While requests run one after the other, the counts kept on a design describe its
\* first canvas whenever none is under way (clear_diagram_graph).
THEOREM CountsAreCurrent == Sequential => (Spec => []CountsCurrent)
<1>. SUFFICES ASSUME Sequential PROVE Spec => []CountsCurrent
  OBVIOUS
<1>1. TurnsTaken => CountsCurrent
  <2>1. PICK h : h \in Handlers
    BY DEF Sequential
  <2>. QED  BY <2>1 DEF Quiet, TurnsTaken, InTurn, CountsCurrent, CountsRight
<1>. QED  BY <1>1, TurnsTakenCorrect, PTL

=============================================================================
