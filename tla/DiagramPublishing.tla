------------------------- MODULE DiagramPublishing -------------------------
(***************************************************************************)
(* One design and its public snapshots: publish, unpublish and public view *)
(* of routers/share.py, the delete of routers/diagrams.py, and creation by *)
(* an MCP client (routers/mcp_integration.py), whose idempotency key gives *)
(* the design its id.                                                      *)
(*                                                                         *)
(* Each request is a row of calls on the diagrams table.  Publishing reads *)
(* the design, its canvases and its earlier snapshot, writes the snapshot  *)
(* and then links it; none of its writes has a condition, and an update of *)
(* an item that is gone makes a stub, which no model can be read from.     *)
(***************************************************************************)
EXTENDS Servers, Naturals, FiniteSets

CONSTANTS
  Snaps,         \* bound: ids of snapshots, fresh for each first publication
  Contents,      \* what a design shows: title and graph
  MaxTasks       \* bound: requests, views and edits that ever arrive

ASSUME PublishingAssumption == MaxTasks \in Nat /\ None \notin Snaps \cup Contents

VARIABLES
  source,        \* the design's item
  canvas,        \* the graph of its first canvas, None without canvases
  snapshot,      \* the item of each snapshot
  minted,        \* ids of snapshots that were drawn
  task,          \* the request of each handler
  tasks,         \* requests, views and edits that have arrived; their number is a time
  hidden,        \* history: unpublished, without a publication since
  excused,       \* history: a publication overlapped another or a delete, or was cut
  answers        \* history: snapshots named to MCP clients since the last delete

publishingVars == <<source, canvas, snapshot, minted, task, tasks,
                    hidden, excused, answers>>

Item == [status : {"none", "stored", "stub"}, public : BOOLEAN,
         link : Maybe(Snaps), content : Maybe(Contents),
         at : Nat]                     \* updatedAt

NoItem == [status |-> "none", public |-> FALSE, link |-> None, content |-> None,
           at |-> 0]

Snapshot == [status : {"none", "stored", "stub"}, public : BOOLEAN,
             content : Maybe(Contents), views : Nat]

NoSnapshot == [status |-> "none", public |-> FALSE, content |-> None, views |-> 0]

Task == [op : {"none", "publish", "create", "unpublish", "delete"},
         pc : {"idle", "lookup", "compare", "put", "source", "canvases", "previous",
               "snapshot", "link", "target", "hide", "hideSnapshot", "read",
               "transact", "rows"},
         asked : Maybe(Contents),      \* what an MCP client sent
         read : Item,                  \* the design as this request read it
         snap : Maybe(Snaps),          \* the snapshot it works on
         content : Maybe(Contents),    \* what it publishes
         views : Nat,                  \* the views it read,
         since : Nat,                  \* and those counted since
         alone : BOOLEAN]              \* no publication has run beside it

NoTask == [op |-> "none", pc |-> "idle", asked |-> None, read |-> NoItem,
           snap |-> None, content |-> None, views |-> 0, since |-> 0, alone |-> FALSE]

PublishingTypeOK ==
  /\ source \in Item
  /\ canvas \in Maybe(Contents)
  /\ snapshot \in [Snaps -> Snapshot]
  /\ minted \subseteq Snaps
  /\ task \in [Handlers -> Task]
  /\ tasks \in Nat
  /\ hidden \in BOOLEAN /\ excused \in BOOLEAN
  /\ answers \subseteq Snaps

-----------------------------------------------------------------------------
(* Steps of a request *)

TaskAt(h, pc) == task[h].pc = pc

Pursue(h, t) == task' = [task EXCEPT ![h] = t]

Close(h) == Pursue(h, NoTask)

Enter(h, pc) == Pursue(h, [task[h] EXCEPT !.pc = pc])

Publishing(h) == task[h].op \in {"publish", "create"}

\* Both write the items that a publication writes.
Writing(h) == Publishing(h) \/ task[h].op = "delete"

Unmarked == UNCHANGED <<hidden, excused, answers>>

OnlyTask == UNCHANGED <<source, canvas, snapshot, minted, tasks>> /\ Unmarked

Counted == tasks < MaxTasks /\ tasks' = tasks + 1

\* A publication ends the solitude of every request, and what was hidden may show.
Begin(h, t) ==
  LET publication == t.op \in {"publish", "create"} IN
  /\ TaskAt(h, "idle")
  /\ Counted
  /\ task' = [k \in Handlers |->
                IF k = h THEN [t EXCEPT !.alone = \A i \in Handlers : ~Publishing(i)]
                ELSE [task[k] EXCEPT !.alone = @ /\ ~publication]]
  /\ hidden' = (hidden /\ ~publication)
  /\ excused' = (\/ excused
                 \/ publication /\ \E k \in Handlers : Writing(k)
                 \/ t.op = "delete" /\ \E k \in Handlers : Publishing(k))
  /\ UNCHANGED <<source, canvas, snapshot, minted, answers>>

BeginPublish(h) == Begin(h, [NoTask EXCEPT !.op = "publish", !.pc = "source"])

BeginCreate(h) ==
  \E c \in Contents :
    Begin(h, [NoTask EXCEPT !.op = "create", !.pc = "lookup", !.asked = c])

\* By the design's id or by that of a snapshot.
BeginUnpublish(h) ==
  \E s \in Maybe(minted) :
    Begin(h, [NoTask EXCEPT !.op = "unpublish", !.pc = "target", !.snap = s])

BeginDelete(h) == Begin(h, [NoTask EXCEPT !.op = "delete", !.pc = "read"])

\* get_diagram: a failed read is answered like a missing item.
Found == {source} \cup (IF "abort" \in Faults THEN {NoItem} ELSE {})

\* Mutant: the key is not looked up.
LookUpNothing(h) ==
  /\ TaskAt(h, "lookup")
  /\ Enter(h, "put")
  /\ OnlyTask

\* create_mcp_architecture: the design of this key, if it exists.  A stub cannot be read.
LookUpKey(h) ==
  /\ TaskAt(h, "lookup")
  /\ \E seen \in Found :
       /\ CASE seen.status = "none" -> Enter(h, "put")
            [] seen.status = "stub" -> Close(h)
            [] OTHER -> Pursue(h, [task[h] EXCEPT !.pc = "compare", !.read = seen])
       /\ excused' = (excused \/ seen # source)
  /\ UNCHANGED <<source, canvas, snapshot, minted, tasks, hidden, answers>>

\* _existing_canvas: the first canvas has the graph, if there is one.
Shown(item) == IF canvas # None THEN canvas ELSE item.content

Named(s) == answers' = answers \cup ({s} \ {None})

\* _existing_architecture_response: another architecture is refused, a public one named,
\* and one that is not public published again.
CompareKey(h) ==
  /\ TaskAt(h, "compare")
  /\ \/ /\ Shown(task[h].read) # task[h].asked
        /\ Close(h) /\ UNCHANGED answers
     \/ /\ Shown(task[h].read) = task[h].asked /\ task[h].read.public
        /\ Close(h) /\ Named(task[h].read.link)
     \/ /\ Shown(task[h].read) = task[h].asked /\ ~task[h].read.public
        /\ Enter(h, "source") /\ UNCHANGED answers
  /\ UNCHANGED <<source, canvas, snapshot, minted, tasks, hidden, excused>>

\* create_diagram: whatever item has the id is replaced.
PutSource(h) ==
  /\ TaskAt(h, "put")
  /\ source' = [NoItem EXCEPT !.status = "stored", !.content = task[h].asked,
                              !.at = tasks]
  /\ Enter(h, "source")
  /\ UNCHANGED <<canvas, snapshot, minted, tasks>> /\ Unmarked

\* publish_diagram, one call a step.
ReadSource(h) ==
  /\ TaskAt(h, "source")
  /\ \E seen \in Found :
       IF seen.status = "stored"
       THEN Pursue(h, [task[h] EXCEPT !.pc = "canvases", !.read = seen])
       ELSE Close(h)
  /\ OnlyTask

\* Mutant: every publication makes a snapshot of its own.
ReadCanvasesAnew(h) ==
  /\ TaskAt(h, "canvases")
  /\ \E s \in Snaps \ minted :
       /\ minted' = minted \cup {s}
       /\ Pursue(h, [task[h] EXCEPT !.pc = "previous", !.snap = s,
                                    !.content = Shown(task[h].read)])
  /\ UNCHANGED <<source, canvas, snapshot, tasks>> /\ Unmarked

ReadCanvases(h) ==
  /\ TaskAt(h, "canvases")
  /\ \E s \in IF task[h].read.link # None THEN {task[h].read.link} ELSE Snaps \ minted :
       /\ minted' = minted \cup {s}
       /\ Pursue(h, [task[h] EXCEPT !.pc = "previous", !.snap = s,
                                    !.content = Shown(task[h].read)])
  /\ UNCHANGED <<source, canvas, snapshot, tasks>> /\ Unmarked

\* Mutant: views start again with each publication.
ReadPreviousUncounted(h) ==
  /\ TaskAt(h, "previous")
  /\ IF snapshot[task[h].snap].status = "stub" THEN Close(h) ELSE Enter(h, "snapshot")
  /\ OnlyTask

ReadPrevious(h) ==
  /\ TaskAt(h, "previous")
  /\ IF snapshot[task[h].snap].status = "stub"
     THEN Close(h)
     ELSE Pursue(h, [task[h] EXCEPT !.pc = "snapshot", !.since = 0,
                                    !.views = snapshot[task[h].snap].views])
  /\ OnlyTask

PutSnapshot(h) ==
  /\ TaskAt(h, "snapshot")
  /\ snapshot' = [snapshot EXCEPT ![task[h].snap] =
                    [status |-> "stored", public |-> TRUE,
                     content |-> task[h].content, views |-> task[h].views]]
  /\ Enter(h, "link")
  /\ UNCHANGED <<source, canvas, minted, tasks>> /\ Unmarked

\* An update makes an item where there is none.
Updated(item) == IF item.status = "none" THEN [item EXCEPT !.status = "stub"] ELSE item

LinkSource(h) ==
  /\ TaskAt(h, "link")
  /\ source' = [Updated(source) EXCEPT !.public = TRUE, !.link = task[h].snap]
  /\ IF task[h].op = "create" THEN Named(task[h].snap) ELSE UNCHANGED answers
  /\ Close(h)
  /\ UNCHANGED <<canvas, snapshot, minted, tasks, hidden, excused>>

\* unpublish_diagram: of a snapshot, its source is hidden too.
ReadTarget(h) ==
  /\ TaskAt(h, "target")
  /\ \/ /\ task[h].snap = None /\ source.status = "stored"
        /\ Pursue(h, [task[h] EXCEPT !.pc = "hide", !.snap = source.link,
                                     !.read = source])
     \/ /\ task[h].snap # None /\ snapshot[task[h].snap].status = "stored"
        /\ Enter(h, "hide")
     \/ /\ IF task[h].snap = None THEN source.status # "stored"
                                  ELSE snapshot[task[h].snap].status # "stored"
        /\ Close(h)
  /\ OnlyTask

\* An unpublication of the design that no publication ran beside has hidden it.
Hid(h) ==
  /\ hidden' = (hidden \/ (task[h].alone /\ task[h].read.status = "stored"))
  /\ Close(h)

\* Mutant: only the design is hidden.
HideSourceOnly(h) ==
  /\ TaskAt(h, "hide")
  /\ source' = [Updated(source) EXCEPT !.public = FALSE]
  /\ Hid(h)
  /\ UNCHANGED <<canvas, snapshot, minted, tasks, excused, answers>>

HideSource(h) ==
  /\ TaskAt(h, "hide")
  /\ source' = [Updated(source) EXCEPT !.public = FALSE]
  /\ IF task[h].snap = None THEN Hid(h)
     ELSE Enter(h, "hideSnapshot") /\ UNCHANGED hidden
  /\ UNCHANGED <<canvas, snapshot, minted, tasks, excused, answers>>

HideSnapshot(h) ==
  /\ TaskAt(h, "hideSnapshot")
  /\ snapshot' = [snapshot EXCEPT ![task[h].snap] =
                    [Updated(@) EXCEPT !.public = FALSE]]
  /\ Hid(h)
  /\ UNCHANGED <<source, canvas, minted, tasks, excused, answers>>

\* delete_diagram: a consistent read, a transaction that deletes the design as it was
\* read with the snapshot it was linked to, and then the canvases.
ReadDoomed(h) ==
  /\ TaskAt(h, "read")
  /\ IF source.status = "stored"
     THEN Pursue(h, [task[h] EXCEPT !.pc = "transact", !.read = source])
     ELSE Close(h)
  /\ OnlyTask

DeleteItems(h) ==
  /\ TaskAt(h, "transact")
  /\ IF source.status = "stored" /\ source.at = task[h].read.at
     THEN /\ source' = NoItem
          /\ snapshot' = [s \in Snaps |->
                            IF s = task[h].read.link THEN NoSnapshot ELSE snapshot[s]]
          /\ answers' = {}
          /\ Enter(h, "rows")
     ELSE Close(h) /\ UNCHANGED <<source, snapshot, answers>>
  /\ UNCHANGED <<canvas, minted, tasks, hidden, excused>>

DeleteCanvases(h) ==
  /\ TaskAt(h, "rows")
  /\ canvas' = None
  /\ Close(h)
  /\ UNCHANGED <<source, snapshot, minted, tasks>> /\ Unmarked

\* The process stops after any call, or a call raises.
Cut(h) ==
  /\ "abort" \in Faults
  /\ ~TaskAt(h, "idle")
  /\ excused' = (excused \/ TaskAt(h, "link"))
  /\ Close(h)
  /\ UNCHANGED <<source, canvas, snapshot, minted, tasks, hidden, answers>>

Step(h) ==
  \/ BeginPublish(h)
  \/ BeginCreate(h)
  \/ BeginUnpublish(h)
  \/ BeginDelete(h)
  \/ LookUpKey(h)
  \/ CompareKey(h)
  \/ PutSource(h)
  \/ ReadSource(h)
  \/ ReadCanvases(h)
  \/ ReadPrevious(h)
  \/ PutSnapshot(h)
  \/ LinkSource(h)
  \/ ReadTarget(h)
  \/ HideSource(h)
  \/ HideSnapshot(h)
  \/ ReadDoomed(h)
  \/ DeleteItems(h)
  \/ DeleteCanvases(h)
  \/ Cut(h)

-----------------------------------------------------------------------------
(* Requests of one write *)

\* get_public_diagram, by the snapshot's id or by that of the design linked to it: the
\* view is counted where it is public.
View(s) ==
  /\ Counted
  /\ snapshot[s].public
  /\ snapshot' = [snapshot EXCEPT ![s].views = @ + 1]
  /\ task' = [h \in Handlers |->
                IF TaskAt(h, "snapshot") /\ task[h].snap = s
                THEN [task[h] EXCEPT !.since = @ + 1] ELSE task[h]]
  /\ UNCHANGED <<source, canvas, minted>> /\ Unmarked

\* save_canvas_content of the first canvas, with the parent's new updatedAt.
EditCanvas ==
  /\ Counted
  /\ source.status = "stored"
  /\ canvas' \in Contents \ {canvas}
  /\ source' = [source EXCEPT !.at = tasks']
  /\ UNCHANGED <<snapshot, minted, task>> /\ Unmarked

\* Nothing is left to do within the bounds on requests and on snapshots.
PublishingRest ==
  /\ tasks = MaxTasks
  /\ \A h \in Handlers : task[h].pc \in {"idle", "canvases"}
  /\ UNCHANGED publishingVars

\* No design yet, one that was never published, or one that is public.
PublishingInit ==
  /\ \E c \in Contents, s \in Snaps :
       \/ source = NoItem /\ minted = {}
       \/ /\ source = [NoItem EXCEPT !.status = "stored", !.content = c]
          /\ minted = {}
       \/ /\ source = [NoItem EXCEPT !.status = "stored", !.content = c,
                                     !.public = TRUE, !.link = s]
          /\ minted = {s}
  /\ snapshot = [s \in Snaps |->
       IF s \in minted
       THEN [NoSnapshot EXCEPT !.status = "stored", !.public = TRUE,
                               !.content = source.content]
       ELSE NoSnapshot]
  /\ canvas = None
  /\ task = [h \in Handlers |-> NoTask]
  /\ tasks = 0
  /\ hidden = FALSE /\ excused = FALSE
  /\ answers = {}

PublishingNext ==
  \/ \E h \in Handlers : Step(h)
  \/ \E s \in Snaps : View(s)
  \/ EditCanvas
  \/ PublishingRest

PublishingSpec == PublishingInit /\ [][PublishingNext]_publishingVars

-----------------------------------------------------------------------------
(* Safety *)

\* A design that was unpublished, with no publication beside it, is not public and
\* neither is the snapshot it is linked to, whatever else runs, until a publication
\* begins (unpublish_diagram's two updates).
UnpublishHides ==
  hidden =>
    /\ ~source.public
    /\ source.link # None => ~snapshot[source.link].public

\* While publications neither overlap each other or a delete nor are cut short, a design
\* has one public address: no other snapshot is public, and every MCP client that used
\* the key was named the same one, retries included (publicSnapshotId,
\* _stable_diagram_id, _existing_architecture_response).
OneAddress ==
  ~excused =>
    /\ Cardinality(answers) <= 1
    /\ \A s \in Snaps :
         snapshot[s].public =>
           \/ s = source.link
           \/ \E h \in Handlers : TaskAt(h, "link") /\ task[h].snap = s

\* Publishing again keeps the views of a snapshot, but for those that are counted between
\* its read and its write, while publications do not overlap (publish_diagram,
\* get_public_diagram).
ViewsKept ==
  [][\A s \in Snaps :
       ~excused /\ snapshot[s].status = "stored" /\ snapshot'[s].status = "stored" =>
         \/ snapshot'[s].views >= snapshot[s].views
         \/ \E h \in Handlers :
              /\ TaskAt(h, "snapshot") /\ task[h].snap = s
              /\ snapshot'[s].views + task[h].since >= snapshot[s].views]_publishingVars

-----------------------------------------------------------------------------
(* The invariant that the proofs use *)

\* Which steps belong to which request.
TaskShape(h) ==
  LET t == task[h] IN
  /\ t.pc = "idle" => t.op = "none"
  /\ t.pc \in {"lookup", "compare", "put", "source", "canvases", "previous", "snapshot",
               "link"} => Publishing(h)
  /\ t.pc \in {"target", "hide", "hideSnapshot"} => t.op = "unpublish"
  /\ t.pc \in {"read", "transact", "rows"} => t.op = "delete"
  /\ t.pc \in {"previous", "snapshot", "link", "hideSnapshot"} => t.snap \in Snaps
  /\ t.pc = "target" => t.read = NoItem

\* What an unpublication has hidden so far, if no publication has run beside it.
HideSound(h) ==
  LET t == task[h] IN
  t.op = "unpublish" /\ t.alone =>
    /\ \A k \in Handlers : ~Publishing(k)
    /\ t.read.status = "stored" => source.link \in {None, t.snap}
    /\ t.read.status = "stored" /\ t.pc = "hideSnapshot" => ~source.public

\* What the only request that writes knows of the design and of its snapshot.
WriteSound(h) ==
  LET t == task[h] IN
  /\ \A k \in Handlers : Publishing(h) /\ Writing(k) => h = k
  /\ t.pc = "put" => source.link = None
  /\ t.pc \in {"compare", "canvases"} => t.read.link = source.link
  /\ t.pc \in {"previous", "snapshot", "link"} => source.link \in {None, t.snap}
  /\ t.pc = "snapshot" => t.views + t.since >= snapshot[t.snap].views
  /\ t.pc = "transact" => source.status # "stored" \/ source.link = t.read.link

Addressed(s) ==
  s = source.link \/ \E h \in Handlers : TaskAt(h, "link") /\ task[h].snap = s

PublishingConsistent ==
  /\ PublishingTypeOK
  /\ source.status = "none" => source.link = None
  /\ \A h \in Handlers : TaskShape(h) /\ HideSound(h)
  /\ hidden => \A h \in Handlers : ~Publishing(h)
  /\ UnpublishHides
  /\ ~excused =>
       /\ \A h \in Handlers : WriteSound(h)
       /\ answers \subseteq {source.link}
       /\ \A s \in Snaps : snapshot[s].public => Addressed(s)

=============================================================================
