---------------------------- MODULE DiagramLists ----------------------------
(***************************************************************************)
(* A client goes through the list of its designs (GET /diagrams of         *)
(* routers/diagrams.py) page after page, each with the cursor of the page  *)
(* before, first those it owns and then those shared with it, while        *)
(* records come and go.                                                    *)
(*                                                                         *)
(* A page is up to three reads: a query of the owner's records, whose      *)
(* limit counts canvases and snapshots that its filter then drops; a query *)
(* of membership rows; and the designs that these name.  A read that fails *)
(* is answered by the service with nothing and no cursor, so that the list *)
(* goes on, or ends, as if nothing more were there.                        *)
(***************************************************************************)
EXTENDS Servers, Naturals, FiniteSets

Sets == INSTANCE FiniteSetsExt

CONSTANTS
  Owned,        \* keys of the owner's records, in the order of a query
  Shared,       \* keys of designs that others share with the client, likewise
  Limits,       \* sizes of a page a client may ask for
  MaxMutations  \* bound: changes of records during the walk

ASSUME ListAssumption ==
  /\ Owned \cup Shared \subseteq Nat \ {0} /\ Owned \cap Shared = {}
  /\ IsFiniteSet(Owned) /\ IsFiniteSet(Shared)
  /\ Limits \subseteq Nat \ {0} /\ MaxMutations \in Nat
  /\ None \notin [source : {"owned", "shared"}, after : Nat]   \* no cursor

VARIABLES
  kept,       \* the record at each key of the diagrams table
  granted,    \* the client's membership rows: keys of shared designs
  walk,       \* the walk: its next step, limit, cursor, and the page being made
  shown,      \* how often the client was shown each design
  mutations,  \* changes so far
  steady,     \* history: designs the client could open ever since the walk began
  cut         \* history: a read failed, or the owned designs ended with a full page

listVars == <<kept, granted, walk, shown, mutations, steady, cut>>

Kinds == {"none", "design", "canvas", "stub"}   \* a snapshot is dropped like a canvas

Sources == {"owned", "shared"}

Cursor == [source : Sources, after : Owned \cup Shared \cup {0}]

First == [source |-> "owned", after |-> 0]

NoWalk == [at |-> "rest", limit |-> 0, cursor |-> First, items |-> {}, rows |-> {},
           next |-> None]

ListTypeOK ==
  /\ kept \in [Owned \cup Shared -> Kinds]
  /\ granted \subseteq Shared
  /\ walk \in [at : {"rest", "page", "owned", "shared", "load", "end", "error"},
               limit : Limits \cup {0},
               cursor : Cursor,
               items : SUBSET (Owned \cup Shared),   \* of the page so far
               rows : SUBSET Shared,                 \* memberships yet to be loaded
               next : Maybe(Cursor)]
  /\ shown \in [Owned \cup Shared -> Nat]
  /\ mutations \in Nat
  /\ steady \subseteq Owned \cup Shared
  /\ cut \in BOOLEAN

\* What the client may open: a stub is no design.
Open ==
  {k \in Owned : kept[k] = "design"} \cup {k \in granted : kept[k] = "design"}

-----------------------------------------------------------------------------
(* A page *)

SameRecords == UNCHANGED <<kept, granted, mutations, steady>>

BeginList ==
  /\ walk.at = "rest"
  /\ \E n \in Limits : walk' = [walk EXCEPT !.at = "page", !.limit = n]
  /\ steady' = Open
  /\ UNCHANGED <<kept, granted, shown, mutations, cut>>

\* _decode_diagram_cursor: the page goes on where the one before ended.
AskPage ==
  /\ walk.at = "page"
  /\ walk' = [walk EXCEPT !.at = walk.cursor.source]
  /\ SameRecords /\ UNCHANGED <<shown, cut>>

\* The page is answered with these designs, and a cursor or none.
Deliver(items, next) ==
  /\ shown' = [k \in DOMAIN shown |-> IF k \in items THEN shown[k] + 1 ELSE shown[k]]
  /\ walk' = IF next = None THEN [NoWalk EXCEPT !.at = "end"]
             ELSE [NoWalk EXCEPT !.at = "page", !.limit = walk.limit, !.cursor = next]

\* Diagram(**item) raises: the page is answered by an error.
Refuse == walk' = [NoWalk EXCEPT !.at = "error"] /\ UNCHANGED shown

\* What a query with a limit reads of the keys after the cursor.
Evaluated(keys, after, n) ==
  LET rest == {k \in keys : k > after}
  IN  {k \in rest : Cardinality({i \in rest : i <= k}) <= n}

\* Mutant: a page of which the filter leaves nothing is taken for the last.
KeysOfShown(source, keys, after, n) ==
  LET read == Evaluated(keys, after, n)
  IN  IF Cardinality(read) < n \/ \A k \in read : kept[k] # "design" THEN {None}
      ELSE {[source |-> source, after |-> Sets!Max(read)]}

\* LastEvaluatedKey: there if the limit ended the query, which may also be so when
\* nothing is left.
NextKeys(source, keys, after, n) ==
  LET read == Evaluated(keys, after, n)
      key == [source |-> source, after |-> Sets!Max(read)]
  IN  IF Cardinality(read) < n THEN {None}
      ELSE IF {k \in keys : k > after} = read THEN {key, None}
      ELSE {key}

\* get_diagram_summary_page_by_user
QueryOwned ==
  LET stored == {k \in Owned : kept[k] # "none"}
      read == Evaluated(stored, walk.cursor.after, walk.limit)
      items == {k \in read : kept[k] # "canvas"}
  IN  /\ walk.at = "owned"
      /\ SameRecords
      /\ \/ /\ \E k \in items : kept[k] = "stub"
            /\ Refuse
            /\ UNCHANGED cut
         \/ /\ \A k \in items : kept[k] = "design"
            /\ \E next \in NextKeys("owned", stored, walk.cursor.after, walk.limit) :
                 \/ /\ next # None
                    /\ Deliver(items, next)
                    /\ UNCHANGED cut
                 \/ /\ next = None /\ Cardinality(items) < walk.limit
                    /\ walk' = [walk EXCEPT !.at = "shared", !.items = items,
                                            !.cursor = [source |-> "shared", after |-> 0]]
                    /\ UNCHANGED <<shown, cut>>
                 \/ /\ next = None /\ Cardinality(items) = walk.limit
                    /\ Deliver(items, None)
                    /\ cut' = TRUE
         \/ /\ "abort" \in Faults
            /\ walk' = [walk EXCEPT !.at = "shared",
                                    !.cursor = [source |-> "shared", after |-> 0]]
            /\ cut' = TRUE
            /\ UNCHANGED shown

\* get_shared_diagram_summary_page_for_user: as many rows as the page has room for.
QueryShared ==
  LET room == walk.limit - Cardinality(walk.items)
  IN  /\ walk.at = "shared"
      /\ SameRecords
      /\ \/ \E next \in NextKeys("shared", granted, walk.cursor.after, room) :
              /\ walk' = [walk EXCEPT !.at = "load", !.next = next,
                            !.rows = Evaluated(granted, walk.cursor.after, room)]
              /\ UNCHANGED <<shown, cut>>
         \/ /\ "abort" \in Faults
            /\ Deliver(walk.items, None)
            /\ cut' = TRUE

\* _batch_get_items: some keys stay unprocessed five times over, or the read fails.
Unprocessed == "abort" \in Faults /\ walk.rows # {}

\* _load_shared_diagrams: a row without its design is passed over; if the read gives up,
\* so does the list, with the cursor that it had.
LoadShared ==
  /\ walk.at = "load"
  /\ SameRecords
  /\ \/ /\ \E k \in walk.rows : kept[k] = "stub"
        /\ Refuse
        /\ UNCHANGED cut
     \/ /\ \A k \in walk.rows : kept[k] # "stub"
        /\ Deliver(walk.items \cup {k \in walk.rows : kept[k] = "design"}, walk.next)
        /\ UNCHANGED cut
     \/ /\ Unprocessed
        /\ Deliver(walk.items, None)
        /\ cut' = TRUE

-----------------------------------------------------------------------------
(* Changes of records *)

Mutate ==
  /\ mutations < MaxMutations
  /\ mutations' = mutations + 1
  /\ steady' = steady \cap Open'
  /\ UNCHANGED <<walk, shown, cut>>

\* create_diagram, a canvas or a snapshot, at a new key anywhere among the others.
StoreRecord ==
  \E k \in Owned, kind \in {"design", "canvas"} :
    /\ kept[k] = "none"
    /\ kept' = [kept EXCEPT ![k] = kind]
    /\ UNCHANGED granted
    /\ Mutate

\* delete_diagram by the owner, whose rows are removed later, or of a canvas.
DropRecord ==
  \E k \in Owned \cup Shared :
    /\ kept[k] # "none"
    /\ kept' = [kept EXCEPT ![k] = "none"]
    /\ UNCHANGED granted
    /\ Mutate

\* An update that comes after the delete (publish_diagram, update_diagram).
LateUpdate ==
  \E k \in Owned \cup Shared :
    /\ kept[k] = "none"
    /\ kept' = [kept EXCEPT ![k] = "stub"]
    /\ UNCHANGED granted
    /\ Mutate

GrantRow ==
  \E k \in Shared :
    /\ kept[k] = "design" /\ k \notin granted
    /\ granted' = granted \cup {k}
    /\ UNCHANGED kept
    /\ Mutate

\* delete_diagram: the rows of a design that is gone.
SweepRow ==
  \E k \in granted :
    /\ kept[k] # "design"
    /\ granted' = granted \ {k}
    /\ UNCHANGED kept
    /\ Mutate

ListRest == walk.at \in {"end", "error"} /\ UNCHANGED listVars

ListInit ==
  /\ kept \in {table \in [Owned \cup Shared -> {"none", "design", "canvas"}] :
                 \A k \in Shared : table[k] = "design"}
  /\ granted \in SUBSET Shared
  /\ walk = NoWalk
  /\ shown = [k \in Owned \cup Shared |-> 0]
  /\ mutations = 0
  /\ steady = {}
  /\ cut = FALSE

ListNext ==
  \/ BeginList \/ AskPage
  \/ QueryOwned \/ QueryShared \/ LoadShared
  \/ StoreRecord \/ DropRecord \/ LateUpdate \/ GrantRow \/ SweepRow
  \/ ListRest

ListSpec == ListInit /\ [][ListNext]_listVars

-----------------------------------------------------------------------------
(* Safety *)

\* However pages, filters and room for shared designs fall, and whatever is created,
\* shared or deleted between two reads: nothing is shown twice; and once the list ended
\* without a failed read, every design that the client could open all along was shown
\* (get_diagrams, get_diagram_summary_page_by_user).  It ends without the shared
\* designs if a full page of owned ones comes without a key.
ListComplete ==
  /\ \A k \in Owned \cup Shared : shown[k] <= 1
  /\ walk.at = "end" /\ ~cut => \A k \in steady : shown[k] = 1

\* The keys that a cursor has gone past: those of the owner come before those of others.
GonePast(cursor) ==
  IF cursor.source = "owned" THEN {k \in Owned : k <= cursor.after}
  ELSE Owned \cup {k \in Shared : k <= cursor.after}

\* Where a step of the walk may find it.
WalkShape ==
  /\ walk.at \in {"page", "owned", "shared", "load"} => walk.limit \in Limits
  /\ walk.at = "rest" => walk = NoWalk
  /\ walk.at = "page" => walk.items = {}
  /\ walk.at = "owned" => walk.items = {} /\ walk.cursor.source = "owned"
  /\ walk.at \in {"shared", "load"} =>
       /\ walk.cursor.source = "shared"
       /\ walk.items \subseteq Owned
  /\ walk.at = "shared" => Cardinality(walk.items) < walk.limit

\* Only what was gone past was shown, or is on the page being made; unless a read failed,
\* whatever was there all along and was gone past has been, or is.
WalkSound ==
  walk.at \notin {"end", "error"} =>
    /\ \A k \in Owned \cup Shared : shown[k] = 1 => k \in GonePast(walk.cursor) \ walk.items
    /\ ~cut => \A k \in steady \cap GonePast(walk.cursor) : shown[k] = 1 \/ k \in walk.items

\* The memberships read lie ahead, and none between them and the next cursor was left out.
LoadSound ==
  walk.at = "load" =>
    LET ahead == {k \in Shared : /\ k > walk.cursor.after
                                 /\ walk.next # None => k <= walk.next.after}
    IN  /\ walk.next # None =>
             walk.next.source = "shared" /\ walk.cursor.after <= walk.next.after
        /\ walk.rows \subseteq ahead
        /\ steady \cap ahead \subseteq walk.rows

\* The inductive invariant of the list.
ListConsistent ==
  /\ ListTypeOK
  /\ steady \subseteq Open
  /\ WalkShape
  /\ WalkSound
  /\ LoadSound
  /\ ListComplete

=============================================================================
