--------------------------- MODULE DiagramSharing ---------------------------
(***************************************************************************)
(* The collaborators of one design, as its owner shares, changes, removes  *)
(* and deletes from several tabs while people with access edit it: the     *)
(* sharing routes of routers/diagrams.py and the methods of                *)
(* DynamoDBService behind them.                                            *)
(*                                                                         *)
(* A design keeps its collaborators in its own item; each collaborator     *)
(* also has a membership row, which decides on access.  A change reads the *)
(* item and writes item and row in one transaction, on the condition that  *)
(* the item's updatedAt is unchanged, MaxTries times.  A delete removes    *)
(* the item first and the rows one by one afterwards.                      *)
(*                                                                         *)
(* Faults: "stop", a call raises or the process stops; "blind", a read of  *)
(* the collaborators fails, which get_diagram_collaborators reports as a   *)
(* design without any.  A transaction carries a token, so that sending it  *)
(* again applies it once.                                                  *)
(***************************************************************************)
EXTENDS Naturals, FiniteSets

CONSTANTS
  Users,             \* whoever the owner may share with
  Permissions,
  Edit,              \* Permission.EDIT
  None,
  Handlers,          \* server processes, each running one request at a time
  MaxCollaborators,  \* 50
  MaxTries,          \* 3
  MaxRequests,       \* bound: requests that ever arrive
  Faults             \* which of "stop" and "blind" may happen

ASSUME SharingAssumption ==
  /\ Edit \in Permissions
  /\ None \notin Permissions
  /\ IsFiniteSet(Users) /\ IsFiniteSet(Handlers)
  /\ MaxCollaborators \in Nat \ {0} /\ MaxTries \in Nat /\ MaxRequests \in Nat
  /\ Faults \subseteq {"stop", "blind"}

VARIABLES
  status,      \* of the item: "partial" lacks the attributes that Diagram requires
  people,      \* collaborators: permission of each user
  updatedAt,   \* of the item, 0 without one
  rows,        \* membership rows: permission of each user
  req,         \* the request of each handler
  clock,       \* time: every write stamps the item with a time of its own
  issued,      \* requests that have arrived
  blind,       \* history: limit checks whose read failed
  strays       \* history: users whose row a removal or an unfinished delete left

vars == <<status, people, updatedAt, rows, req, clock, issued, blind, strays>>

Access == Permissions \cup {None}

Members == [Users -> Access]

Nobody == [u \in Users |-> None]

Listed(members) == {u \in Users : members[u] # None}

Request == [pc : {"idle", "limit", "existing", "current", "read", "persist",
                  "deleteread", "delete", "sweep", "edit", "clear"},
            who : Users \cup {None},
            grant : Access,          \* None removes the collaborator
            seen : Members,          \* the collaborators as this request read them
            at : Nat,                \* and the item's updatedAt
            tries : Nat,
            left : SUBSET Users]     \* rows that a delete has yet to remove

Idle == [pc |-> "idle", who |-> None, grant |-> None, seen |-> Nobody, at |-> 0,
         tries |-> 0, left |-> {}]

TypeOK ==
  /\ status \in {"stored", "none", "partial"}
  /\ people \in Members
  /\ updatedAt \in Nat
  /\ rows \in Members
  /\ req \in [Handlers -> Request]
  /\ clock \in Nat
  /\ issued \in Nat
  /\ blind \in Nat
  /\ strays \subseteq Users

-----------------------------------------------------------------------------
(* Steps of a request *)

Continue(h, request) == req' = [req EXCEPT ![h] = request]

Reply(h) == Continue(h, Idle)

Goto(h, pc) == Continue(h, [req[h] EXCEPT !.pc = pc])

ReadOnly == UNCHANGED <<status, people, updatedAt, rows, clock, issued, strays>>

\* A new request, its first call still to come.
Begin(h, request) ==
  /\ req[h].pc = "idle"
  /\ issued < MaxRequests
  /\ issued' = issued + 1
  /\ Continue(h, request)
  /\ UNCHANGED <<status, people, updatedAt, rows, clock, blind, strays>>

BeginShare(h) ==
  \E u \in Users, p \in Permissions :
    Begin(h, [Idle EXCEPT !.pc = "limit", !.who = u, !.grant = p])

BeginPermission(h) ==
  \E u \in Users, p \in Permissions :
    Begin(h, [Idle EXCEPT !.pc = "current", !.who = u, !.grant = p])

BeginRemove(h) ==
  \E u \in Users : Begin(h, [Idle EXCEPT !.pc = "read", !.who = u])

BeginDelete(h) == Begin(h, [Idle EXCEPT !.pc = "deleteread"])

\* _get_diagram_for_update: by the owner, or by a user whose row allows it.
BeginEdit(h) ==
  /\ status = "stored"
  /\ \E u \in Users \cup {None} :
       /\ u # None => rows[u] = Edit
       /\ Begin(h, [Idle EXCEPT !.pc = "edit", !.who = u])

\* Mutant: one collaborator too many.
LimitLeftOrFull(members) == Cardinality(Listed(members)) <= MaxCollaborators

\* validate_collaborator_limit
LimitLeft(members) == Cardinality(Listed(members)) < MaxCollaborators

\* _validate_share_request; without a design the request ends here.
CheckLimit(h) ==
  /\ req[h].pc = "limit"
  /\ \/ /\ IF status = "stored" /\ LimitLeft(people) THEN Goto(h, "existing") ELSE Reply(h)
        /\ UNCHANGED blind
     \/ /\ "blind" \in Faults
        /\ status = "stored"
        /\ blind' = blind + 1
        /\ Goto(h, "existing")
  /\ ReadOnly

\* _update_or_create_share: shared already, shared otherwise, or new.
FindExisting(h) ==
  /\ req[h].pc = "existing"
  /\ \E seen \in {people} \cup (IF "blind" \in Faults THEN {Nobody} ELSE {}) :
       LET existing == seen[req[h].who]
       IN  IF existing = None THEN Goto(h, "read")
           ELSE IF existing = req[h].grant THEN Reply(h)
           ELSE Goto(h, "current")
  /\ UNCHANGED blind
  /\ ReadOnly

\* update_collaborator_permission: only of someone on the list.
FindCurrent(h) ==
  /\ req[h].pc = "current"
  /\ IF status = "stored" /\ people[req[h].who] # None THEN Goto(h, "read") ELSE Reply(h)
  /\ UNCHANGED blind
  /\ ReadOnly

\* The consistent read of a change or a delete; a design that is not there, or cannot
\* be read, ends the request.
ReadDesign(h, from, to) ==
  /\ req[h].pc = from
  /\ IF status = "stored"
     THEN Continue(h, [req[h] EXCEPT !.pc = to, !.seen = people, !.at = updatedAt])
     ELSE Reply(h)
  /\ UNCHANGED blind
  /\ ReadOnly

PersistRead(h) == ReadDesign(h, "read", "persist")

DeleteRead(h) == ReadDesign(h, "deleteread", "delete")

\* Mutant: any stored design will do.
UnchangedIfStored(request) == status = "stored"

\* The condition of both transactions: the item is the one that was read.
Unchanged(request) == status # "none" /\ updatedAt = request.at

\* Mutant: the row keeps the permission that it had.
RowOfExisting(request) ==
  IF request.seen[request.who] # None THEN request.seen[request.who] ELSE request.grant

\* _collaborator_membership_operation: collaborator or existing.  The row of a
\* collaborator who is removed is put again.
RowOf(request) ==
  IF request.grant # None THEN request.grant ELSE request.seen[request.who]

Stamp == clock' = clock + 1 /\ updatedAt' = clock'

\* _persist_collaborator_change: the transaction, or another try.
Persist(h) ==
  LET r == req[h]
  IN  /\ r.pc = "persist"
      /\ \/ /\ Unchanged(r)
            /\ people' = [r.seen EXCEPT ![r.who] = r.grant]
            /\ rows' = [rows EXCEPT ![r.who] = RowOf(r)]
            /\ Stamp
            /\ strays' = IF r.grant = None /\ RowOf(r) # None
                         THEN strays \cup {r.who} ELSE strays \ {r.who}
            /\ Reply(h)
         \/ /\ ~Unchanged(r)
            /\ IF r.tries + 1 < MaxTries
               THEN Continue(h, [r EXCEPT !.pc = "read", !.tries = r.tries + 1])
               ELSE Reply(h)
            /\ UNCHANGED <<people, rows, updatedAt, clock, strays>>
      /\ UNCHANGED <<status, issued, blind>>

\* delete_diagram's transaction
DeleteItem(h) ==
  LET r == req[h]
  IN  /\ r.pc = "delete"
      /\ IF Unchanged(r)
         THEN /\ status' = "none"
              /\ people' = Nobody
              /\ updatedAt' = 0
              /\ Continue(h, [r EXCEPT !.pc = "sweep", !.left = Listed(r.seen)])
         ELSE /\ Reply(h)
              /\ UNCHANGED <<status, people, updatedAt>>
      /\ UNCHANGED <<rows, clock, issued, blind, strays>>

\* Mutant: a row is passed over.
SweepSkips(h) ==
  /\ req[h].pc = "sweep"
  /\ \/ /\ req[h].left = {}
        /\ Reply(h)
        /\ UNCHANGED rows
     \/ \E u \in req[h].left :
          /\ rows' = [rows EXCEPT ![u] = None]
          /\ Reply(h)
  /\ UNCHANGED <<status, people, updatedAt, clock, issued, blind, strays>>

\* The rows of the collaborators that the delete read, one after the other.
Sweep(h) ==
  /\ req[h].pc = "sweep"
  /\ \/ /\ req[h].left = {}
        /\ Reply(h)
        /\ UNCHANGED rows
     \/ \E u \in req[h].left :
          /\ rows' = [rows EXCEPT ![u] = None]
          /\ Continue(h, [req[h] EXCEPT !.left = @ \ {u}])
  /\ UNCHANGED <<status, people, updatedAt, clock, issued, blind, strays>>

\* update_diagram writes whether or not there is a design; a graph is cleared after.
EditWrite(h) ==
  /\ req[h].pc = "edit"
  /\ status' = IF status = "none" THEN "partial" ELSE status
  /\ Stamp
  /\ Goto(h, "clear") \/ Reply(h)
  /\ UNCHANGED <<people, rows, issued, blind, strays>>

\* clear_diagram_graph, also from the canvas routes: only an item that is there.
EditClear(h) ==
  /\ req[h].pc = "clear"
  /\ IF status # "none" THEN Stamp ELSE UNCHANGED <<updatedAt, clock>>
  /\ Reply(h)
  /\ UNCHANGED <<status, people, rows, issued, blind, strays>>

Handle(h) ==
  \/ BeginShare(h)
  \/ BeginPermission(h)
  \/ BeginRemove(h)
  \/ BeginDelete(h)
  \/ BeginEdit(h)
  \/ CheckLimit(h)
  \/ FindExisting(h)
  \/ FindCurrent(h)
  \/ PersistRead(h)
  \/ Persist(h)
  \/ DeleteRead(h)
  \/ DeleteItem(h)
  \/ Sweep(h)
  \/ EditWrite(h)
  \/ EditClear(h)

\* The handler stops before its next call, and its request with it.
Stop(h) ==
  /\ "stop" \in Faults
  /\ req[h].pc # "idle"
  /\ Reply(h)
  /\ strays' = strays \cup req[h].left
  /\ UNCHANGED <<status, people, updatedAt, rows, clock, issued, blind>>

\* No more requests: the bound is used up and every handler is idle.
Rest ==
  /\ issued = MaxRequests
  /\ \A h \in Handlers : req[h].pc = "idle"
  /\ UNCHANGED vars

\* A design as create_diagram stores it.
Init ==
  /\ status = "stored"
  /\ people = Nobody
  /\ updatedAt = 1
  /\ rows = Nobody
  /\ req = [h \in Handlers |-> Idle]
  /\ clock = 1
  /\ issued = 0
  /\ blind = 0
  /\ strays = {}

Next ==
  \/ \E h \in Handlers : Handle(h) \/ Stop(h)
  \/ Rest

Spec == Init /\ [][Next]_vars

-----------------------------------------------------------------------------
(* Safety *)

\* Every step implements one step of CollaboratorList or none: although a change writes
\* the whole list from an earlier read, no interleaving of shares, permission changes,
\* removals, deletes and edits loses a change or brings a deleted design back.
Collaboration == INSTANCE CollaboratorList

ImplementsList == Collaboration!Spec

\* Item and row agree on everyone who is on the list, whatever happened between the
\* read of a change and its transaction (_persist_collaborator_change).
ListedHaveRows ==
  status = "stored" => \A u \in Listed(people) : rows[u] = people[u]

\* A row without a collaborator is one that a removal left, or that a delete is about
\* to remove or was stopped before removing: a delete that finishes leaves no row of
\* the collaborators the design had when it was deleted, however late they were
\* added (delete_diagram).
RowsAccounted ==
  Listed(rows) \subseteq
    Listed(people) \cup strays \cup UNION {req[h].left : h \in Handlers}

\* Whom a request will put on the list, unless something fails.
Granting(request) ==
  IF request.grant # None /\ request.pc \in {"existing", "read", "persist"}
  THEN {request.who} ELSE {}

Pending == UNION {Granting(req[h]) : h \in Handlers}

\* The limit is checked long before the change is written, and permission changes
\* add back who was removed meanwhile: even so, the list exceeds its limit by at most
\* one for each further handler, and one for each check whose read failed
\* (validate_collaborator_limit, _update_or_create_share).
ExcessExplained ==
  Cardinality(Listed(people)) <=
    MaxCollaborators - 1 + Cardinality(Handlers) + blind

\* The same with the pending changes; this is inductive.
ExcessBounded ==
  Cardinality(Listed(people) \cup Pending) <=
    MaxCollaborators - 1 + Cardinality(Handlers) + blind

\* What was read is what is stored, unless updatedAt differs.
ReadMatches(request) ==
  /\ request.at <= clock
  /\ request.pc \in {"persist", "delete"} =>
       /\ request.at > 0
       /\ request.at = updatedAt => status = "stored" /\ request.seen = people
  /\ request.pc \in {"limit", "existing", "current", "read", "persist"} =>
       request.who \in Users
  /\ request.pc \in {"limit", "existing", "current"} => request.grant # None
  /\ request.left # {} => request.pc = "sweep" /\ status # "stored"

\* The inductive invariant: updatedAt tells the versions of the item apart, so that a
\* transaction whose condition holds writes to what its request read.
Consistent ==
  /\ TypeOK
  /\ updatedAt <= clock
  /\ status = "none" <=> updatedAt = 0
  /\ status # "stored" => people = Nobody
  /\ \A h \in Handlers : ReadMatches(req[h])
  /\ ListedHaveRows
  /\ RowsAccounted
  /\ ExcessBounded

\* Removing a collaborator removes their membership, which is what gives access:
\* "Remove a collaborator and their indexed membership atomically."
MembersAreListed ==
  status = "stored" => \A u \in Listed(rows) : people[u] = rows[u]

=============================================================================
