----------------------- MODULE DiagramSharingProofs -----------------------
(***************************************************************************)
(* Proofs about DiagramSharing, for any number of users, permissions and   *)
(* handlers, any limits and whichever faults happen.                       *)
(***************************************************************************)
EXTENDS DiagramSharing, Functions, FiniteSetTheorems, TLAPS

-----------------------------------------------------------------------------
(* The size of the list *)

\* Every request puts one user at most on the list.
LEMMA OneEach ==
  ASSUME NEW requests \in [Handlers -> Request]
  PROVE  LET pending == UNION {Granting(requests[h]) : h \in Handlers}
         IN  /\ IsFiniteSet(pending)
             /\ Cardinality(pending) \in Nat
             /\ Cardinality(pending) <= Cardinality(Handlers)
<1> DEFINE pending == UNION {Granting(requests[h]) : h \in Handlers}
           granting == {h \in Handlers : Granting(requests[h]) # {}}
           target == [h \in granting |-> requests[h].who]
<1>1. \A h \in granting : Granting(requests[h]) = {requests[h].who}
  BY DEF Granting
<1>2. target \in [granting -> pending]
  BY <1>1
<1>3. \A u \in pending : \E h \in granting : target[h] = u
  <2> SUFFICES ASSUME NEW u \in pending PROVE \E h \in granting : target[h] = u
    OBVIOUS
  <2>1. PICK h \in Handlers : u \in Granting(requests[h])
    OBVIOUS
  <2>2. h \in granting
    BY <2>1
  <2>3. target[h] = u
    BY <1>1, <2>1, <2>2
  <2>4. QED  BY <2>2, <2>3
<1>4. target \in Surjection(granting, pending)
  <2> HIDE DEF target, granting, pending
  <2>1. QED  BY <1>2, <1>3 DEF Surjection
<1>5. /\ IsFiniteSet(granting)
      /\ Cardinality(granting) <= Cardinality(Handlers)
  <2>1. granting \in SUBSET Handlers
    OBVIOUS
  <2> HIDE DEF granting
  <2>2. QED  BY <2>1, SharingAssumption, FS_Subset
<1> HIDE DEF target, granting, pending
<1>6. /\ IsFiniteSet(pending)
      /\ Cardinality(pending) <= Cardinality(granting)
  BY <1>4, <1>5, FS_Surjection
<1>7. /\ Cardinality(pending) \in Nat
      /\ Cardinality(granting) \in Nat
      /\ Cardinality(Handlers) \in Nat
  BY <1>5, <1>6, SharingAssumption, FS_CardinalityType
<1>8. QED  BY <1>5, <1>6, <1>7 DEF pending

LEMMA ListIsFinite ==
  ASSUME NEW members
  PROVE  IsFiniteSet(Listed(members)) /\ Cardinality(Listed(members)) \in Nat
<1>1. Listed(members) \in SUBSET Users
  BY DEF Listed
<1>2. IsFiniteSet(Listed(members))
  BY <1>1, SharingAssumption, FS_Subset
<1>3. QED  BY <1>2, FS_CardinalityType

\* Nothing joins the list or is about to: the bound stays.
LEMMA ExcessKept ==
  ASSUME req \in [Handlers -> Request], blind \in Nat, blind' \in Nat,
         blind <= blind', ExcessBounded,
         (Listed(people) \cup Pending)' \subseteq Listed(people) \cup Pending
  PROVE  ExcessBounded'
<1> DEFINE before == Listed(people) \cup Pending
           after == (Listed(people) \cup Pending)'
<1>1. IsFiniteSet(before)
  <2>1. IsFiniteSet(Pending)
    BY OneEach DEF Pending
  <2>2. IsFiniteSet(Listed(people))
    BY ListIsFinite
  <2>3. QED  BY <2>1, <2>2, FS_Union
<1>2. IsFiniteSet(after) /\ Cardinality(after) <= Cardinality(before)
  BY <1>1, FS_Subset
<1>3. Cardinality(before) \in Nat /\ Cardinality(after) \in Nat
  BY <1>1, <1>2, FS_CardinalityType
<1>4. Cardinality(Handlers) \in Nat
  BY SharingAssumption, FS_CardinalityType
<1>5. Cardinality(before) <= MaxCollaborators - 1 + Cardinality(Handlers) + blind
  BY DEF ExcessBounded
<1> HIDE DEF before, after
<1>6. Cardinality(after) <= MaxCollaborators - 1 + Cardinality(Handlers) + blind'
  BY <1>2, <1>3, <1>4, <1>5, SharingAssumption
<1>7. QED  BY <1>6 DEF ExcessBounded, after

\* After a check that passed, all handlers together exceed the limit by one less
\* than their number.
LEMMA ExcessAfterCheck ==
  ASSUME (req \in [Handlers -> Request])', blind' \in Nat,
         LimitLeft(people), UNCHANGED people
  PROVE  ExcessBounded'
<1>1. /\ IsFiniteSet(Pending')
      /\ Cardinality(Pending') \in Nat
      /\ Cardinality(Pending') <= Cardinality(Handlers)
  <2>1. Pending' = UNION {Granting(req'[h]) : h \in Handlers}
    BY DEF Pending, Granting
  <2>2. QED  BY <2>1, OneEach
<1> DEFINE list == Listed(people)
           both == list \cup Pending'
<1>2. IsFiniteSet(list) /\ Cardinality(list) \in Nat
  BY ListIsFinite
<1>3. Cardinality(list) < MaxCollaborators
  BY DEF LimitLeft
<1>4. /\ IsFiniteSet(both)
      /\ Cardinality(both) =
           Cardinality(list) + Cardinality(Pending') - Cardinality(list \cap Pending')
  BY <1>1, <1>2, FS_Union
<1>5. IsFiniteSet(list \cap Pending')
  BY <1>2, FS_Intersection
<1>6. Cardinality(both) \in Nat /\ Cardinality(list \cap Pending') \in Nat
  BY <1>4, <1>5, FS_CardinalityType
<1>7. Cardinality(Handlers) \in Nat
  BY SharingAssumption, FS_CardinalityType
<1>8. (Listed(people) \cup Pending)' = both
  BY DEF Listed
<1> HIDE DEF list, both
<1>9. Cardinality(both) <= MaxCollaborators - 1 + Cardinality(Handlers) + blind'
  BY <1>1, <1>2, <1>3, <1>4, <1>6, <1>7, SharingAssumption
<1>10. QED  BY <1>8, <1>9 DEF ExcessBounded


\* A check whose read failed lets one more pass.
LEMMA ExcessAfterBlind ==
  ASSUME req \in [Handlers -> Request], blind \in Nat, blind' = blind + 1,
         ExcessBounded, NEW h \in Handlers, NEW r, NEW u,
         Continue(h, r), Granting(r) \subseteq {u}, UNCHANGED people
  PROVE  ExcessBounded'
<1> DEFINE before == Listed(people) \cup Pending
           after == (Listed(people) \cup Pending)'
<1>1. IsFiniteSet(before)
  <2>1. IsFiniteSet(Pending)
    BY OneEach DEF Pending
  <2>2. IsFiniteSet(Listed(people))
    BY ListIsFinite
  <2>3. QED  BY <2>1, <2>2, FS_Union
<1>2. after \subseteq before \cup {u}
  <2>1. Listed(people)' = Listed(people)
    BY DEF Listed
  <2>2. Pending' = UNION {Granting(req'[k]) : k \in Handlers}
    BY DEF Pending, Granting
  <2>3. ASSUME NEW v, NEW k \in Handlers, v \in Granting(req'[k])
        PROVE  v \in Pending \cup {u}
    <3>1. CASE k = h
      BY <2>3, <3>1 DEF Continue
    <3>2. CASE k # h
      BY <2>3, <3>2 DEF Continue, Pending
    <3>3. QED  BY <3>1, <3>2
  <2>4. QED  BY <2>1, <2>2, <2>3
<1>3. Cardinality(before) <= MaxCollaborators - 1 + Cardinality(Handlers) + blind
  BY DEF ExcessBounded
<1> HIDE DEF before, after
<1>4. /\ IsFiniteSet(before \cup {u})
      /\ \/ Cardinality(before \cup {u}) = Cardinality(before)
         \/ Cardinality(before \cup {u}) = Cardinality(before) + 1
  BY <1>1, FS_AddElement
<1>5. IsFiniteSet(after) /\ Cardinality(after) <= Cardinality(before \cup {u})
  BY <1>2, <1>4, FS_Subset
<1>6. /\ Cardinality(before) \in Nat /\ Cardinality(after) \in Nat
      /\ Cardinality(Handlers) \in Nat
  BY <1>1, <1>5, SharingAssumption, FS_CardinalityType
<1>7. Cardinality(after) <= MaxCollaborators - 1 + Cardinality(Handlers) + blind'
  BY <1>3, <1>4, <1>5, <1>6, SharingAssumption
<1>8. QED  BY <1>7 DEF ExcessBounded, after

-----------------------------------------------------------------------------
(* Steps *)

LEMMA IdleTyped ==
  /\ Idle \in Request
  /\ Idle.left = {} /\ Idle.at = 0 /\ Idle.pc = "idle"
  /\ Granting(Idle) = {}
  BY DEF Idle, Request, Members, Access, Nobody, Granting

\* A request that has a place for nothing it would do to the item.
Harmless(request) ==
  /\ request \in Request
  /\ ReadMatches(request)
  /\ request.left = {}

LEMMA IdleHarmless ==
  ASSUME Consistent
  PROVE  Harmless(Idle)
<1>1. clock \in Nat
  BY DEF Consistent, TypeOK
<1>2. Idle \in Request /\ Idle.left = {} /\ Idle.at = 0 /\ Idle.pc = "idle"
  BY IdleTyped
<1>3. QED  BY <1>1, <1>2 DEF Harmless, ReadMatches

\* A request goes on or ends, and nothing else changes.
LEMMA Moves ==
  ASSUME Consistent, NEW h \in Handlers, NEW r, Harmless(r),
         Continue(h, r),
         UNCHANGED <<status, people, updatedAt, rows, clock>>,
         issued' \in Nat, blind' \in Nat, blind <= blind',
         strays' \subseteq Users, strays \cup req[h].left \subseteq strays',
         \/ Granting(r) \subseteq Listed(people) \cup Granting(req[h])
         \/ ExcessBounded'
  PROVE  Consistent'
<1>1. /\ TypeOK
      /\ \A k \in Handlers : ReadMatches(req[k])
      /\ r \in Request /\ ReadMatches(r) /\ r.left = {}
  BY DEF Consistent, Harmless
<1>2. req' = [req EXCEPT ![h] = r] /\ req \in [Handlers -> Request]
  BY <1>1 DEF Continue, TypeOK
<1>3. /\ req' \in [Handlers -> Request]
      /\ req'[h] = r
      /\ \A k \in Handlers \ {h} : req'[k] = req[k]
  BY <1>1, <1>2
<1>4. TypeOK'
  BY <1>1, <1>3 DEF TypeOK
<1>5. \A k \in Handlers : ReadMatches(req[k])'
  BY <1>1, <1>3 DEF ReadMatches
<1>6. ListedHaveRows'
  BY DEF Consistent, ListedHaveRows, Listed
<1>7. RowsAccounted'
  <2> SUFFICES ASSUME NEW u \in Listed(rows)
               PROVE  u \in (Listed(people) \cup strays
                              \cup UNION {req[k].left : k \in Handlers})'
    BY DEF RowsAccounted, Listed
  <2>1. u \in Listed(people) \cup strays \cup UNION {req[k].left : k \in Handlers}
    BY DEF Consistent, RowsAccounted
  <2>2. CASE u \in Listed(people) \cup strays
    BY <2>2 DEF Listed
  <2>3. CASE u \in UNION {req[k].left : k \in Handlers}
    <3>1. PICK k \in Handlers : u \in req[k].left
      BY <2>3
    <3>2. CASE k = h
      BY <3>1, <3>2
    <3>3. CASE k # h
      BY <1>3, <3>1, <3>3
    <3>4. QED  BY <3>2, <3>3
  <2>4. QED  BY <2>1, <2>2, <2>3
<1>8. ExcessBounded'
  <2>1. CASE Granting(r) \subseteq Listed(people) \cup Granting(req[h])
    <3>1. Pending' = UNION {Granting(req'[k]) : k \in Handlers}
      BY DEF Pending, Granting
    <3>2. Listed(people)' = Listed(people)
      BY DEF Listed
    <3>3. Pending' \subseteq Listed(people) \cup Pending
      <4> SUFFICES ASSUME NEW u, NEW k \in Handlers, u \in Granting(req'[k])
                   PROVE  u \in Listed(people) \cup Pending
        BY <3>1
      <4>1. CASE k = h
        BY <1>3, <2>1, <4>1 DEF Pending
      <4>2. CASE k # h
        BY <1>3, <4>2 DEF Pending
      <4>3. QED  BY <4>1, <4>2
    <3>4. (Listed(people) \cup Pending)' \subseteq Listed(people) \cup Pending
      BY <3>2, <3>3
    <3>5. blind \in Nat /\ ExcessBounded
      BY <1>1 DEF TypeOK, Consistent
    <3>6. QED  BY <1>2, <3>4, <3>5, ExcessKept
  <2>2. QED  BY <2>1
<1>9. QED  BY <1>4, <1>5, <1>6, <1>7, <1>8 DEF Consistent, Nobody

LEMMA BeginMoves ==
  ASSUME Consistent, NEW h \in Handlers, NEW r, Begin(h, r),
         r \in Request, r.left = {}, r.at = 0,
         r.pc \notin {"persist", "delete"},
         r.pc \in {"limit", "existing", "current", "read"} => r.who \in Users,
         r.pc \in {"limit", "existing", "current"} => r.grant # None,
         Granting(r) = {}
  PROVE  Consistent'
<1>1. TypeOK /\ \A k \in Handlers : ReadMatches(req[k])
  BY DEF Consistent
<1>2. Harmless(r)
  BY <1>1 DEF Harmless, ReadMatches, TypeOK
<1>3. req[h].left = {}
  BY <1>1 DEF ReadMatches, Begin
<1>4. issued' \in Nat /\ blind' \in Nat /\ blind <= blind' /\ strays' \subseteq Users
  BY <1>1 DEF Begin, TypeOK
<1>5. Continue(h, r) /\ UNCHANGED <<status, people, updatedAt, rows, clock, strays>>
  BY DEF Begin
<1>6. strays \cup req[h].left \subseteq strays'
  BY <1>3, <1>5
<1>7. Granting(r) \subseteq Listed(people) \cup Granting(req[h])
  OBVIOUS
<1>8. QED  BY <1>2, <1>4, <1>5, <1>6, <1>7, Moves

LEMMA BeginKeeps ==
  ASSUME Consistent, NEW h \in Handlers,
         \/ BeginShare(h) \/ BeginPermission(h) \/ BeginRemove(h)
         \/ BeginDelete(h) \/ BeginEdit(h)
  PROVE  Consistent'
<1>0. /\ Idle \in Request /\ Idle.left = {} /\ Idle.at = 0
      /\ None \notin Permissions
  BY IdleTyped, SharingAssumption
<1>1. ASSUME NEW u \in Users, NEW p \in Permissions, NEW pc \in {"limit", "current"},
             Begin(h, [Idle EXCEPT !.pc = pc, !.who = u, !.grant = p])
      PROVE  Consistent'
  <2> DEFINE r == [Idle EXCEPT !.pc = pc, !.who = u, !.grant = p]
  <2>1. /\ r \in Request /\ r.left = {} /\ r.at = 0 /\ r.pc = pc
        /\ r.who = u /\ r.grant = p /\ Granting(r) = {}
    BY <1>0 DEF Idle, Request, Access, Granting
  <2> HIDE DEF r
  <2>2. Begin(h, r)
    BY <1>1 DEF r
  <2>3. QED  BY <1>0, <2>1, <2>2, BeginMoves
<1>2. ASSUME NEW u \in Users, Begin(h, [Idle EXCEPT !.pc = "read", !.who = u])
      PROVE  Consistent'
  <2> DEFINE r == [Idle EXCEPT !.pc = "read", !.who = u]
  <2>1. /\ r \in Request /\ r.left = {} /\ r.at = 0 /\ r.pc = "read"
        /\ r.who = u /\ Granting(r) = {}
    BY <1>0 DEF Idle, Request, Access, Granting
  <2> HIDE DEF r
  <2>2. Begin(h, r)
    BY <1>2 DEF r
  <2>3. QED  BY <2>1, <2>2, BeginMoves
<1>3. ASSUME NEW u \in Users \cup {None}, NEW pc \in {"deleteread", "edit"},
             Begin(h, [Idle EXCEPT !.pc = pc, !.who = u])
      PROVE  Consistent'
  <2> DEFINE r == [Idle EXCEPT !.pc = pc, !.who = u]
  <2>1. /\ r \in Request /\ r.left = {} /\ r.at = 0 /\ r.pc = pc
        /\ Granting(r) = {}
    BY <1>0 DEF Idle, Request, Access, Granting
  <2> HIDE DEF r
  <2>2. Begin(h, r)
    BY <1>3 DEF r
  <2>3. QED  BY <2>1, <2>2, BeginMoves
<1>4. CASE BeginShare(h)
  BY <1>1, <1>4 DEF BeginShare
<1>5. CASE BeginPermission(h)
  BY <1>1, <1>5 DEF BeginPermission
<1>6. CASE BeginRemove(h)
  BY <1>2, <1>6 DEF BeginRemove
<1>7. CASE BeginDelete(h)
  <2> DEFINE r == [Idle EXCEPT !.pc = "deleteread"]
  <2>1. /\ r \in Request /\ r.left = {} /\ r.at = 0 /\ r.pc = "deleteread"
        /\ Granting(r) = {}
    BY <1>0 DEF Idle, Request, Granting
  <2> HIDE DEF r
  <2>2. Begin(h, r)
    BY <1>7 DEF BeginDelete, r
  <2>3. QED  BY <2>1, <2>2, BeginMoves
<1>8. CASE BeginEdit(h)
  BY <1>3, <1>8 DEF BeginEdit
<1>9. QED  BY <1>4, <1>5, <1>6, <1>7, <1>8

\* A request between two reads holds nothing of the item.
LEMMA GotoHarmless ==
  ASSUME Consistent, NEW h \in Handlers, NEW pc \in {"existing", "current", "read"},
         req[h].pc \in {"limit", "existing", "current"}
  PROVE  /\ Harmless([req[h] EXCEPT !.pc = pc])
         /\ Granting([req[h] EXCEPT !.pc = pc]) \subseteq {req[h].who}
         /\ pc = "current" => Granting([req[h] EXCEPT !.pc = pc]) = {}
         /\ req[h].left = {} /\ req[h].grant # None /\ req[h].who \in Users
<1>1. req[h] \in Request /\ ReadMatches(req[h])
  BY DEF Consistent, TypeOK
<1> DEFINE r == [req[h] EXCEPT !.pc = pc]
<1>2. /\ r \in Request /\ r.pc = pc
      /\ r.who = req[h].who /\ r.grant = req[h].grant
      /\ r.at = req[h].at /\ r.left = req[h].left
  BY <1>1 DEF Request
<1>3. req[h].left = {} /\ req[h].grant # None /\ req[h].who \in Users
  BY <1>1 DEF ReadMatches
<1> HIDE DEF r
<1>4. Harmless(r)
  BY <1>1, <1>2, <1>3 DEF Harmless, ReadMatches
<1>5. Granting(r) \subseteq {req[h].who} /\ (pc = "current" => Granting(r) = {})
  BY <1>2 DEF Granting
<1>6. QED  BY <1>3, <1>4, <1>5 DEF r

\* What Moves asks of a step that reads.
LEMMA ReadMoves ==
  ASSUME Consistent, NEW h \in Handlers, NEW r, Harmless(r),
         Continue(h, r), ReadOnly, UNCHANGED blind, req[h].left = {},
         Granting(r) \subseteq Listed(people) \cup Granting(req[h])
  PROVE  Consistent'
<1>1. /\ issued' \in Nat /\ blind' \in Nat /\ blind <= blind' /\ strays' \subseteq Users
      /\ UNCHANGED <<status, people, updatedAt, rows, clock, strays>>
  BY DEF Consistent, TypeOK, ReadOnly
<1>2. QED  BY <1>1, Moves

LEMMA ReplyMoves ==
  ASSUME Consistent, NEW h \in Handlers, Reply(h), ReadOnly, UNCHANGED blind,
         req[h].pc # "sweep"
  PROVE  Consistent'
<1>1. Harmless(Idle) /\ Granting(Idle) = {}
  BY IdleHarmless, IdleTyped
<1>2. req[h].left = {}
  BY DEF Consistent, ReadMatches
<1>3. QED  BY <1>1, <1>2, ReadMoves DEF Reply

LEMMA CheckLimitKeeps ==
  ASSUME Consistent, NEW h \in Handlers, CheckLimit(h)
  PROVE  Consistent'
<1> DEFINE r == [req[h] EXCEPT !.pc = "existing"]
<1>1. /\ Harmless(r) /\ Granting(r) \subseteq {req[h].who}
      /\ req[h].left = {} /\ req[h].pc = "limit"
  BY GotoHarmless DEF CheckLimit
<1>2. TypeOK /\ r \in Request
  BY <1>1 DEF Consistent, Harmless
<1> HIDE DEF r
<1>3. CASE status = "stored" /\ LimitLeft(people) /\ Goto(h, "existing") /\ UNCHANGED blind
  <2>1. (req \in [Handlers -> Request])' /\ blind' \in Nat /\ UNCHANGED people
    BY <1>2, <1>3 DEF TypeOK, Goto, Continue, CheckLimit, ReadOnly, r
  <2>2. ExcessBounded'
    BY <1>3, <2>1, ExcessAfterCheck
  <2>3. Continue(h, r)
    BY <1>3 DEF Goto, r
  <2>4. /\ issued' \in Nat /\ blind <= blind' /\ strays' \subseteq Users
        /\ UNCHANGED <<status, people, updatedAt, rows, clock, strays>>
    BY <1>2, <1>3 DEF TypeOK, CheckLimit, ReadOnly
  <2>5. QED  BY <1>1, <2>1, <2>2, <2>3, <2>4, Moves
<1>4. CASE Reply(h) /\ UNCHANGED blind
  BY <1>1, <1>4, ReplyMoves DEF CheckLimit
<1>5. CASE blind' = blind + 1 /\ Goto(h, "existing")
  <2>1. Continue(h, r)
    BY <1>5 DEF Goto, r
  <2>2. /\ issued' \in Nat /\ blind \in Nat /\ blind' \in Nat /\ blind <= blind'
        /\ strays' \subseteq Users
        /\ UNCHANGED <<status, people, updatedAt, rows, clock, strays>>
    BY <1>2, <1>5 DEF TypeOK, CheckLimit, ReadOnly
  <2>3. ExcessBounded'
    BY <1>1, <1>2, <1>5, <2>1, <2>2, ExcessAfterBlind DEF Consistent, TypeOK
  <2>4. QED  BY <1>1, <2>1, <2>2, <2>3, Moves
<1>6. QED  BY <1>3, <1>4, <1>5 DEF CheckLimit

LEMMA FindExistingKeeps ==
  ASSUME Consistent, NEW h \in Handlers, FindExisting(h)
  PROVE  Consistent'
<1>1. req[h].pc = "existing" /\ ReadOnly /\ UNCHANGED blind
  BY DEF FindExisting
<1>2. /\ req[h].left = {} /\ req[h].grant # None
      /\ Granting(req[h]) = {req[h].who}
  BY <1>1, GotoHarmless DEF Granting
<1>3. ASSUME NEW pc \in {"read", "current"}, Goto(h, pc)
      PROVE  Consistent'
  <2> DEFINE r == [req[h] EXCEPT !.pc = pc]
  <2>1. Harmless(r) /\ Granting(r) \subseteq {req[h].who}
    BY <1>1, GotoHarmless
  <2>2. Continue(h, r)
    BY <1>3 DEF Goto
  <2> HIDE DEF r
  <2>3. QED  BY <1>1, <1>2, <2>1, <2>2, ReadMoves
<1>4. Goto(h, "read") \/ Reply(h) \/ Goto(h, "current")
  BY DEF FindExisting
<1>5. QED  BY <1>1, <1>3, <1>4, ReplyMoves

LEMMA FindCurrentKeeps ==
  ASSUME Consistent, NEW h \in Handlers, FindCurrent(h)
  PROVE  Consistent'
<1>1. req[h].pc = "current" /\ ReadOnly /\ UNCHANGED blind
  BY DEF FindCurrent
<1> DEFINE r == [req[h] EXCEPT !.pc = "read"]
<1>2. /\ Harmless(r) /\ Granting(r) \subseteq {req[h].who}
      /\ req[h].left = {} /\ req[h].who \in Users
  BY <1>1, GotoHarmless
<1> HIDE DEF r
<1>3. CASE people[req[h].who] # None /\ Goto(h, "read")
  <2>1. Granting(r) \subseteq Listed(people)
    BY <1>2, <1>3 DEF Listed
  <2>2. Continue(h, r)
    BY <1>3 DEF Goto, r
  <2>3. QED  BY <1>1, <1>2, <2>1, <2>2, ReadMoves
<1>4. CASE Reply(h)
  BY <1>1, <1>4, ReplyMoves
<1>5. QED  BY <1>3, <1>4 DEF FindCurrent

LEMMA ReadDesignKeeps ==
  ASSUME Consistent, NEW h \in Handlers, PersistRead(h) \/ DeleteRead(h)
  PROVE  Consistent'
<1>1. PICK from \in {"read", "deleteread"}, to \in {"persist", "delete"} :
        /\ ReadDesign(h, from, to)
        /\ from = "read" <=> to = "persist"
  BY DEF PersistRead, DeleteRead
<1>2. req[h].pc = from /\ ReadOnly /\ UNCHANGED blind
  BY <1>1 DEF ReadDesign
<1>3. req[h] \in Request /\ ReadMatches(req[h]) /\ TypeOK /\ updatedAt <= clock
  BY DEF Consistent, TypeOK
<1>4. CASE status = "stored"
  <2> DEFINE r == [req[h] EXCEPT !.pc = to, !.seen = people, !.at = updatedAt]
  <2>1. /\ r \in Request /\ r.pc = to /\ r.who = req[h].who /\ r.grant = req[h].grant
        /\ r.at = updatedAt /\ r.seen = people /\ r.left = req[h].left
    BY <1>3 DEF Request, TypeOK
  <2>2. req[h].left = {} /\ updatedAt > 0
    BY <1>2, <1>3, <1>4 DEF ReadMatches, Consistent, TypeOK
  <2>3. Continue(h, r)
    BY <1>1, <1>4 DEF ReadDesign
  <2> HIDE DEF r
  <2>4. Harmless(r)
    BY <1>1, <1>2, <1>3, <1>4, <2>1, <2>2 DEF Harmless, ReadMatches
  <2>5. Granting(r) \subseteq Granting(req[h])
    BY <1>1, <1>2, <2>1 DEF Granting
  <2>6. QED  BY <1>2, <2>2, <2>3, <2>4, <2>5, ReadMoves
<1>5. CASE status # "stored"
  <2>1. Reply(h)
    BY <1>1, <1>5 DEF ReadDesign
  <2>2. QED  BY <1>2, <2>1, ReplyMoves
<1>6. QED  BY <1>4, <1>5

\* A write of the item leaves no request with a current read of it, and makes no
\* design of one that is gone.
LEMMA OthersKept ==
  ASSUME Consistent, NEW h \in Handlers, NEW r, Continue(h, r),
         r \in Request, ReadMatches(r)',
         clock' \in Nat, clock <= clock',
         \/ updatedAt' = 0
         \/ updatedAt' > clock /\ updatedAt' \in Nat
         \/ UNCHANGED <<status, people, updatedAt>>,
         status' = "stored" => status = "stored"
  PROVE  /\ req' \in [Handlers -> Request]
         /\ req'[h] = r
         /\ \A k \in Handlers \ {h} : req'[k] = req[k]
         /\ \A k \in Handlers : ReadMatches(req[k])'
<1>1. TypeOK /\ \A k \in Handlers : ReadMatches(req[k])
  BY DEF Consistent
<1>2. /\ req' \in [Handlers -> Request]
      /\ req'[h] = r
      /\ \A k \in Handlers \ {h} : req'[k] = req[k]
  BY <1>1 DEF TypeOK, Continue
<1>3. ASSUME NEW k \in Handlers, k # h
      PROVE  ReadMatches(req[k])'
  <2>1. req'[k] = req[k]
    BY <1>2, <1>3
  <2>2. PICK q \in Request : q = req[k]
    BY <1>1 DEF TypeOK
  <2>3. ReadMatches(q) /\ q.at \in Nat /\ clock \in Nat
    BY <1>1, <2>2 DEF TypeOK, Request
  <2>4. ReadMatches(q)'
    BY <2>3 DEF ReadMatches
  <2>5. QED  BY <2>1, <2>2, <2>4 DEF ReadMatches
<1>4. ReadMatches(req[h])'
  BY <1>2 DEF ReadMatches
<1>5. QED  BY <1>2, <1>3, <1>4

\* Fewer are on the list or about to be.
LEMMA ExcessShrinks ==
  ASSUME Consistent, NEW h \in Handlers, NEW r, Continue(h, r), UNCHANGED blind,
         Granting(r) = {},
         Listed(people)' \subseteq Listed(people) \cup Granting(req[h])
  PROVE  ExcessBounded'
<1>1. req \in [Handlers -> Request] /\ blind \in Nat /\ ExcessBounded
  BY DEF Consistent, TypeOK
<1>2. Pending' \subseteq Pending
  <2>1. Pending' = UNION {Granting(req'[k]) : k \in Handlers}
    BY DEF Pending, Granting
  <2>2. ASSUME NEW v, NEW k \in Handlers, v \in Granting(req'[k])
        PROVE  v \in Pending
    <3>1. CASE k = h
      BY <1>1, <2>2, <3>1 DEF Continue
    <3>2. CASE k # h
      BY <1>1, <2>2, <3>2 DEF Continue, Pending
    <3>3. QED  BY <3>1, <3>2
  <2>3. QED  BY <2>1, <2>2
<1>3. Listed(people)' \subseteq Listed(people) \cup Pending
  BY DEF Pending
<1>4. (Listed(people) \cup Pending)' \subseteq Listed(people) \cup Pending
  BY <1>2, <1>3
<1>5. QED  BY <1>1, <1>4, ExcessKept

LEMMA PersistKeeps ==
  ASSUME Consistent, NEW h \in Handlers, Persist(h)
  PROVE  Consistent'
<1>1. PICK r \in Request : r = req[h]
  BY DEF Consistent, TypeOK
<1>2. /\ ReadMatches(r) /\ TypeOK /\ updatedAt <= clock
      /\ r.pc = "persist" /\ r.left = {} /\ r.who \in Users
      /\ UNCHANGED <<status, issued, blind>>
  BY <1>1 DEF Consistent, Persist, ReadMatches
<1>3. /\ r.grant \in Access /\ r.seen \in Members /\ r.tries \in Nat
      /\ clock \in Nat /\ updatedAt \in Nat /\ MaxTries \in Nat
      /\ people \in Members /\ rows \in Members
  BY <1>1, <1>2, SharingAssumption DEF Request, TypeOK
<1>4. CASE Unchanged(r) /\ Reply(h) /\ Stamp
           /\ people' = [r.seen EXCEPT ![r.who] = r.grant]
           /\ rows' = [rows EXCEPT ![r.who] = RowOf(r)]
           /\ strays' = IF r.grant = None /\ RowOf(r) # None
                        THEN strays \cup {r.who} ELSE strays \ {r.who}
  <2>1. status = "stored" /\ r.seen = people
    BY <1>2, <1>4 DEF Unchanged, ReadMatches
  <2>2. updatedAt' = clock + 1 /\ clock' = clock + 1
    BY <1>4 DEF Stamp
  <2>3. RowOf(r) \in Access
    BY <1>2, <1>3 DEF RowOf, Members
  <2>4. people' \in Members /\ rows' \in Members
    BY <1>2, <1>3, <1>4, <2>3 DEF Members
  <2>5. ReadMatches(Idle)'
    BY <1>3, <2>2, IdleTyped DEF ReadMatches
  <2>6. /\ req' \in [Handlers -> Request]
        /\ req'[h] = Idle
        /\ \A k \in Handlers \ {h} : req'[k] = req[k]
        /\ \A k \in Handlers : ReadMatches(req[k])'
    BY <1>2, <1>3, <1>4, <2>2, <2>5, IdleTyped, OthersKept DEF Reply
  <2>7. TypeOK'
    BY <1>2, <1>3, <1>4, <2>2, <2>4, <2>6 DEF TypeOK
  <2>8. ListedHaveRows'
    BY <1>2, <1>3, <1>4, <2>1 DEF Consistent, ListedHaveRows, Listed, Members, RowOf
  <2>9. \A k \in Handlers : req[k].left = {}
    BY <2>1 DEF Consistent, ReadMatches
  <2>10. \A u \in Listed(rows) : u \in Listed(people) \cup strays
    BY <2>9 DEF Consistent, RowsAccounted
  <2>11. \A u \in Users : rows'[u] # None => people'[u] # None \/ u \in strays'
    <3> SUFFICES ASSUME NEW u \in Users, rows'[u] # None
                 PROVE  people'[u] # None \/ u \in strays'
      OBVIOUS
    <3>1. CASE u = r.who
      BY <1>3, <1>4, <3>1 DEF Members, RowOf
    <3>2. CASE u # r.who
      <4>1. rows'[u] = rows[u] /\ people'[u] = people[u]
        BY <1>3, <1>4, <2>1, <3>2 DEF Members
      <4>2. people[u] # None \/ u \in strays
        BY <2>10, <4>1 DEF Listed
      <4>3. u \in strays => u \in strays'
        BY <1>4, <3>2
      <4>4. QED  BY <4>1, <4>2, <4>3
    <3>3. QED  BY <3>1, <3>2
  <2>12. RowsAccounted'
    BY <2>11 DEF RowsAccounted, Listed
  <2>13. ExcessBounded'
    <3>1. Listed(people)' \subseteq Listed(people) \cup Granting(req[h])
      BY <1>1, <1>2, <1>3, <1>4, <2>1 DEF Listed, Granting, Members
    <3>2. QED  BY <1>2, <1>4, <3>1, IdleTyped, ExcessShrinks DEF Reply
  <2>14. QED
    BY <1>2, <1>3, <2>1, <2>2, <2>6, <2>7, <2>8, <2>12, <2>13 DEF Consistent
<1>5. CASE UNCHANGED <<people, rows, updatedAt, clock, strays>> /\ r.tries + 1 < MaxTries
           /\ Continue(h, [r EXCEPT !.pc = "read", !.tries = r.tries + 1])
  <2>0. PICK n \in Nat : n = r.tries + 1
    BY <1>3
  <2> DEFINE again == [r EXCEPT !.pc = "read", !.tries = n]
  <2>1. /\ again \in Request /\ again.pc = "read" /\ again.who = r.who
        /\ again.grant = r.grant /\ again.at = r.at /\ again.left = r.left
    BY DEF Request
  <2>2. Continue(h, again)
    BY <1>5, <2>0
  <2> HIDE DEF again
  <2>3. Harmless(again)
    BY <1>2, <2>1 DEF Harmless, ReadMatches
  <2>4. Granting(again) = Granting(req[h])
    BY <1>1, <1>2, <2>1 DEF Granting
  <2>5. ReadOnly /\ UNCHANGED blind
    BY <1>2, <1>5 DEF ReadOnly
  <2>6. QED  BY <1>1, <1>2, <2>2, <2>3, <2>4, <2>5, ReadMoves
<1>6. CASE UNCHANGED <<people, rows, updatedAt, clock, strays>> /\ Reply(h)
  <2>1. ReadOnly /\ UNCHANGED blind
    BY <1>2, <1>6 DEF ReadOnly
  <2>2. QED  BY <1>1, <1>2, <1>6, <2>1, ReplyMoves
<1>7. QED  BY <1>1, <1>4, <1>5, <1>6 DEF Persist

LEMMA DeleteItemKeeps ==
  ASSUME Consistent, NEW h \in Handlers, DeleteItem(h)
  PROVE  Consistent'
<1>1. PICK r \in Request : r = req[h]
  BY DEF Consistent, TypeOK
<1>2. /\ ReadMatches(r) /\ TypeOK /\ r.pc = "delete" /\ r.left = {}
      /\ UNCHANGED <<rows, clock, issued, blind, strays>>
  BY <1>1 DEF Consistent, DeleteItem, ReadMatches
<1>3. CASE Unchanged(r)
  <2> DEFINE sweeping == [r EXCEPT !.pc = "sweep", !.left = Listed(r.seen)]
  <2>1. /\ status' = "none" /\ people' = Nobody /\ updatedAt' = 0
        /\ Continue(h, sweeping)
    BY <1>1, <1>3 DEF DeleteItem
  <2>2. status = "stored" /\ r.seen = people
    BY <1>2, <1>3 DEF Unchanged, ReadMatches
  <2>3. /\ sweeping \in Request /\ sweeping.pc = "sweep" /\ sweeping.at = r.at
        /\ sweeping.left = Listed(people)
    BY <2>2 DEF Request, Listed
  <2> HIDE DEF sweeping
  <2>4. ReadMatches(sweeping)'
    BY <1>2, <2>1, <2>3 DEF ReadMatches
  <2>5. clock \in Nat
    BY <1>2 DEF TypeOK
  <2>6. /\ req' \in [Handlers -> Request]
        /\ req'[h] = sweeping
        /\ \A k \in Handlers \ {h} : req'[k] = req[k]
        /\ \A k \in Handlers : ReadMatches(req[k])'
    BY <1>2, <2>1, <2>3, <2>4, <2>5, OthersKept
  <2>7. Nobody \in Members /\ Listed(Nobody) = {}
    BY DEF Nobody, Members, Access, Listed
  <2>8. TypeOK'
    BY <1>2, <2>1, <2>6, <2>7 DEF TypeOK
  <2>9. ListedHaveRows'
    BY <2>1 DEF ListedHaveRows
  <2>10. RowsAccounted'
    <3>1. \A k \in Handlers : req[k].left = {}
      BY <2>2 DEF Consistent, ReadMatches
    <3>2. Listed(rows) \subseteq Listed(people) \cup strays
      BY <3>1 DEF Consistent, RowsAccounted
    <3>3. Listed(rows)' = Listed(rows)
      BY <1>2 DEF Listed
    <3>4. Listed(people) \subseteq UNION {req'[k].left : k \in Handlers}
      BY <2>3, <2>6
    <3>5. QED  BY <1>2, <3>2, <3>3, <3>4 DEF RowsAccounted
  <2>11. ExcessBounded'
    <3>1. Listed(people)' = {}
      BY <2>1, <2>7 DEF Listed
    <3>2. Granting(sweeping) = {}
      BY <2>3 DEF Granting
    <3>3. QED  BY <1>2, <2>1, <3>1, <3>2, ExcessShrinks
  <2>12. QED
    BY <1>2, <2>1, <2>5, <2>6, <2>8, <2>9, <2>10, <2>11 DEF Consistent, Nobody
<1>4. CASE ~Unchanged(r)
  <2>1. Reply(h) /\ ReadOnly /\ UNCHANGED blind
    BY <1>1, <1>2, <1>4 DEF DeleteItem, ReadOnly
  <2>2. QED  BY <1>1, <1>2, <2>1, ReplyMoves
<1>5. QED  BY <1>3, <1>4

LEMMA SweepKeeps ==
  ASSUME Consistent, NEW h \in Handlers, Sweep(h)
  PROVE  Consistent'
<1>1. PICK r \in Request : r = req[h]
  BY DEF Consistent, TypeOK
<1>2. /\ ReadMatches(r) /\ TypeOK /\ r.pc = "sweep"
      /\ UNCHANGED <<status, people, updatedAt, clock, issued, blind, strays>>
  BY <1>1 DEF Consistent, Sweep
<1>3. CASE r.left = {} /\ Reply(h) /\ UNCHANGED rows
  <2>1. Harmless(Idle) /\ Granting(Idle) = {} /\ Continue(h, Idle)
    BY <1>3, IdleHarmless, IdleTyped DEF Reply
  <2>2. ReadOnly /\ UNCHANGED blind
    BY <1>2, <1>3 DEF ReadOnly
  <2>3. QED  BY <1>1, <1>3, <2>1, <2>2, ReadMoves
<1>4. ASSUME NEW u \in r.left,
             rows' = [rows EXCEPT ![u] = None],
             Continue(h, [r EXCEPT !.left = r.left \ {u}])
      PROVE  Consistent'
  <2> DEFINE rest == [r EXCEPT !.left = r.left \ {u}]
  <2>1. /\ rest \in Request /\ rest.pc = "sweep" /\ rest.at = r.at
        /\ rest.left = r.left \ {u}
    BY <1>2 DEF Request
  <2>2. Continue(h, rest)
    BY <1>4
  <2> HIDE DEF rest
  <2>3. status # "stored"
    BY <1>2, <1>4 DEF ReadMatches
  <2>4. ReadMatches(rest)'
    BY <1>2, <2>1, <2>3 DEF ReadMatches
  <2>5. clock \in Nat
    BY <1>2 DEF TypeOK
  <2>6. /\ req' \in [Handlers -> Request]
        /\ req'[h] = rest
        /\ \A k \in Handlers \ {h} : req'[k] = req[k]
        /\ \A k \in Handlers : ReadMatches(req[k])'
    BY <1>2, <2>1, <2>2, <2>4, <2>5, OthersKept
  <2>7. u \in Users /\ rows \in [Users -> Access]
    BY <1>2, <1>4 DEF Request, TypeOK, Members
  <2>8. rows' \in Members
    BY <1>4, <2>7 DEF Members, Access
  <2>9. TypeOK'
    BY <1>2, <2>6, <2>8 DEF TypeOK
  <2>10. ListedHaveRows'
    BY <1>2, <2>3 DEF ListedHaveRows
  <2>11. RowsAccounted'
    <3> SUFFICES ASSUME NEW v \in Users, rows'[v] # None
                 PROVE  v \in (Listed(people) \cup strays
                                \cup UNION {req[k].left : k \in Handlers})'
      BY DEF RowsAccounted, Listed
    <3>1. v # u /\ rows[v] # None
      BY <1>4, <2>7
    <3>2. v \in Listed(people) \cup strays \cup UNION {req[k].left : k \in Handlers}
      BY <3>1 DEF Consistent, RowsAccounted, Listed
    <3>3. CASE v \in Listed(people) \cup strays
      BY <1>2, <3>3 DEF Listed
    <3>4. CASE v \in UNION {req[k].left : k \in Handlers}
      <4>1. PICK k \in Handlers : v \in req[k].left
        BY <3>4
      <4>2. v \in req'[k].left
        BY <1>1, <2>1, <2>6, <3>1, <4>1
      <4>3. QED  BY <4>2
    <3>5. QED  BY <3>2, <3>3, <3>4
  <2>12. ExcessBounded'
    <3>1. Granting(rest) = {}
      BY <2>1 DEF Granting
    <3>2. Listed(people)' = Listed(people)
      BY <1>2 DEF Listed
    <3>3. QED  BY <1>2, <2>2, <3>1, <3>2, ExcessShrinks
  <2>13. QED
    BY <1>2, <2>6, <2>9, <2>10, <2>11, <2>12 DEF Consistent, Nobody
<1>5. QED  BY <1>1, <1>3, <1>4 DEF Sweep

\* A write of other attributes of the item.
LEMMA EditKeeps ==
  ASSUME Consistent, NEW h \in Handlers, NEW r, Continue(h, r), r \in Request,
         r.at \in {0, req[h].at}, r.left = {}, req[h].left = {}, Granting(r) = {},
         r.pc \in {"idle", "clear"}, Stamp,
         \/ UNCHANGED status /\ status # "none"
         \/ status = "none" /\ status' = "partial",
         UNCHANGED <<people, rows, issued, blind, strays>>
  PROVE  Consistent'
<1>1. /\ TypeOK /\ updatedAt <= clock /\ clock \in Nat
      /\ clock' = clock + 1 /\ updatedAt' = clock + 1
  BY DEF Consistent, TypeOK, Stamp
<1>2. ReadMatches(r)'
  <2>1. req[h].at <= clock /\ req[h].at \in Nat
    BY <1>1 DEF Consistent, ReadMatches, TypeOK, Request
  <2>2. QED  BY <1>1, <2>1 DEF ReadMatches
<1>3. /\ req' \in [Handlers -> Request]
      /\ req'[h] = r
      /\ \A k \in Handlers \ {h} : req'[k] = req[k]
      /\ \A k \in Handlers : ReadMatches(req[k])'
  BY <1>1, <1>2, OthersKept
<1>4. TypeOK'
  BY <1>1, <1>3 DEF TypeOK
<1>5. ListedHaveRows'
  BY DEF Consistent, ListedHaveRows, Listed
<1>6. RowsAccounted'
  <2>1. \A k \in Handlers : req[k].left \subseteq req'[k].left
    BY <1>3
  <2>2. UNION {req[k].left : k \in Handlers} \subseteq UNION {req'[k].left : k \in Handlers}
    BY <2>1
  <2>3. QED  BY <2>2 DEF Consistent, RowsAccounted, Listed
<1>7. ExcessBounded'
  <2>1. Listed(people)' = Listed(people)
    BY DEF Listed
  <2>2. QED  BY <2>1, ExcessShrinks
<1>8. QED
  BY <1>1, <1>3, <1>4, <1>5, <1>6, <1>7 DEF Consistent, Nobody

LEMMA ReplyWritten ==
  ASSUME Consistent, NEW h \in Handlers, Reply(h), req[h].pc \in {"edit", "clear"}, Stamp,
         \/ UNCHANGED status /\ status # "none"
         \/ status = "none" /\ status' = "partial",
         UNCHANGED <<people, rows, issued, blind, strays>>
  PROVE  Consistent'
<1>1. req[h].left = {} /\ req[h].at \in Nat
  BY DEF Consistent, ReadMatches, TypeOK, Request
<1>2. Continue(h, Idle) /\ Idle \in Request /\ Idle.left = {} /\ Idle.at = 0
      /\ Idle.pc = "idle" /\ Granting(Idle) = {}
  BY IdleTyped DEF Reply
<1>3. QED  BY <1>1, <1>2, EditKeeps

LEMMA EditWriteKeeps ==
  ASSUME Consistent, NEW h \in Handlers, EditWrite(h)
  PROVE  Consistent'
<1>1. /\ req[h] \in Request /\ ReadMatches(req[h]) /\ status \in {"stored", "none", "partial"}
      /\ req[h].pc = "edit" /\ req[h].left = {}
  BY DEF Consistent, TypeOK, EditWrite, ReadMatches
<1>2. /\ Stamp /\ UNCHANGED <<people, rows, issued, blind, strays>>
      /\ \/ UNCHANGED status /\ status # "none"
         \/ status = "none" /\ status' = "partial"
  BY DEF EditWrite
<1>3. CASE Goto(h, "clear")
  <2> DEFINE r == [req[h] EXCEPT !.pc = "clear"]
  <2>1. /\ r \in Request /\ r.pc = "clear" /\ r.at = req[h].at /\ r.left = {}
    BY <1>1 DEF Request
  <2>2. Continue(h, r)
    BY <1>3 DEF Goto
  <2> HIDE DEF r
  <2>3. Granting(r) = {}
    BY <2>1 DEF Granting
  <2>4. QED  BY <1>1, <1>2, <2>1, <2>2, <2>3, EditKeeps
<1>4. CASE Reply(h)
  BY <1>1, <1>2, <1>4, ReplyWritten
<1>5. QED  BY <1>3, <1>4 DEF EditWrite

LEMMA EditClearKeeps ==
  ASSUME Consistent, NEW h \in Handlers, EditClear(h)
  PROVE  Consistent'
<1>1. req[h].pc = "clear" /\ UNCHANGED <<status, people, rows, issued, blind, strays>> /\ Reply(h)
  BY DEF EditClear
<1>2. CASE status # "none" /\ Stamp
  BY <1>1, <1>2, ReplyWritten
<1>3. CASE UNCHANGED <<updatedAt, clock>>
  <2>1. ReadOnly
    BY <1>1, <1>3 DEF ReadOnly
  <2>2. QED  BY <1>1, <2>1, ReplyMoves
<1>4. QED  BY <1>2, <1>3 DEF EditClear

LEMMA StopKeeps ==
  ASSUME Consistent, NEW h \in Handlers, Stop(h)
  PROVE  Consistent'
<1>1. Harmless(Idle) /\ Granting(Idle) = {} /\ Continue(h, Idle)
  BY IdleHarmless, IdleTyped DEF Stop, Reply
<1>2. /\ UNCHANGED <<status, people, updatedAt, rows, clock>>
      /\ issued' \in Nat /\ blind' \in Nat /\ blind <= blind'
      /\ strays' \subseteq Users /\ strays \cup req[h].left \subseteq strays'
  BY DEF Stop, Consistent, TypeOK, Request
<1>3. QED  BY <1>1, <1>2, Moves

-----------------------------------------------------------------------------
(* Theorems *)

LEMMA InitConsistent ==
  ASSUME Init
  PROVE  Consistent
<1>1. Nobody \in Members /\ Listed(Nobody) = {}
  BY DEF Nobody, Members, Access, Listed
<1>2. \A h \in Handlers : req[h] = Idle
  BY DEF Init
<1>3. TypeOK
  BY <1>1, IdleTyped DEF Init, TypeOK
<1>4. \A h \in Handlers : ReadMatches(req[h])
  BY <1>2, IdleTyped DEF Init, ReadMatches
<1>5. ListedHaveRows
  BY DEF Init, ListedHaveRows
<1>6. RowsAccounted
  BY <1>1 DEF Init, RowsAccounted
<1>7. ExcessBounded
  <2>1. Pending = {}
    BY <1>2, IdleTyped DEF Pending
  <2>2. Cardinality(Listed(people) \cup Pending) = 0
    BY <1>1, <2>1, FS_EmptySet DEF Init
  <2>3. Cardinality(Handlers) \in Nat
    BY SharingAssumption, FS_CardinalityType
  <2>4. QED  BY <2>2, <2>3, SharingAssumption DEF Init, ExcessBounded
<1>8. QED
  BY <1>3, <1>4, <1>5, <1>6, <1>7 DEF Init, Consistent

LEMMA NextConsistent ==
  ASSUME Consistent, [Next]_vars
  PROVE  Consistent'
<1>1. CASE UNCHANGED vars
  BY <1>1 DEF vars, Consistent, TypeOK, ReadMatches, ListedHaveRows, RowsAccounted,
              ExcessBounded, Pending, Granting, Listed, Nobody
<1>2. ASSUME NEW h \in Handlers, Handle(h)
      PROVE  Consistent'
  BY <1>2, BeginKeeps, CheckLimitKeeps, FindExistingKeeps, FindCurrentKeeps,
     ReadDesignKeeps, PersistKeeps, DeleteItemKeeps, SweepKeeps, EditWriteKeeps,
     EditClearKeeps DEF Handle
<1>3. ASSUME NEW h \in Handlers, Stop(h)
      PROVE  Consistent'
  BY <1>3, StopKeeps
<1>4. QED  BY <1>1, <1>2, <1>3 DEF Next, Rest

\* The inductive invariant: an unchanged updatedAt means an unchanged list, and the
\* list together with the pending changes stays within the limit and the overlap.
THEOREM ConsistentCorrect == Spec => []Consistent
  BY InitConsistent, NextConsistent, PTL DEF Spec

\* Collaborators of a design have their membership row, with the same permission.
THEOREM ListHasRows == Spec => []ListedHaveRows
<1>1. Consistent => ListedHaveRows
  BY DEF Consistent
<1>2. QED  BY <1>1, ConsistentCorrect, PTL

\* Rows without a collaborator are those of removals and unfinished deletes.
THEOREM RowsAreAccounted == Spec => []RowsAccounted
<1>1. Consistent => RowsAccounted
  BY DEF Consistent
<1>2. QED  BY <1>1, ConsistentCorrect, PTL

\* The list exceeds its limit by at most one for each further handler and each check
\* whose read failed, for any number of users, handlers and requests.
THEOREM ExcessIsExplained == Spec => []ExcessExplained
<1>1. ASSUME Consistent PROVE ExcessExplained
  <2> DEFINE all == Listed(people) \cup Pending
  <2>1. IsFiniteSet(Pending) /\ blind \in Nat
    BY <1>1, OneEach DEF Consistent, TypeOK, Pending
  <2>2. IsFiniteSet(Listed(people)) /\ Cardinality(Listed(people)) \in Nat
    BY ListIsFinite
  <2>3. IsFiniteSet(all)
    BY <2>1, <2>2, FS_Union
  <2>4. Cardinality(Listed(people)) <= Cardinality(all) /\ Cardinality(all) \in Nat
    BY <2>3, FS_Subset, FS_CardinalityType
  <2>5. Cardinality(all) <= MaxCollaborators - 1 + Cardinality(Handlers) + blind
    BY <1>1 DEF Consistent, ExcessBounded
  <2>6. Cardinality(Handlers) \in Nat
    BY SharingAssumption, FS_CardinalityType
  <2> HIDE DEF all
  <2>7. QED  BY <2>1, <2>2, <2>4, <2>5, <2>6, SharingAssumption DEF ExcessExplained
<1>2. QED  BY <1>1, ConsistentCorrect, PTL

\* The optimistic transactions make shares, permission changes, removals and deletes
\* atomic changes of one list.
THEOREM SharingImplementsList == Spec => ImplementsList
<1>1. Init => Collaboration!Init
  BY DEF Init, Collaboration!Init, Nobody
<1>2. ASSUME Consistent, [Next]_vars
      PROVE  [Collaboration!Next]_<<status, people>>
  <2>1. ASSUME NEW h \in Handlers, Persist(h)
        PROVE  [Collaboration!Next]_<<status, people>>
    <3>1. PICK r \in Request : r = req[h]
      BY <1>2 DEF Consistent, TypeOK
    <3>2. r.pc = "persist" /\ ReadMatches(r) /\ r.who \in Users /\ r.grant \in Access
      BY <1>2, <2>1, <3>1 DEF Consistent, Persist, ReadMatches, Request
    <3>3. CASE Unchanged(r) /\ people' = [r.seen EXCEPT ![r.who] = r.grant]
      <4>1. status = "stored" /\ people' = [people EXCEPT ![r.who] = r.grant] /\ UNCHANGED status
        BY <2>1, <3>2, <3>3 DEF Unchanged, ReadMatches, Persist
      <4>2. CASE r.grant = None
        BY <3>2, <4>1, <4>2 DEF Collaboration!Next, Collaboration!Remove
      <4>3. CASE r.grant # None
        <5>1. r.grant \in Permissions
          BY <3>2, <4>3 DEF Access
        <5>2. Collaboration!Grant(r.who, r.grant)
          BY <4>1 DEF Collaboration!Grant
        <5>3. QED  BY <3>2, <5>1, <5>2 DEF Collaboration!Next
      <4>4. QED  BY <4>2, <4>3
    <3>4. CASE UNCHANGED people
      BY <2>1, <3>4 DEF Persist
    <3>5. QED  BY <2>1, <3>1, <3>3, <3>4 DEF Persist
  <2>2. ASSUME NEW h \in Handlers, DeleteItem(h)
        PROVE  [Collaboration!Next]_<<status, people>>
    <3>1. PICK r \in Request : r = req[h]
      BY <1>2 DEF Consistent, TypeOK
    <3>2. ReadMatches(r) /\ r.pc = "delete"
      BY <1>2, <2>2, <3>1 DEF Consistent, DeleteItem
    <3>3. CASE Unchanged(r)
      <4>1. status = "stored" /\ status' = "none" /\ people' = Nobody
        BY <2>2, <3>1, <3>2, <3>3 DEF Unchanged, ReadMatches, DeleteItem
      <4>2. QED  BY <4>1 DEF Collaboration!Next, Collaboration!Delete, Nobody
    <3>4. CASE ~Unchanged(r)
      BY <2>2, <3>1, <3>4 DEF DeleteItem
    <3>5. QED  BY <3>3, <3>4
  <2>3. ASSUME NEW h \in Handlers, EditWrite(h)
        PROVE  [Collaboration!Next]_<<status, people>>
    BY <2>3 DEF EditWrite, Collaboration!Next, Collaboration!Remains
  <2>4. ASSUME NEW h \in Handlers, Handle(h),
               ~Persist(h), ~DeleteItem(h), ~EditWrite(h)
        PROVE  UNCHANGED <<status, people>>
    BY <2>4 DEF Handle, BeginShare, BeginPermission, BeginRemove, BeginDelete, BeginEdit,
                Begin, CheckLimit, FindExisting, FindCurrent, PersistRead, DeleteRead,
                ReadDesign, ReadOnly, Sweep, EditClear
  <2>5. ASSUME NEW h \in Handlers, Stop(h)
        PROVE  UNCHANGED <<status, people>>
    BY <2>5 DEF Stop
  <2>6. CASE UNCHANGED vars
    BY <2>6 DEF vars
  <2>7. QED  BY <1>2, <2>1, <2>2, <2>3, <2>4, <2>5, <2>6 DEF Next, Rest
<1>3. QED
  BY <1>1, <1>2, ConsistentCorrect, PTL
     DEF Spec, ImplementsList, Collaboration!Spec

=============================================================================
