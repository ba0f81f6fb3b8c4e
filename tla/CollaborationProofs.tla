------------------------ MODULE CollaborationProofs -------------------------
(***************************************************************************)
(* Proofs about Collaboration, for any number of connections, users and    *)
(* updates.                                                                *)
(***************************************************************************)
EXTENDS Collaboration, FiniteSetTheorems, TLAPS

-----------------------------------------------------------------------------
(* Positions in a list whose order is that of its members' numbers *)

\* Every set of connections is finite.
LEMMA ListsFinite ==
  ASSUME NEW l, l \subseteq Connections
  PROVE  IsFiniteSet(l)
<1>1. IsFiniteSet(Connections)
  BY CollaborationAssumption, FS_Interval DEF Connections
<1>2. QED
  BY <1>1, FS_Subset

\* A position is a natural number.
LEMMA PositionType ==
  ASSUME NEW l, l \subseteq Connections, NEW x
  PROVE  Position(x, l) \in Nat
<1>1. IsFiniteSet({y \in l : y < x})
  BY ListsFinite
<1>2. QED
  BY <1>1, FS_CardinalityType DEF Position

\* Of two members, the one that came later has the greater position.
LEMMA PositionGrows ==
  ASSUME NEW l, l \subseteq Connections, NEW x \in l, NEW y \in Connections, x < y
  PROVE  Position(y, l) >= Position(x, l) + 1
<1> DEFINE S == {z \in l : z < x}
           T == {z \in l : z < y}
<1>1. l \subseteq Nat /\ x \in Nat /\ y \in Nat
  BY CollaborationAssumption DEF Connections
<1>2. IsFiniteSet(S) /\ IsFiniteSet(T)
  BY ListsFinite
<1>3. x \notin S /\ S \cup {x} \subseteq T
  <2>1. ~(x < x) /\ \A z \in l : z < x => z < y
    BY <1>1
  <2>2. x \notin S
    BY <2>1
  <2>3. x \in T
    OBVIOUS
  <2>4. \A z \in S : z \in T
    BY <2>1
  <2>5. QED
    BY <2>2, <2>3, <2>4
<1>4. Cardinality(S \cup {x}) = Cardinality(S) + 1
  BY <1>2, <1>3, FS_AddElement
<1>5. Cardinality(S \cup {x}) <= Cardinality(T)
  BY <1>2, <1>3, FS_Subset
<1>6. Cardinality(S) \in Nat /\ Cardinality(T) \in Nat
  BY <1>2, FS_CardinalityType
<1>7. Position(y, l) = Cardinality(T) /\ Position(x, l) = Cardinality(S)
  BY DEF Position
<1> HIDE DEF S, T
<1>8. QED
  BY <1>4, <1>5, <1>6, <1>7

\* Appending a connection leaves the positions of those before it alone.
LEMMA PositionKept ==
  ASSUME NEW l, l \subseteq Connections, NEW c \in Connections, NEW x \in Connections,
         x < c
  PROVE  Position(x, l \cup {c}) = Position(x, l)
<1>1. {y \in l \cup {c} : y < x} = {y \in l : y < x}
  BY CollaborationAssumption DEF Connections
<1>2. QED
  BY <1>1 DEF Position

-----------------------------------------------------------------------------
(* The invariant, part by part *)

InOrder == \A c, d \in Connections : c < d /\ pc[c] = "new" => pc[d] = "new"

Reaches(c) ==
  pc[c] \in Broadcasting /\ ~cast[c].disturbed => cast[c].due \subseteq Ahead(c)

Explained(c) ==
  pc[c] \in Serving /\ c \notin gone =>
    \/ c \in list
    \/ \E d \in Connections \ {c} : user[d] = user[c] /\ pc[d] \in {"leaving", "done"}

\* The parts make up the invariant.
LEMMA Parts ==
  Consistent <=> /\ TypeOK
                 /\ InOrder
                 /\ \A c \in Connections : BroadcastOK(c)
                 /\ ListedServed
                 /\ \A c \in Connections : Reaches(c)
                 /\ \A c \in Connections : Explained(c)
                 /\ tasks \subseteq {accepted}
BY DEF Consistent, InOrder, MissesExplained, Reaches, UnlistedExplained, Explained

\* The same after a step.
LEMMA PartsAfter ==
  ASSUME TypeOK', InOrder', \A c \in Connections : BroadcastOK(c)', ListedServed',
         \A c \in Connections : Reaches(c)', \A c \in Connections : Explained(c)',
         tasks' \subseteq {accepted'}
  PROVE  Consistent'
BY DEF Consistent, InOrder, MissesExplained, Reaches, UnlistedExplained, Explained

\* A broadcast whose list, position and users stay the same has the same connections
\* ahead.
LEMMA AheadKept ==
  ASSUME NEW d \in Connections,
         Iterated(d)' = Iterated(d),
         \A x \in Iterated(d) : user'[x] = user[x],
         cast'[d].at = cast[d].at, cast'[d].exclude = cast[d].exclude
  PROVE  Ahead(d)' = Ahead(d)
<1>1. Ahead(d)' = {x \in Iterated(d)' : /\ Position(x, Iterated(d)') >= cast'[d].at
                                        /\ user'[x] # cast'[d].exclude}
  BY DEF Ahead
<1>2. QED
  BY <1>1 DEF Ahead

\* The list that a broadcast iterates is one of connections that have arrived.
LEMMA IteratedType ==
  ASSUME Consistent, NEW d \in Connections
  PROVE  /\ Iterated(d) \subseteq Connections
         /\ \A x \in Iterated(d) : pc[x] # "new"
<1>1. CASE cast[d].live
  BY <1>1, Parts DEF Iterated, TypeOK, ListedServed, Serving
<1>2. CASE ~cast[d].live
  BY <1>2, Parts DEF Iterated, TypeOK, Broadcast, BroadcastOK
<1>3. QED
  BY <1>1, <1>2

\* A broadcast that has just begun is a broadcast.
LEMMA StartedType ==
  ASSUME NEW l, l \subseteq Connections, NEW e \in Users \cup {None}
  PROVE  /\ Started(l, e) \in Broadcast
         /\ NoBroadcast \in Broadcast
         /\ Started(l, e).live = TRUE /\ Started(l, e).old = {} /\ Started(l, e).at = 0
         /\ Started(l, e).exclude = e /\ Started(l, e).dead = {}
         /\ \A x : x \in Started(l, e).due <=> x \in l /\ user[x] # e
BY DEF Started, NoBroadcast, Broadcast

-----------------------------------------------------------------------------
(* Broadcasts preserve the invariant *)

LEMMA SendKeeps ==
  ASSUME Consistent, NEW c \in Connections, Send(c)
  PROVE  Consistent'
<1> USE Parts
<1> DEFINE L == Iterated(c)
<1>0. PICK x \in Ahead(c) :
        /\ \A y \in Ahead(c) : x <= y
        /\ \E dead \in {{}} \cup (IF x \in gone THEN {{x}} ELSE {}) :
             cast' = [cast EXCEPT ![c].at = Position(x, L) + 1,
                                  ![c].due = @ \ {x},
                                  ![c].dead = @ \cup dead]
  BY DEF Send
<1>1. PICK dead \in {{}} \cup (IF x \in gone THEN {{x}} ELSE {}) :
        cast' = [cast EXCEPT ![c].at = Position(x, L) + 1,
                             ![c].due = @ \ {x},
                             ![c].dead = @ \cup dead]
  BY <1>0
<1>2. L \subseteq Connections /\ x \in L
  BY IteratedType DEF Ahead
<1>3. dead \subseteq gone
  BY <1>1
<1>4. Position(x, L) \in Nat
  BY <1>2, PositionType
<1>5. cast \in [Connections -> Broadcast]
  BY DEF TypeOK
<1>6. /\ cast'[c] = [cast[c] EXCEPT !.at = Position(x, L) + 1, !.due = @ \ {x},
                                    !.dead = @ \cup dead]
      /\ \A d \in Connections \ {c} : cast'[d] = cast[d]
      /\ DOMAIN cast' = Connections
  BY <1>1, <1>5
<1>7. UNCHANGED <<entry, list, user, pc, gone, accepted, tasks, settled>>
  BY DEF Send
<1> HIDE DEF L
<1>8. /\ cast'[c].at = Position(x, L) + 1
      /\ cast'[c].due = cast[c].due \ {x}
      /\ cast'[c].dead = cast[c].dead \cup dead
      /\ cast'[c].live = cast[c].live
      /\ cast'[c].old = cast[c].old
      /\ cast'[c].exclude = cast[c].exclude
      /\ cast'[c].disturbed = cast[c].disturbed
  BY <1>5, <1>6 DEF Broadcast
<1>9. TypeOK'
  <2>1. Position(x, L) + 1 \in Nat /\ dead \subseteq Connections
    BY <1>3, <1>4 DEF TypeOK
  <2>2. cast'[c] \in Broadcast
    <3>1. PICK b \in Broadcast : b = cast[c]
      BY <1>5
    <3>2. PICK n \in Nat, due \in SUBSET Connections, failed \in SUBSET Connections :
            /\ n = Position(x, L) + 1
            /\ due = b.due \ {x}
            /\ failed = b.dead \cup dead
      BY <2>1, <3>1 DEF Broadcast
    <3>3. cast'[c] = [b EXCEPT !.at = n, !.due = due, !.dead = failed]
      BY <3>1, <3>2, <1>6
    <3>4. QED
      BY <3>1, <3>3 DEF Broadcast
  <2>3. cast' \in [Connections -> Broadcast]
    BY <2>2, <1>1, <1>5, <1>6
  <2>4. QED
    BY <2>3, <1>7 DEF TypeOK
<1>10. \A d \in Connections : Iterated(d)' = Iterated(d)
  BY <1>6, <1>7, <1>8 DEF Iterated
<1>11. \A d \in Connections : Reaches(d)'
  <2>1. SUFFICES ASSUME NEW d \in Connections PROVE Reaches(d)'
    OBVIOUS
  <2>2. CASE d # c
    <3>1. Ahead(d)' = Ahead(d)
      BY <2>2, <1>6, <1>7, <1>10, AheadKept
    <3>2. QED
      BY <3>1, <2>2, <1>6, <1>7 DEF Reaches
  <2>3. CASE d = c
    <3>1. SUFFICES ASSUME pc[c] \in Broadcasting, ~cast[c].disturbed, NEW y \in cast'[c].due
                   PROVE  y \in Ahead(c)'
      BY <2>3, <1>7, <1>8 DEF Reaches
    <3>2. y \in Ahead(c) /\ y # x
      BY <3>1, <1>8 DEF Reaches
    <3>3. y \in L /\ user[y] # cast[c].exclude
      BY <3>2 DEF Ahead, L
    <3>4. x < y
      BY <3>2, <3>3, <1>0, <1>2, CollaborationAssumption DEF Connections
    <3>5. Position(y, L) >= Position(x, L) + 1
      BY <3>3, <3>4, <1>2, PositionGrows
    <3>6. Ahead(c)' = {z \in L : /\ Position(z, L) >= cast'[c].at
                                 /\ user'[z] # cast'[c].exclude}
      BY <1>10 DEF Ahead, L
    <3>7. QED
      BY <3>3, <3>5, <3>6, <1>7, <1>8
  <2>4. QED
    BY <2>2, <2>3
<1>12. \A d \in Connections : BroadcastOK(d)'
  <2>1. BroadcastOK(c)'
    BY <1>3, <1>7, <1>8 DEF BroadcastOK
  <2>2. \A d \in Connections \ {c} : BroadcastOK(d)'
    BY <1>6, <1>7 DEF BroadcastOK
  <2>3. QED
    BY <2>1, <2>2
<1>13. InOrder' /\ ListedServed' /\ \A d \in Connections : Explained(d)'
  BY <1>7 DEF InOrder, ListedServed, Explained
<1>14. QED
  BY <1>7, <1>9, <1>11, <1>12, <1>13, PartsAfter

LEMMA EndBroadcastKeeps ==
  ASSUME Consistent, NEW c \in Connections, EndBroadcast(c)
  PROVE  Consistent'
<1> USE Parts
<1>1. cast \in [Connections -> Broadcast] /\ pc[c] \in Broadcasting /\ pc \in [Connections -> Serving \cup {"new", "leaving", "done"}]
  BY DEF TypeOK, EndBroadcast
<1>2. /\ list' = list \ cast[c].dead
      /\ cast' = [d \in Connections |-> IF d = c THEN NoBroadcast ELSE Disturbed(d)]
      /\ pc' = [pc EXCEPT ![c] = After(pc[c])]
      /\ UNCHANGED <<entry, user, gone, accepted, tasks, settled>>
  BY DEF EndBroadcast, Cleaned
<1>3. /\ After(pc[c]) \in {"welcome", "done", "receive"}
      /\ pc[c] # "leaving" => After(pc[c]) \in Serving
      /\ pc[c] = "leaving" => After(pc[c]) = "done"
  BY <1>1 DEF After, Broadcasting, Serving
<1>4. /\ pc'[c] = After(pc[c])
      /\ \A d \in Connections \ {c} : pc'[d] = pc[d]
  BY <1>1, <1>2
<1>5. \A d \in Connections : (pc'[d] = "new" <=> pc[d] = "new")
  BY <1>1, <1>3, <1>4 DEF Broadcasting
<1>6. \A d \in Connections \ {c} :
        /\ cast'[d] \in Broadcast
        /\ cast'[d].live = cast[d].live /\ cast'[d].old = cast[d].old
        /\ cast'[d].at = cast[d].at /\ cast'[d].exclude = cast[d].exclude
        /\ cast'[d].dead = cast[d].dead /\ cast'[d].due = cast[d].due
        /\ ~cast'[d].disturbed => ~cast[d].disturbed /\ (cast[d].live => list' = list)
  BY <1>1, <1>2 DEF Disturbed, Broadcast
<1>7. cast'[c] = NoBroadcast /\ NoBroadcast \in Broadcast
  BY <1>2 DEF NoBroadcast, Broadcast
<1>8. TypeOK'
  <2>1. cast' \in [Connections -> Broadcast]
    BY <1>2, <1>6, <1>7
  <2>2. pc' \in [Connections -> Serving \cup {"new", "leaving", "done"}]
    BY <1>1, <1>2, <1>3 DEF Serving
  <2>3. QED
    BY <2>1, <2>2, <1>2 DEF TypeOK
<1>9. \A d \in Connections : BroadcastOK(d)'
  BY <1>2, <1>5, <1>6, <1>7 DEF BroadcastOK, NoBroadcast, TypeOK, Broadcast
<1>10. ListedServed'
  <2>1. \A d \in list' : d # c \/ pc[c] # "leaving"
    BY <1>2 DEF ListedServed, Serving
  <2>2. QED
    BY <2>1, <1>2, <1>3, <1>4 DEF ListedServed, TypeOK
<1>11. \A d \in Connections : Reaches(d)'
  <2>1. SUFFICES ASSUME NEW d \in Connections, d # c, pc[d] \in Broadcasting,
                        ~cast'[d].disturbed
                 PROVE  cast'[d].due \subseteq Ahead(d)'
    BY <1>3, <1>4 DEF Reaches, Broadcasting
  <2>2. Iterated(d)' = Iterated(d)
    BY <2>1, <1>6 DEF Iterated
  <2>3. Ahead(d)' = Ahead(d)
    BY <2>1, <2>2, <1>2, <1>6, AheadKept
  <2>4. QED
    BY <2>1, <2>3, <1>6 DEF Reaches
<1>12. \A d \in Connections : Explained(d)'
  <2>1. SUFFICES ASSUME NEW d \in Connections, pc'[d] \in Serving, d \notin gone
                 PROVE  \/ d \in list'
                        \/ \E e \in Connections \ {d} :
                             user[e] = user[d] /\ pc'[e] \in {"leaving", "done"}
    BY <1>2 DEF Explained
  <2>2. pc[d] \in Serving
    BY <2>1, <1>1, <1>3, <1>4 DEF Broadcasting, Serving
  <2>3. CASE d \in list
    BY <2>1, <2>3, <1>2 DEF BroadcastOK
  <2>4. CASE d \notin list
    <3>1. PICK e \in Connections \ {d} : user[e] = user[d] /\ pc[e] \in {"leaving", "done"}
      BY <2>1, <2>2, <2>4 DEF Explained
    <3>2. pc'[e] \in {"leaving", "done"}
      BY <3>1, <1>1, <1>3, <1>4 DEF Broadcasting
    <3>3. QED
      BY <3>1, <3>2
  <2>5. QED
    BY <2>3, <2>4
<1>13. InOrder'
  BY <1>5 DEF InOrder
<1>14. QED
  BY <1>2, <1>8, <1>9, <1>10, <1>11, <1>12, <1>13, PartsAfter

LEMMA FailBroadcastKeeps ==
  ASSUME Consistent, NEW c \in Connections, FailBroadcast(c)
  PROVE  Consistent'
<1> USE Parts
<1>1. /\ cast \in [Connections -> Broadcast]
      /\ pc \in [Connections -> Serving \cup {"new", "leaving", "done"}]
      /\ pc[c] \in Broadcasting /\ ~entry
  BY DEF TypeOK, FailBroadcast
<1>2. /\ cast' = [cast EXCEPT ![c] = NoBroadcast]
      /\ \/ pc[c] = "updating" /\ pc' = [pc EXCEPT ![c] = "receive"] /\ gone' = gone
         \/ /\ pc' = [pc EXCEPT ![c] = "done"]
            /\ gone' = gone \cup {c}
      /\ UNCHANGED <<entry, list, user, accepted, tasks, settled>>
  BY DEF FailBroadcast, Close
<1>3. list = {}
  BY <1>1 DEF ListedServed
<1>4. /\ pc'[c] \in {"receive", "done"}
      /\ pc'[c] = "receive" => pc[c] = "updating" /\ gone' = gone
      /\ \A d \in Connections \ {c} : pc'[d] = pc[d]
  BY <1>1, <1>2
<1>5. \A d \in Connections : (pc'[d] = "new" <=> pc[d] = "new")
  BY <1>1, <1>4 DEF Broadcasting
<1>6. \A d \in Connections \ {c} : cast'[d] = cast[d]
  BY <1>1, <1>2
<1>7. cast'[c] = NoBroadcast /\ NoBroadcast \in Broadcast
  BY <1>1, <1>2 DEF NoBroadcast, Broadcast
<1>8. TypeOK'
  <2>1. cast' \in [Connections -> Broadcast]
    BY <1>1, <1>2, <1>7
  <2>2. pc' \in [Connections -> Serving \cup {"new", "leaving", "done"}]
    BY <1>1, <1>2 DEF Serving
  <2>3. QED
    BY <2>1, <2>2, <1>2 DEF TypeOK
<1>9. \A d \in Connections : BroadcastOK(d)'
  BY <1>2, <1>5, <1>6, <1>7 DEF BroadcastOK, NoBroadcast, TypeOK, Broadcast
<1>10. \A d \in Connections : Reaches(d)'
  <2>1. SUFFICES ASSUME NEW d \in Connections, d # c, pc[d] \in Broadcasting,
                        ~cast'[d].disturbed
                 PROVE  cast'[d].due \subseteq Ahead(d)'
    BY <1>4 DEF Reaches, Broadcasting
  <2>2. Iterated(d)' = Iterated(d)
    BY <2>1, <1>2, <1>6 DEF Iterated
  <2>3. Ahead(d)' = Ahead(d)
    BY <2>1, <2>2, <1>2, <1>6, AheadKept
  <2>4. QED
    BY <2>1, <2>3, <1>6 DEF Reaches
<1>11. \A d \in Connections : Explained(d)'
  <2>1. SUFFICES ASSUME NEW d \in Connections, pc'[d] \in Serving, d \notin gone'
                 PROVE  \E e \in Connections \ {d} :
                          user[e] = user[d] /\ pc'[e] \in {"leaving", "done"}
    BY <1>2 DEF Explained
  <2>2. pc[d] \in Serving /\ d \notin gone
    BY <2>1, <1>2, <1>4 DEF Serving
  <2>3. PICK e \in Connections \ {d} : user[e] = user[d] /\ pc[e] \in {"leaving", "done"}
    BY <2>2, <1>3 DEF Explained
  <2>4. pc'[e] \in {"leaving", "done"}
    BY <2>3, <1>1, <1>2, <1>4 DEF Broadcasting
  <2>5. QED
    BY <2>3, <2>4
<1>12. InOrder'
  BY <1>5 DEF InOrder
<1>13. ListedServed'
  BY <1>2, <1>3 DEF ListedServed
<1>14. QED
  BY <1>2, <1>8, <1>9, <1>10, <1>11, <1>12, <1>13, PartsAfter

-----------------------------------------------------------------------------
(* Endpoints preserve the invariant *)

LEMMA ConnectKeeps ==
  ASSUME Consistent, NEW c \in Connections, Connect(c)
  PROVE  Consistent'
<1> USE Parts
<1>1. /\ cast \in [Connections -> Broadcast]
      /\ pc \in [Connections -> Serving \cup {"new", "leaving", "done"}]
      /\ user \in [Connections -> Users \cup {None}]
      /\ list \subseteq Connections
      /\ pc[c] = "new"
      /\ \A d \in 1..(c - 1) : pc[d] # "new"
  BY DEF TypeOK, Connect
<1>2. PICK u \in Users : user' = [user EXCEPT ![c] = u]
  BY DEF Connect
<1>3. /\ entry' = TRUE
      /\ list' = list \cup {c}
      /\ pc' = [pc EXCEPT ![c] = "joining"]
      /\ cast' = [cast EXCEPT ![c] = Started(list, user'[c])]
      /\ UNCHANGED <<gone, accepted, tasks, settled>>
  BY DEF Connect
<1>4. user'[c] = u /\ \A d \in Connections \ {c} : user'[d] = user[d]
  BY <1>1, <1>2
<1>5. pc'[c] = "joining" /\ \A d \in Connections \ {c} : pc'[d] = pc[d]
  BY <1>1, <1>3
<1>6. cast'[c] = Started(list, u) /\ \A d \in Connections \ {c} : cast'[d] = cast[d]
  BY <1>1, <1>3, <1>4
<1>7. /\ Started(list, u) \in Broadcast
      /\ Started(list, u).live = TRUE /\ Started(list, u).old = {} /\ Started(list, u).at = 0
      /\ Started(list, u).exclude = u /\ Started(list, u).dead = {}
      /\ \A x : x \in Started(list, u).due <=> x \in list /\ user[x] # u
  <2>1. u \in Users \cup {None} /\ list \subseteq Connections
    BY <1>1
  <2>2. QED
    BY <2>1 DEF Started, Broadcast
<1>8. TypeOK'
  <2>1. cast' \in [Connections -> Broadcast]
    BY <1>1, <1>3, <1>6, <1>7
  <2>2. pc' \in [Connections -> Serving \cup {"new", "leaving", "done"}]
    BY <1>1, <1>3 DEF Serving
  <2>3. user' \in [Connections -> Users \cup {None}]
    BY <1>1, <1>2
  <2>4. QED
    BY <2>1, <2>2, <2>3, <1>3 DEF TypeOK
\* Whoever arrived before is on the right side of the new connection.
<1>9. \A x \in Connections : pc[x] # "new" => x < c /\ x # c
  <2>1. SUFFICES ASSUME NEW x \in Connections, pc[x] # "new", ~(x < c)  PROVE FALSE
    BY CollaborationAssumption DEF Connections
  <2>2. x # c
    BY <2>1, <1>1
  <2>3. c < x
    BY <2>1, <2>2, CollaborationAssumption DEF Connections
  <2>4. QED
    BY <2>1, <2>3, <1>1 DEF InOrder
<1>10. InOrder'
  <2>1. SUFFICES ASSUME NEW x \in Connections, NEW y \in Connections, x < y, pc'[x] = "new"
                 PROVE  pc'[y] = "new"
    BY DEF InOrder
  <2>2. pc[x] = "new" /\ x # c
    BY <2>1, <1>5
  <2>3. pc[y] = "new"
    BY <2>1, <2>2 DEF InOrder
  <2>4. ~(x < c)
    <3>1. x < c => x \in 1..(c - 1)
      BY CollaborationAssumption DEF Connections
    <3>2. QED
      BY <3>1, <2>2, <1>1
  <2>5. y # c
    BY <2>1, <2>4
  <2>6. QED
    BY <2>3, <2>5, <1>5
<1>11. \A d \in Connections : BroadcastOK(d)'
  <2>1. BroadcastOK(c)'
    BY <1>6, <1>7 DEF BroadcastOK
  <2>2. \A d \in Connections \ {c} : BroadcastOK(d)'
    <3>1. SUFFICES ASSUME NEW d \in Connections \ {c} PROVE BroadcastOK(d)'
      OBVIOUS
    <3>2. cast[d].old \subseteq Connections
      BY <1>1 DEF Broadcast
    <3>3. QED
      BY <3>2, <1>3, <1>5, <1>6 DEF BroadcastOK
  <2>3. QED
    BY <2>1, <2>2
<1>12. ListedServed'
  BY <1>1, <1>3, <1>5 DEF ListedServed, Serving
<1>13. \A d \in Connections : Reaches(d)'
  <2>1. ASSUME NEW d \in Connections \ {c} PROVE Reaches(d)'
    <3>1. SUFFICES ASSUME pc[d] \in Broadcasting, ~cast[d].disturbed, NEW x \in cast[d].due
                   PROVE  x \in Ahead(d)'
      BY <1>5, <1>6 DEF Reaches
    <3>2. x \in Ahead(d)
      BY <3>1 DEF Reaches
    <3>3. /\ x \in Iterated(d) /\ x \in Connections /\ x < c /\ x # c
          /\ Position(x, Iterated(d)) >= cast[d].at
          /\ user[x] # cast[d].exclude
      BY <3>2, <1>9, IteratedType DEF Ahead
    <3>4. /\ x \in Iterated(d)'
          /\ Position(x, Iterated(d)') = Position(x, Iterated(d))
      <4>1. CASE cast[d].live
        <5>1. Iterated(d) = list /\ Iterated(d)' = list \cup {c}
          BY <4>1, <1>3, <1>6 DEF Iterated
        <5>2. QED
          BY <5>1, <3>3, <1>1, PositionKept
      <4>2. CASE ~cast[d].live
        <5>1. Iterated(d)' = Iterated(d)
          BY <4>2, <1>6 DEF Iterated
        <5>2. QED
          BY <5>1, <3>3
      <4>3. QED
        BY <4>1, <4>2
    <3>5. Ahead(d)' = {y \in Iterated(d)' : /\ Position(y, Iterated(d)') >= cast'[d].at
                                            /\ user'[y] # cast'[d].exclude}
      BY DEF Ahead
    <3>6. QED
      BY <3>3, <3>4, <3>5, <1>4, <1>6
  <2>2. Reaches(c)'
    <3>1. SUFFICES ASSUME NEW x \in cast'[c].due PROVE x \in Ahead(c)'
      BY DEF Reaches
    <3>2. x \in list /\ user[x] # u /\ x # c
      BY <3>1, <1>1, <1>6, <1>7 DEF ListedServed, Serving
    <3>3. Iterated(c)' = list \cup {c}
      BY <1>3, <1>6, <1>7 DEF Iterated
    <3>4. Position(x, list \cup {c}) \in Nat
      BY <1>1, PositionType
    <3>5. Ahead(c)' = {y \in Iterated(c)' : /\ Position(y, Iterated(c)') >= cast'[c].at
                                            /\ user'[y] # cast'[c].exclude}
      BY DEF Ahead
    <3>6. QED
      BY <3>2, <3>3, <3>4, <3>5, <1>1, <1>4, <1>6, <1>7
  <2>3. QED
    BY <2>1, <2>2
<1>14. \A d \in Connections : Explained(d)'
  <2>1. SUFFICES ASSUME NEW d \in Connections \ {c}, pc[d] \in Serving, d \notin gone, d \notin list
                 PROVE  \E e \in Connections \ {d} :
                          user'[e] = user'[d] /\ pc'[e] \in {"leaving", "done"}
    BY <1>3, <1>5 DEF Explained
  <2>2. PICK e \in Connections \ {d} : user[e] = user[d] /\ pc[e] \in {"leaving", "done"}
    BY <2>1 DEF Explained
  <2>3. e # c
    BY <2>2, <1>1
  <2>4. QED
    BY <2>2, <2>3, <1>4, <1>5
<1>15. QED
  BY <1>3, <1>8, <1>10, <1>11, <1>12, <1>13, <1>14, PartsAfter

\* An endpoint that goes to another phase and begins a broadcast, or none.
LEMMA PhaseKeeps ==
  ASSUME Consistent, NEW c \in Connections, pc[c] \in {"welcome", "receive"},
         NEW phase \in Serving, pc' = [pc EXCEPT ![c] = phase],
         UNCHANGED <<entry, list, user, gone>>,
         \/ cast' = cast /\ phase \notin Broadcasting
         \/ \E e \in Users \cup {None} : cast' = [cast EXCEPT ![c] = Started(list, e)],
         tasks' \subseteq {accepted'}, accepted' \in 0..MaxUpdates,
         tasks' \subseteq 1..MaxUpdates, settled' \in 0..MaxUpdates
  PROVE  Consistent'
<1> USE Parts
<1>1. /\ cast \in [Connections -> Broadcast]
      /\ pc \in [Connections -> Serving \cup {"new", "leaving", "done"}]
      /\ list \subseteq Connections
  BY DEF TypeOK
<1>2. pc'[c] = phase /\ \A d \in Connections \ {c} : pc'[d] = pc[d]
  BY <1>1
<1>3. \A d \in Connections : (pc'[d] = "new" <=> pc[d] = "new")
  BY <1>2 DEF Serving
<1>4. \A d \in Connections \ {c} : cast'[d] = cast[d]
  BY <1>1
<1>5. TypeOK'
  <2>1. cast' \in [Connections -> Broadcast]
    <3>1. CASE cast' = cast
      BY <3>1, <1>1
    <3>2. ASSUME NEW e \in Users \cup {None}, cast' = [cast EXCEPT ![c] = Started(list, e)]
          PROVE  cast' \in [Connections -> Broadcast]
      BY <3>2, <1>1, StartedType
    <3>3. QED
      BY <3>1, <3>2
  <2>2. pc' \in [Connections -> Serving \cup {"new", "leaving", "done"}]
    BY <1>1
  <2>3. QED
    BY <2>1, <2>2 DEF TypeOK
<1>6. BroadcastOK(c)' /\ Reaches(c)'
  <2>1. CASE cast' = cast /\ phase \notin Broadcasting
    BY <2>1, <1>2, <1>3, <1>5 DEF BroadcastOK, Reaches, TypeOK, Broadcast
  <2>2. ASSUME NEW e \in Users \cup {None}, cast' = [cast EXCEPT ![c] = Started(list, e)]
        PROVE  BroadcastOK(c)' /\ Reaches(c)'
    <3>1. cast'[c] = Started(list, e)
      BY <2>2, <1>1
    <3>0. /\ cast'[c].live = TRUE /\ cast'[c].old = {} /\ cast'[c].at = 0
          /\ cast'[c].exclude = e /\ cast'[c].dead = {}
          /\ \A x : x \in cast'[c].due <=> x \in list /\ user[x] # e
      BY <3>1 DEF Started
    <3>2. BroadcastOK(c)'
      BY <3>0 DEF BroadcastOK
    <3>3. Iterated(c)' = list
      BY <3>0 DEF Iterated
    <3>4. Ahead(c)' = {y \in list : /\ Position(y, list) >= cast'[c].at
                                    /\ user'[y] # cast'[c].exclude}
      BY <3>3 DEF Ahead
    <3>5. cast'[c].due \subseteq Ahead(c)'
      <4>1. \A x : Position(x, list) \in Nat
        BY <1>1, PositionType
      <4>2. \A x : Position(x, list) >= 0
        BY <4>1
      <4>3. QED
        BY <3>0, <3>4, <4>2
    <3>6. QED
      BY <3>2, <3>5 DEF Reaches
  <2>3. QED
    BY <2>1, <2>2
<1>7. \A d \in Connections \ {c} : BroadcastOK(d)' /\ Reaches(d)'
  <2>1. SUFFICES ASSUME NEW d \in Connections \ {c} PROVE BroadcastOK(d)' /\ Reaches(d)'
    OBVIOUS
  <2>2. Iterated(d)' = Iterated(d)
    BY <1>4 DEF Iterated
  <2>3. Ahead(d)' = Ahead(d)
    BY <2>2, <1>4, AheadKept
  <2>4. cast[d].old \subseteq Connections
    BY <1>1 DEF Broadcast
  <2>5. QED
    BY <2>3, <2>4, <1>2, <1>3, <1>4 DEF BroadcastOK, Reaches
<1>8. InOrder' /\ ListedServed'
  BY <1>1, <1>2, <1>3 DEF InOrder, ListedServed
<1>9. \A d \in Connections : Explained(d)'
  <2>1. SUFFICES ASSUME NEW d \in Connections, pc'[d] \in Serving, d \notin gone, d \notin list
                 PROVE  \E e \in Connections \ {d} :
                          user[e] = user[d] /\ pc'[e] \in {"leaving", "done"}
    BY DEF Explained
  <2>2. pc[d] \in Serving
    BY <2>1, <1>2 DEF Serving
  <2>3. PICK e \in Connections \ {d} : user[e] = user[d] /\ pc[e] \in {"leaving", "done"}
    BY <2>1, <2>2 DEF Explained
  <2>4. e # c
    BY <2>3
  <2>5. QED
    BY <2>3, <2>4, <1>2
<1>10. QED
  BY <1>5, <1>6, <1>7, <1>8, <1>9, PartsAfter

LEMMA LeaveKeeps ==
  ASSUME Consistent, NEW c \in Connections, Leave(c)
  PROVE  Consistent'
<1> USE Parts
<1>1. /\ cast \in [Connections -> Broadcast]
      /\ pc \in [Connections -> Serving \cup {"new", "leaving", "done"}]
      /\ list \subseteq Connections /\ entry \in BOOLEAN
      /\ pc[c] \in {"welcome", "receive"}
  BY DEF TypeOK, Leave
<1>2. /\ list' = {x \in list : user[x] # user[c]}
      /\ entry' = (entry /\ list' # {})
      /\ pc' = [pc EXCEPT ![c] = IF entry' THEN "leaving" ELSE "done"]
      /\ UNCHANGED <<user, accepted, tasks, settled>>
      /\ cast' = [d \in Connections |->
           IF d # c THEN Frozen(d) ELSE IF entry' THEN Started(list', None) ELSE NoBroadcast]
      /\ gone' = gone \cup {c}
  BY DEF Leave, Remaining, Close
<1>3. /\ pc'[c] \in {"leaving", "done"}
      /\ pc'[c] \in Broadcasting => entry'
      /\ \A d \in Connections \ {c} : pc'[d] = pc[d]
  BY <1>1, <1>2 DEF Broadcasting
<1>4. \A d \in Connections : (pc'[d] = "new" <=> pc[d] = "new")
  BY <1>1, <1>3
<1>5. \A d \in Connections \ {c} :
        /\ cast'[d] \in Broadcast
        /\ cast'[d].live = FALSE
        /\ cast'[d].old = Iterated(d)
        /\ cast'[d].at = cast[d].at /\ cast'[d].exclude = cast[d].exclude
        /\ cast'[d].dead = cast[d].dead /\ cast'[d].due = cast[d].due
        /\ cast'[d].disturbed = cast[d].disturbed
  BY <1>1, <1>2 DEF Frozen, Iterated, Broadcast
<1>6. /\ list' \subseteq Connections
      /\ cast'[c] = IF entry' THEN Started(list', None) ELSE NoBroadcast
  BY <1>1, <1>2
<1>7. /\ cast'[c] \in Broadcast
      /\ cast'[c].old = {} /\ cast'[c].dead = {} /\ cast'[c].at = 0
      /\ entry' => cast'[c].live = TRUE
      /\ \A x : x \in cast'[c].due => x \in list' /\ user[x] # None
      /\ cast'[c].exclude = None
  BY <1>6 DEF Started, NoBroadcast, Broadcast
<1>8. TypeOK'
  <2>1. cast' \in [Connections -> Broadcast]
    <3>1. \A d \in Connections : cast'[d] \in Broadcast
      BY <1>5, <1>7
    <3>2. QED
      BY <3>1, <1>2
  <2>2. pc' \in [Connections -> Serving \cup {"new", "leaving", "done"}]
    BY <1>1, <1>2
  <2>3. QED
    BY <2>1, <2>2, <1>1, <1>2, <1>6 DEF TypeOK
<1>9. InOrder'
  BY <1>4 DEF InOrder
<1>10. ListedServed'
  <2>1. \A x \in list' : x \in Connections /\ x # c /\ pc'[x] \in Serving
    BY <1>1, <1>2, <1>3 DEF ListedServed
  <2>2. list' # {} => entry'
    BY <1>2 DEF ListedServed
  <2>3. QED
    BY <2>1, <2>2 DEF ListedServed
<1>11. \A d \in Connections : BroadcastOK(d)'
  <2>1. BroadcastOK(c)'
    BY <1>7 DEF BroadcastOK
  <2>2. ASSUME NEW d \in Connections \ {c} PROVE BroadcastOK(d)'
    <3>1. \A x \in Iterated(d) : x \in Connections /\ pc[x] # "new"
      BY IteratedType
    <3>2. QED
      BY <3>1, <1>2, <1>4, <1>5 DEF BroadcastOK
  <2>3. QED
    BY <2>1, <2>2
<1>12. \A d \in Connections : Reaches(d)'
  <2>1. ASSUME NEW d \in Connections \ {c} PROVE Reaches(d)'
    <3>1. Iterated(d)' = Iterated(d)
      BY <1>5 DEF Iterated
    <3>2. Ahead(d)' = Ahead(d)
      BY <3>1, <1>2, <1>5, AheadKept
    <3>3. QED
      BY <3>2, <1>3, <1>5 DEF Reaches
  <2>2. Reaches(c)'
    <3>1. SUFFICES ASSUME entry' PROVE cast'[c].due \subseteq Ahead(c)'
      BY <1>3 DEF Reaches
    <3>2. Iterated(c)' = list'
      BY <3>1, <1>7 DEF Iterated
    <3>3. Ahead(c)' = {y \in list' : /\ Position(y, list') >= cast'[c].at
                                     /\ user'[y] # cast'[c].exclude}
      BY <3>2 DEF Ahead
    <3>4. \A x : Position(x, list') \in Nat
      BY <1>6, PositionType
    <3>5. \A x : Position(x, list') >= 0
      BY <3>4
    <3>6. QED
      BY <3>3, <3>5, <1>2, <1>7
  <2>3. QED
    BY <2>1, <2>2
<1>13. \A d \in Connections : Explained(d)'
  <2>1. SUFFICES ASSUME NEW d \in Connections, d # c, pc[d] \in Serving, d \notin gone,
                        d \notin list'
                 PROVE  \E e \in Connections \ {d} :
                          user[e] = user[d] /\ pc'[e] \in {"leaving", "done"}
    BY <1>2, <1>3 DEF Explained, Serving
  <2>2. CASE d \in list
    <3>1. user[d] = user[c]
      BY <2>1, <2>2, <1>2
    <3>2. QED
      BY <3>1, <2>1, <1>3
  <2>3. CASE d \notin list
    <3>1. PICK e \in Connections \ {d} : user[e] = user[d] /\ pc[e] \in {"leaving", "done"}
      BY <2>1, <2>3 DEF Explained
    <3>2. e # c
      BY <3>1, <1>1
    <3>3. QED
      BY <3>1, <3>2, <1>3
  <2>4. QED
    BY <2>2, <2>3
<1>14. QED
  BY <1>2, <1>8, <1>9, <1>10, <1>11, <1>12, <1>13, PartsAfter

LEMMA RestartKeeps ==
  ASSUME Consistent, Restart
  PROVE  Consistent'
<1> USE Parts
<1>1. /\ entry' = FALSE /\ list' = {} /\ tasks' = {}
      /\ pc' = [c \in Connections |-> IF pc[c] = "new" THEN "new" ELSE "done"]
      /\ cast' = [c \in Connections |-> NoBroadcast]
      /\ gone' = {c \in Connections : pc[c] # "new"}
      /\ settled' = accepted
      /\ UNCHANGED <<user, accepted>>
  BY DEF Restart
<1>2. \A c \in Connections : /\ pc'[c] \in {"new", "done"}
                             /\ pc'[c] = "new" <=> pc[c] = "new"
                             /\ cast'[c] = NoBroadcast
  BY <1>1
<1>3. TypeOK'
  <2>1. NoBroadcast \in Broadcast
    BY DEF NoBroadcast, Broadcast
  <2>2. pc' \in [Connections -> Serving \cup {"new", "leaving", "done"}]
    BY <1>1
  <2>3. QED
    BY <2>1, <2>2, <1>1 DEF TypeOK
<1>4. \A c \in Connections : BroadcastOK(c)' /\ Reaches(c)' /\ Explained(c)'
  BY <1>2 DEF BroadcastOK, Reaches, Explained, NoBroadcast, Broadcasting, Serving
<1>5. InOrder' /\ ListedServed'
  BY <1>1, <1>2 DEF InOrder, ListedServed
<1>6. QED
  BY <1>1, <1>3, <1>4, <1>5, PartsAfter

\* A step that leaves the list and the endpoints alone: a save, or a lost connection.
LEMMA OthersKeep ==
  ASSUME Consistent, UNCHANGED <<entry, list, user, pc, cast, accepted>>,
         gone \subseteq gone', gone' \subseteq Connections,
         tasks' \subseteq tasks, settled' \in 0..MaxUpdates
  PROVE  Consistent'
<1> USE Parts
<1>1. TypeOK'
  BY DEF TypeOK
<1>2. \A c \in Connections : Ahead(c)' = Ahead(c)
  BY DEF Ahead, Iterated
<1>3. \A c \in Connections : BroadcastOK(c)' /\ Reaches(c)'
  BY <1>2 DEF BroadcastOK, Reaches
<1>4. \A c \in Connections : Explained(c)'
  BY DEF Explained
<1>5. InOrder' /\ ListedServed'
  BY DEF InOrder, ListedServed
<1>6. QED
  BY <1>1, <1>3, <1>4, <1>5, PartsAfter

-----------------------------------------------------------------------------
(* The theorems *)

LEMMA InitConsistent ==
  ASSUME Init
  PROVE  Consistent
<1>1. \A c \in Connections : pc[c] = "new" /\ cast[c] = NoBroadcast
  BY DEF Init
<1>2. TypeOK
  <2>1. NoBroadcast \in Broadcast
    BY DEF NoBroadcast, Broadcast
  <2>2. 0 \in 0..MaxUpdates
    BY CollaborationAssumption
  <2>3. QED
    BY <2>1, <2>2 DEF Init, TypeOK
<1>3. \A c \in Connections : BroadcastOK(c) /\ Reaches(c) /\ Explained(c)
  BY <1>1 DEF BroadcastOK, Reaches, Explained, NoBroadcast, Broadcasting, Serving
<1>4. InOrder /\ ListedServed /\ tasks \subseteq {accepted}
  BY <1>1 DEF Init, InOrder, ListedServed
<1>5. QED
  BY <1>2, <1>3, <1>4, Parts

LEMMA EndpointKeeps ==
  ASSUME Consistent, NEW c \in Connections, Endpoint(c)
  PROVE  Consistent'
<1> USE Parts
<1>0. /\ user[c] \in Users \cup {None} /\ pc \in [Connections -> Serving \cup {"new", "leaving", "done"}]
      /\ accepted \in 0..MaxUpdates /\ settled \in 0..MaxUpdates
      /\ tasks \subseteq 1..MaxUpdates /\ tasks \subseteq {accepted}
  BY DEF TypeOK
<1>1. CASE Connect(c)
  BY <1>1, ConnectKeeps
<1>2. CASE Send(c)
  BY <1>2, SendKeeps
<1>3. CASE EndBroadcast(c)
  BY <1>3, EndBroadcastKeeps
<1>4. CASE FailBroadcast(c)
  BY <1>4, FailBroadcastKeeps
<1>5. CASE Welcome(c)
  <2>1. "receive" \in Serving /\ "receive" \notin Broadcasting
    BY DEF Serving, Broadcasting
  <2>2. /\ pc[c] \in {"welcome", "receive"} /\ pc' = [pc EXCEPT ![c] = "receive"]
        /\ UNCHANGED <<entry, list, user, cast, gone, accepted, tasks, settled>>
    BY <1>5 DEF Welcome
  <2>3. QED
    BY <2>1, <2>2, <1>0, PhaseKeeps
\* BeginBroadcast, for the messages that begin one.
<1>6. ASSUME NEW phase \in Serving, NEW e \in Users \cup {None},
             BeginBroadcast(c, phase, e),
             tasks' \subseteq {accepted'}, accepted' \in 0..MaxUpdates,
             tasks' \subseteq 1..MaxUpdates
      PROVE  Consistent'
  <2>1. pc[c] = "receive" /\ UNCHANGED <<entry, list, user, gone, settled>>
    BY <1>6 DEF BeginBroadcast
  <2>2. CASE entry
    <3>1. pc' = [pc EXCEPT ![c] = phase] /\ cast' = [cast EXCEPT ![c] = Started(list, e)]
      BY <1>6, <2>2 DEF BeginBroadcast
    <3>2. QED
      BY <3>1, <2>1, <1>0, <1>6, PhaseKeeps
  <2>3. CASE ~entry
    <3>1. cast' = cast /\ pc' = pc
      BY <1>6, <2>3 DEF BeginBroadcast
    <3>2. pc' = [pc EXCEPT ![c] = "receive"]
      BY <3>1, <2>1, <1>0
    <3>3. "receive" \in Serving /\ "receive" \notin Broadcasting
      BY DEF Serving, Broadcasting
    <3>4. QED
      BY <3>1, <3>2, <3>3, <2>1, <1>0, <1>6, PhaseKeeps
  <2>4. QED
    BY <2>2, <2>3
<1>7. CASE MoveCursor(c)
  <2>1. BeginBroadcast(c, "moving", user[c]) /\ UNCHANGED <<accepted, tasks>>
    BY <1>7 DEF MoveCursor
  <2>2. "moving" \in Serving
    BY DEF Serving
  <2>3. QED
    BY <2>1, <2>2, <1>0, <1>6
<1>8. CASE Update(c)
  <2>1. /\ BeginBroadcast(c, "updating", None)
        /\ accepted < MaxUpdates /\ accepted' = accepted + 1 /\ tasks' = {accepted'}
    BY <1>8 DEF Update, Scheduled
  <2>2. accepted' \in 1..MaxUpdates /\ accepted' \in 0..MaxUpdates
    BY <2>1, <1>0, CollaborationAssumption
  <2>3. "updating" \in Serving
    BY DEF Serving
  <2>4. QED
    BY <2>1, <2>2, <2>3, <1>6
<1>9. CASE Disconnect(c) \/ Expire(c)
  BY <1>9, LeaveKeeps DEF Disconnect, Expire
<1>10. QED
  BY <1>1, <1>2, <1>3, <1>4, <1>5, <1>7, <1>8, <1>9 DEF Endpoint

LEMMA NextKeeps ==
  ASSUME Consistent, [Next]_vars
  PROVE  Consistent'
<1> USE Parts
<1>0. gone \subseteq Connections /\ settled \in 0..MaxUpdates /\ tasks \subseteq 1..MaxUpdates
  BY DEF TypeOK
<1>1. ASSUME NEW c \in Connections, Endpoint(c) PROVE Consistent'
  BY <1>1, EndpointKeeps
<1>2. ASSUME NEW c \in Connections, Lose(c) PROVE Consistent'
  BY <1>0, <1>2, OthersKeep DEF Lose, Close
<1>3. ASSUME NEW update \in tasks, Save(update) PROVE Consistent'
  <2>1. update \in 0..MaxUpdates
    BY <1>0, <1>3, CollaborationAssumption
  <2>2. /\ UNCHANGED <<entry, list, user, pc, cast, gone, accepted>>
        /\ tasks' \subseteq tasks /\ settled' = update
    BY <1>3 DEF Save
  <2>3. QED
    BY <2>1, <2>2, <1>0, OthersKeep
<1>4. CASE Restart
  BY <1>4, RestartKeeps
<1>5. CASE UNCHANGED vars
  BY <1>0, <1>5, OthersKeep DEF vars
<1>6. QED
  BY <1>1, <1>2, <1>3, <1>4, <1>5 DEF Next, Rest

\* The inductive invariant holds in every state of every behaviour.
THEOREM ConsistentCorrect == Spec => []Consistent
<1>1. Init => Consistent
  BY InitConsistent
<1>2. Consistent /\ [Next]_vars => Consistent'
  BY NextKeeps
<1>3. QED
  BY <1>1, <1>2, PTL DEF Spec

\* Whoever is on the list has an endpoint that takes them off, however the tasks of the
\* event loop interleave (_remove_collaborator, notify_collaborators).
THEOREM ListIsServed == Spec => []ListedServed
<1>1. Consistent => ListedServed
  BY DEF Consistent
<1>2. QED
  BY <1>1, ConsistentCorrect, PTL

\* With any number of connections, a broadcast that no other one disturbs misses nobody
\* who was on the list when it began (notify_collaborators).
THEOREM MissesAreExplained == Spec => []MissesExplained
<1>1. Consistent => MissesExplained
  BY DEF Consistent
<1>2. QED
  BY <1>1, ConsistentCorrect, PTL

\* Only the end of another tab of the same user takes an open connection off the list.
THEOREM UnlistedAreExplained == Spec => []UnlistedExplained
<1>1. Consistent => UnlistedExplained
  BY DEF Consistent
<1>2. QED
  BY <1>1, ConsistentCorrect, PTL

\* A save never stores anything but the newest update (debounced_save_diagram).
THEOREM SavesAreNewest == Spec => SavesNewest
<1>1. ASSUME Consistent, [Next]_vars, settled' # settled
      PROVE  settled' = accepted
  <2>1. tasks \subseteq {accepted}
    BY <1>1 DEF Consistent
  <2>2. ASSUME NEW update \in tasks, Save(update) PROVE settled' = accepted
    BY <2>1, <2>2 DEF Save
  <2>3. CASE Restart
    BY <2>3 DEF Restart
  <2>4. ASSUME NEW c \in Connections, Endpoint(c) PROVE settled' = settled
    BY <2>4 DEF Endpoint, Connect, Send, EndBroadcast, FailBroadcast, Welcome, MoveCursor,
       Update, BeginBroadcast, Disconnect, Expire, Leave
  <2>5. ASSUME NEW c \in Connections, Lose(c) PROVE settled' = settled
    BY <2>5 DEF Lose
  <2>6. CASE UNCHANGED vars
    BY <1>1, <2>6 DEF vars
  <2>7. QED
    BY <1>1, <2>2, <2>3, <2>4, <2>5, <2>6 DEF Next, Rest
<1>2. Consistent /\ [Next]_vars => [settled' # settled => settled' = accepted]_vars
  BY <1>1
<1>3. QED
  BY <1>2, ConsistentCorrect, PTL DEF Spec, SavesNewest

=============================================================================
