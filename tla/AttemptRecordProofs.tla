------------------------ MODULE AttemptRecordProofs ------------------------
(***************************************************************************)
(* Proofs about AttemptRecord, for any number of handlers, any reviews,    *)
(* scores and revisions, any bodies that clients send, any number of       *)
(* retries and whichever faults happen.                                    *)
(***************************************************************************)
EXTENDS AttemptRecord, SequenceTheorems, FiniteSetTheorems, TLAPS

-----------------------------------------------------------------------------
(* Operators *)

Merging == [review : Maybe(Scored), check : Maybe(Reviews), count : Nat,
            added : Seq(Reviews)]

\* Merging one more review gives a review, a check, a count and new reviews.
LEMMA OfferTyped ==
  ASSUME NEW m \in Merging, NEW r \in Maybe(Reviews), NEW original
  PROVE  Offer(m, r, original) \in Merging
<1>1. r \in Reviews => Append(m.added, r) \in Seq(Reviews)
  BY AppendProperties DEF Merging
<1>2. CASE r = None
  <2>1. r \notin Scored
    BY <1>2, ReviewAssumption DEF Reviews
  <2>2. Offer(m, r, original) = m
    BY <1>2, <2>1 DEF Offer
  <2>3. QED  BY <2>2
<1>3. CASE r \in Scored /\ r # m.review
  <2>1. r # None /\ r \in Reviews
    BY <1>3, ReviewAssumption DEF Reviews
  <2>2. Offer(m, r, original) =
          [review |-> r, check |-> r, count |-> m.count + 1,
           added |-> Append(m.added, r)]
    BY <1>3, <2>1 DEF Offer
  <2>3. QED  BY <1>1, <1>3, <2>1, <2>2 DEF Merging, Maybe
<1>4. CASE r \in Scored /\ r = m.review
  <2>1. r # None /\ r \in Reviews
    BY <1>4, ReviewAssumption DEF Reviews
  <2>2. Offer(m, r, original) =
          [m EXCEPT !.check = IF m.check = None THEN r ELSE m.check]
    BY <1>4, <2>1 DEF Offer
  <2>3. QED  BY <2>1, <2>2 DEF Merging, Maybe
<1>5. CASE r # None /\ r \notin Scored
  <2>1. r \in Reviews
    BY <1>5 DEF Maybe
  <2>2. Offer(m, r, original) =
          [m EXCEPT !.check = r,
                    !.added = IF r = original \/ \E i \in DOMAIN m.added : m.added[i] = r
                              THEN m.added ELSE Append(m.added, r)]
    BY <1>5 DEF Offer
  <2> DEFINE added == IF r = original \/ \E i \in DOMAIN m.added : m.added[i] = r
                      THEN m.added ELSE Append(m.added, r)
  <2>3. added \in Seq(Reviews)
    BY <1>1, <2>1 DEF Merging
  <2> HIDE DEF added
  <2>4. [m EXCEPT !.check = r, !.added = added] \in Merging
    BY <2>1, <2>3 DEF Merging, Maybe
  <2>5. QED  BY <2>2, <2>4 DEF added
<1>6. QED  BY <1>2, <1>3, <1>4, <1>5

LEMMA MergedTyped ==
  ASSUME NEW a \in Attempt, NEW q \in SaveRequest
  PROVE  Merged(a, q) \in Merging
<1> DEFINE before == [review |-> a.review, check |-> a.check, count |-> a.count,
                      added |-> <<>>]
<1>1. before \in Merging
  <2>1. <<>> \in Seq(Reviews)
    BY EmptySeq
  <2>2. QED  BY <2>1 DEF Attempt, Merging
<1>2. q.review \in Maybe(Reviews) /\ q.check \in Maybe(Reviews)
  BY DEF SaveRequest
<1> HIDE DEF before
<1>3. Offer(before, q.review, a.check) \in Merging
  BY <1>1, <1>2, OfferTyped
<1>4. Offer(Offer(before, q.review, a.check), q.check, a.check) \in Merging
  BY <1>2, <1>3, OfferTyped
<1>5. QED  BY <1>4 DEF Merged, before

\* The history is cut to its limit.
LEMMA RecentTyped ==
  ASSUME NEW s \in Seq(Reviews)
  PROVE  Recent(s) \in Seq(Reviews) /\ Len(Recent(s)) <= HistoryLimit
<1>1. CASE Len(s) <= HistoryLimit
  BY <1>1 DEF Recent
<1>2. CASE ~(Len(s) <= HistoryLimit)
  <2> DEFINE first == Len(s) - HistoryLimit + 1
  <2>1. Len(s) \in Nat /\ HistoryLimit \in Nat
    BY ReviewAssumption, LenProperties
  <2>2. first \in Int /\ first >= 1 /\ first <= Len(s)
    BY <1>2, <2>1, ReviewAssumption
  <2>3. \A i \in first .. Len(s) : s[i] \in Reviews
    BY <2>1, <2>2, ElementOfSeq
  <2>4. /\ SubSeq(s, first, Len(s)) \in Seq(Reviews)
        /\ Len(SubSeq(s, first, Len(s))) = IF first <= Len(s) THEN Len(s) - first + 1 ELSE 0
    <3> HIDE DEF first
    <3>1. QED  BY <2>1, <2>2, <2>3, SubSeqProperties
  <2>5. Recent(s) = SubSeq(s, first, Len(s))
    BY <1>2 DEF Recent
  <2>6. QED  BY <2>1, <2>2, <2>4, <2>5
<1>3. QED  BY <1>1, <1>2

LEMMA ListedTyped ==
  ASSUME NEW m, NEW public
  PROVE  Listed(public, m) \in Maybe(Nat)
  BY ReviewAssumption DEF Listed, Qualifies, Maybe

\* A save makes an attempt of an attempt.
LEMMA SavedTyped ==
  ASSUME NEW item \in Attempt, NEW a \in Attempt,
         NEW q \in SaveRequest, NEW pin \in Maybe(Revisions)
  PROVE  /\ SavedOver(item, a, q, pin) \in Attempt
         /\ Len(SavedOver(item, a, q, pin).history) <= HistoryLimit
<1> DEFINE m == Merged(a, q)
           history == Recent(a.history \o m.added)
           context == IF q.context = None THEN a.context ELSE q.context
           score == Listed(a.public, m)
<1>1. m \in Merging
  BY MergedTyped
<1>2. a.history \o m.added \in Seq(Reviews)
  BY <1>1, ConcatProperties DEF Attempt, Merging
<1>3. history \in Seq(Reviews) /\ Len(history) <= HistoryLimit
  BY <1>2, RecentTyped
<1>4. context \in Maybe(Contexts)
  BY DEF Attempt, SaveRequest
<1>5. score \in Maybe(Nat)
  BY ListedTyped
<1>6. SavedOver(item, a, q, pin) =
        [status |-> "stored", review |-> m.review, check |-> m.check,
         count |-> m.count, history |-> history, context |-> context, spec |-> pin,
         public |-> item.public, score |-> score, views |-> item.views]
  BY DEF SavedOver
<1> HIDE DEF m, history, context, score
<1>7. QED  BY <1>1, <1>3, <1>4, <1>5, <1>6 DEF Attempt, Merging

\* A save computes only with what two copies of one version have in common.
LEMMA SavedSame ==
  ASSUME NEW x, NEW y, NEW q, NEW pin, SameCore(x, y), x.public = y.public
  PROVE  SavedOver(y, x, q, pin) = SavedOver(y, y, q, pin)
<1>1. Merged(x, q) = Merged(y, q)
  BY DEF SameCore, Merged
<1>2. QED  BY <1>1 DEF SavedOver, SameCore

\* A value, or none.
LEMMA MaybeFacts ==
  \A S : None \in Maybe(S) /\ \A s \in S : s \in Maybe(S)
  BY DEF Maybe

LEMMA NoAttemptTyped == NoAttempt \in Attempt /\ Len(NoAttempt.history) = 0
<1>1. <<>> \in Seq(Reviews) /\ Len(<<>>) = 0
  BY EmptySeq
<1>2. QED  BY <1>1, MaybeFacts DEF NoAttempt, Attempt

LEMMA IdleTyped == Idle \in Request
  BY NoAttemptTyped, MaybeFacts DEF Idle, Request

-----------------------------------------------------------------------------
(* How the steps change the state *)

\* A request that holds no reading yet, or no longer.
Plain(r) ==
  /\ r.pc \in {"idle", "read"}
  /\ r.readAt = 0
  /\ r.op = "save" => r.body \in Saves

LEMMA IdlePlain == Plain(Idle)
  BY DEF Plain, Idle

\* Only a request changes: it reads the attempt, goes on with its reading, or is done.
LEMMA RequestMoves ==
  ASSUME Consistent, TypeOK',
         NEW h \in Handlers, NEW r \in Request,
         req' = [req EXCEPT ![h] = r],
         attempt' = attempt, updatedAt' = updatedAt, clock' >= clock,
         ReadMatches(r),
         r.readAt \in {0, updatedAt, req[h].readAt},
         Pending(r) => \/ r.stamp = clock + 1 /\ clock' = clock + 1
                       \/ Pending(req[h]) /\ r.stamp = req[h].stamp
  PROVE  Consistent'
<1>1. /\ clock \in Nat /\ updatedAt \in Nat /\ clock' \in Nat
      /\ req \in [Handlers -> Request]
  BY DEF Consistent, TypeOK
<1>2. \A k \in Handlers : req[k].readAt \in Nat /\ req[k].stamp \in Nat
  BY <1>1 DEF Request
<1>3. r.readAt \in Nat /\ r.stamp \in Nat
  BY DEF Request
<1>4. \A k \in Handlers : req'[k] = IF k = h THEN r ELSE req[k]
  BY <1>1
<1>5. Shaped' /\ LeaderboardHonest'
  BY DEF Consistent, Shaped, LeaderboardHonest
<1>6. Fresh'
  <2>1. updatedAt' <= clock'
    BY <1>1 DEF Consistent, Fresh
  <2>2. ASSUME NEW k \in Handlers
        PROVE  req'[k].readAt <= clock'
    BY <1>1, <1>2, <1>3, <1>4 DEF Consistent, Fresh
  <2>3. ASSUME NEW k \in Handlers, Pending(req'[k])
        PROVE  /\ req'[k].stamp > 0 /\ req'[k].stamp <= clock'
               /\ req'[k].stamp # updatedAt'
               /\ \A l \in Handlers :
                    /\ req'[l].readAt # req'[k].stamp
                    /\ l # k /\ Pending(req'[l]) => req'[l].stamp # req'[k].stamp
    <3>1. CASE k = h /\ r.stamp = clock + 1 /\ clock' = clock + 1
      BY <1>1, <1>2, <1>3, <1>4, <3>1 DEF Consistent, Fresh
    <3>2. CASE k = h /\ Pending(req[h]) /\ r.stamp = req[h].stamp
      BY <1>1, <1>2, <1>3, <1>4, <3>2 DEF Consistent, Fresh
    <3>3. CASE k # h
      <4>1. Pending(req[k]) /\ req'[k] = req[k]
        BY <1>4, <2>3, <3>3
      <4>2. QED  BY <1>1, <1>2, <1>3, <1>4, <3>3, <4>1 DEF Consistent, Fresh
    <3>4. QED  BY <1>4, <2>3, <3>1, <3>2, <3>3
  <2>4. QED  BY <2>1, <2>2, <2>3 DEF Fresh
<1>7. ASSUME NEW k \in Handlers
      PROVE  ReadMatches(req[k])'
  <2>1. PICK q \in Request : q = req'[k] /\ ReadMatches(q)
    BY <1>1, <1>4 DEF Consistent
  <2>2. QED  BY <2>1 DEF ReadMatches, Pending
<1>8. QED  BY <1>5, <1>6, <1>7 DEF Consistent

\* The item changes, but for what a save computes with, and requests may end.
LEMMA CoreStays ==
  ASSUME Consistent, TypeOK', Shaped', LeaderboardHonest',
         SameCore(attempt, attempt'),
         updatedAt' = updatedAt, clock' = clock,
         \A k \in Handlers : req'[k] = req[k] \/ Plain(req'[k])
  PROVE  Consistent'
<1>1. Fresh'
  <2>1. \A k \in Handlers : Pending(req'[k]) => req'[k] = req[k]
    BY DEF Plain, Pending
  <2>2. \A k \in Handlers : req'[k].readAt \in {0, req[k].readAt}
    BY DEF Plain
  <2>3. clock \in Nat
    BY DEF Consistent, TypeOK
  <2>4. \A k \in Handlers : req[k].stamp \in Nat
    BY DEF Consistent, TypeOK, Request
  <2>5. QED  BY <2>1, <2>2, <2>3, <2>4 DEF Consistent, Fresh
<1>2. ASSUME NEW k \in Handlers
      PROVE  ReadMatches(req[k])'
  <2>1. CASE Plain(req'[k])
    BY <2>1 DEF Plain, ReadMatches, Pending
  <2>2. CASE req'[k] = req[k]
    <3>1. PICK q : q = req'[k] /\ ReadMatches(q)
      BY <2>2 DEF Consistent
    <3>2. QED  BY <3>1 DEF ReadMatches, Pending, SameCore
  <2>3. QED  BY <2>1, <2>2
<1>3. QED  BY <1>1, <1>2 DEF Consistent

\* The item is written by a save, which ends with it or starts again.
LEMMA ItemWritten ==
  ASSUME Consistent, TypeOK', LeaderboardHonest',
         NEW h \in Handlers, NEW r \in Request, Plain(r),
         Pending(req[h]), req' = [req EXCEPT ![h] = r],
         attempt'.status = "stored",
         updatedAt' = req[h].stamp, clock' = clock
  PROVE  Consistent'
<1>1. req \in [Handlers -> Request] /\ clock \in Nat
  BY DEF Consistent, TypeOK
<1>2. \A k \in Handlers : req[k].readAt \in Nat /\ req[k].stamp \in Nat
  BY <1>1 DEF Request
<1>3. \A k \in Handlers : req'[k] = IF k = h THEN r ELSE req[k]
  BY <1>1
<1>4. ~Pending(r) /\ r.readAt = 0
  BY DEF Plain, Pending
<1>5. Shaped'
  BY <1>2 DEF Consistent, Fresh, Shaped
<1>6. Fresh'
  BY <1>1, <1>2, <1>3, <1>4 DEF Consistent, Fresh
<1>7. ASSUME NEW k \in Handlers
      PROVE  ReadMatches(req[k])'
  <2>1. CASE k = h
    BY <1>3, <2>1 DEF Plain, ReadMatches, Pending
  <2>2. CASE k # h
    <3>1. PICK q : q = req'[k] /\ ReadMatches(q) /\ q.readAt # updatedAt'
      BY <1>3, <2>2 DEF Consistent, Fresh
    <3>2. QED  BY <3>1 DEF ReadMatches, Pending
  <2>3. QED  BY <2>1, <2>2
<1>8. QED  BY <1>5, <1>6, <1>7 DEF Consistent

\* The item is deleted, or is a ghost.
LEMMA ItemEmptied ==
  ASSUME Consistent, TypeOK', Shaped', LeaderboardHonest',
         updatedAt' = 0, req' = req, clock' = clock
  PROVE  Consistent'
<1>1. clock \in Nat
  BY DEF Consistent, TypeOK
<1>2. Fresh'
  BY <1>1 DEF Consistent, Fresh
<1>3. ASSUME NEW k \in Handlers
      PROVE  ReadMatches(req[k])'
  <2>1. PICK q : q = req'[k] /\ ReadMatches(q)
    BY DEF Consistent
  <2>2. QED  BY <2>1 DEF ReadMatches, Pending
<1>4. QED  BY <1>2, <1>3 DEF Consistent

-----------------------------------------------------------------------------
(* The inductive invariant *)

LEMMA InitConsistent == Init => Consistent
<1> SUFFICES ASSUME Init PROVE Consistent
  OBVIOUS
<1>1. TypeOK
  <2>1. HistoryLimit \in Nat
    BY ReviewAssumption
  <2>2. QED  BY <2>1, NoAttemptTyped, IdleTyped DEF Init, TypeOK
<1>2. Shaped
  BY DEF Init, Shaped, NoAttempt
<1>3. \A h \in Handlers : ReadMatches(req[h]) /\ ~Pending(req[h]) /\ req[h].readAt = 0
  BY DEF Init, Idle, ReadMatches, Pending
<1>4. Fresh
  BY <1>3 DEF Init, Fresh
<1>5. LeaderboardHonest
  BY DEF Init, LeaderboardHonest, NoAttempt
<1>6. QED  BY <1>1, <1>2, <1>3, <1>4, <1>5 DEF Consistent

\* A new save and one that starts again, and a new publication.
LEMMA RequestUpdates ==
  ASSUME NEW q \in Saves, NEW n \in Nat
  PROVE  /\ [Idle EXCEPT !.op = "save", !.pc = "read", !.body = q, !.tries = n] \in Request
         /\ Plain([Idle EXCEPT !.op = "save", !.pc = "read", !.body = q, !.tries = n])
         /\ [Idle EXCEPT !.op = "save", !.pc = "read", !.body = q] \in Request
         /\ Plain([Idle EXCEPT !.op = "save", !.pc = "read", !.body = q])
  BY NoAttemptTyped, MaybeFacts DEF Idle, Request, Plain

LEMMA PublishRequest ==
  /\ [Idle EXCEPT !.op = "publish", !.pc = "read"] \in Request
  /\ Plain([Idle EXCEPT !.op = "publish", !.pc = "read"])
  BY NoAttemptTyped, MaybeFacts DEF Idle, Request, Plain

\* Steps that leave everything but one request alone and hold no reading after it.
LEMMA PlainStep ==
  ASSUME Consistent, NEW h \in Handlers, NEW r \in Request, Plain(r),
         req' = [req EXCEPT ![h] = r],
         UNCHANGED <<attempt, updatedAt, clock, told>>,
         catalog' \in Maybe(Revisions), issued' \in Nat
  PROVE  Consistent'
<1>1. TypeOK'
  BY DEF Consistent, TypeOK
<1>2. ReadMatches(r) /\ ~Pending(r) /\ r.readAt = 0
  BY DEF Plain, ReadMatches, Pending
<1>3. clock' >= clock
  BY DEF Consistent, TypeOK
<1>4. QED  BY <1>1, <1>2, <1>3, RequestMoves

LEMMA BeginKeeps ==
  ASSUME Consistent, NEW h \in Handlers, BeginSave(h) \/ BeginPublish(h)
  PROVE  Consistent'
<1>1. catalog' \in Maybe(Revisions) /\ issued' \in Nat
  <2>1. catalog \in Maybe(Revisions) /\ issued \in Nat
    BY DEF Consistent, TypeOK
  <2>2. catalog' = catalog /\ issued' = issued + 1
    BY DEF BeginSave, BeginPublish, Issue
  <2>3. QED  BY <2>1, <2>2
<1>2. CASE BeginSave(h)
  <2>1. PICK q \in Saves :
          req' = [req EXCEPT ![h] = [Idle EXCEPT !.op = "save", !.pc = "read", !.body = q]]
    BY <1>2 DEF BeginSave, Continue
  <2>2. QED  BY <1>1, <1>2, <2>1, RequestUpdates, PlainStep DEF BeginSave
<1>3. CASE BeginPublish(h)
  BY <1>1, <1>3, PublishRequest, PlainStep DEF BeginPublish, Continue
<1>4. QED  BY <1>2, <1>3

\* Every reading is an attempt; what was read is what is stored, or nothing.
LEMMA ReadingsTyped ==
  ASSUME Consistent, NEW seen \in Readings
  PROVE  /\ seen.item \in Attempt
         /\ seen.at \in {0, updatedAt}
         /\ \/ seen.item = attempt /\ seen.at = updatedAt
            \/ seen.item = NoAttempt /\ seen.at = 0
  BY NoAttemptTyped DEF Readings, Consistent, TypeOK

LEMMA SaveReadKeeps ==
  ASSUME Consistent, NEW h \in Handlers, SaveRead(h)
  PROVE  Consistent'
<1>1. PICK seen \in Readings :
        \/ /\ Reply(h)
           /\ UNCHANGED clock
        \/ /\ seen.item.status # "ghost"
           /\ clock' = clock + 1
           /\ Continue(h, [req[h] EXCEPT
                 !.read = seen.item, !.readAt = seen.at, !.stamp = clock + 1,
                 !.pin = seen.item.spec,
                 !.pc = IF CatalogNeeded(seen.item, req[h].body)
                        THEN "resolve" ELSE "write"])
  BY DEF SaveRead
<1>2. CASE Reply(h) /\ UNCHANGED clock
  <2>1. catalog' \in Maybe(Revisions) /\ issued' \in Nat
    BY DEF Consistent, TypeOK, SaveRead, ReadOnly
  <2>2. QED  BY <1>2, <2>1, IdleTyped, IdlePlain, PlainStep DEF SaveRead, ReadOnly, Reply, Continue
<1>3. ASSUME seen.item.status # "ghost",
             clock' = clock + 1,
             NEW pc \in {"resolve", "write"},
             Continue(h, [req[h] EXCEPT
                 !.read = seen.item, !.readAt = seen.at, !.stamp = clock + 1,
                 !.pin = seen.item.spec, !.pc = pc])
      PROVE  Consistent'
  <2> DEFINE r == [req[h] EXCEPT
                 !.read = seen.item, !.readAt = seen.at, !.stamp = clock + 1,
                 !.pin = seen.item.spec, !.pc = pc]
  <2>1. req[h] \in Request /\ req[h].op = "save" /\ clock \in Nat /\ updatedAt \in Nat
    BY DEF Consistent, TypeOK, SaveRead, At
  <2>2. seen.item.spec \in Maybe(Revisions) /\ seen.at \in Nat
    BY <2>1, ReadingsTyped DEF Attempt
  <2>3. r \in Request
    <3>1. \A item \in Attempt, at \in Nat, stamp \in Nat, pin \in Maybe(Revisions) :
            [req[h] EXCEPT !.read = item, !.readAt = at, !.stamp = stamp,
                           !.pin = pin, !.pc = pc] \in Request
      BY <2>1 DEF Request
    <3>2. seen.item \in Attempt /\ clock + 1 \in Nat
      BY <2>1, ReadingsTyped
    <3>3. QED  BY <2>2, <3>1, <3>2
  <2>4. /\ r.op = "save" /\ r.pc = pc /\ r.body = req[h].body
        /\ r.read = seen.item /\ r.readAt = seen.at /\ r.stamp = clock + 1
    BY <2>1 DEF Request
  <2>5. req' = [req EXCEPT ![h] = r]
    BY <1>3 DEF Continue
  <2> HIDE DEF r
  <2>6. TypeOK'
    BY <2>1, <2>3, <2>5, <1>3 DEF Consistent, TypeOK, SaveRead, ReadOnly
  <2>7. ReadMatches(r)
    <3>1. r.body \in Saves
      BY <2>1, <2>4 DEF Consistent, ReadMatches
    <3>2. CASE seen.item = NoAttempt
      BY <2>4, <3>1, <3>2 DEF ReadMatches
    <3>3. CASE seen.item = attempt /\ seen.at = updatedAt /\ attempt.status = "stored"
      <4>1. updatedAt > 0
        BY <3>3 DEF Consistent, Shaped
      <4>2. QED  BY <2>4, <3>1, <3>3, <4>1 DEF ReadMatches, SameCore
    <3>4. CASE seen.item = attempt /\ attempt.status # "stored"
      <4>1. attempt = [NoAttempt EXCEPT !.status = attempt.status]
        BY <3>4 DEF Consistent, Shaped
      <4>2. attempt.status = "none"
        BY <1>3, <3>4 DEF Consistent, TypeOK, Attempt
      <4>3. attempt = NoAttempt
        BY <4>1, <4>2 DEF NoAttempt
      <4>4. QED  BY <3>2, <3>4, <4>3
    <3>5. QED  BY <3>2, <3>3, <3>4, ReadingsTyped
  <2>8. r.readAt \in {0, updatedAt}
    BY <2>4, ReadingsTyped
  <2>9. attempt' = attempt /\ updatedAt' = updatedAt /\ clock' >= clock
    BY <1>3, <2>1 DEF SaveRead, ReadOnly
  <2>10. QED  BY <1>3, <2>3, <2>4, <2>5, <2>6, <2>7, <2>8, <2>9, RequestMoves
<1>4. QED  BY <1>1, <1>2, <1>3

LEMMA SaveResolveKeeps ==
  ASSUME Consistent, NEW h \in Handlers, SaveResolve(h)
  PROVE  Consistent'
<1>1. PICK pin \in Maybe(Revisions) :
        \/ Reply(h)
        \/ Continue(h, [req[h] EXCEPT !.pin = pin, !.pc = "write"])
  <2>1. catalog \in Maybe(Revisions) /\ None \in Maybe(Revisions)
    BY MaybeFacts DEF Consistent, TypeOK
  <2>2. PICK approved \in {catalog, None} :
          \/ Reply(h)
          \/ Continue(h, [req[h] EXCEPT
               !.pin = IF approved = None THEN None ELSE PinOf(approved, req[h].body),
               !.pc = "write"])
    BY DEF SaveResolve
  <2>3. (IF approved = None THEN None ELSE PinOf(approved, req[h].body)) \in {None, approved}
    BY DEF PinOf
  <2>4. QED  BY <2>1, <2>2, <2>3
<1>2. catalog' \in Maybe(Revisions) /\ issued' \in Nat
  BY DEF Consistent, TypeOK, SaveResolve, ReadOnly
<1>3. CASE Reply(h)
  BY <1>2, <1>3, IdleTyped, IdlePlain, PlainStep DEF SaveResolve, ReadOnly, Reply, Continue
<1>4. CASE Continue(h, [req[h] EXCEPT !.pin = pin, !.pc = "write"])
  <2> DEFINE r == [req[h] EXCEPT !.pin = pin, !.pc = "write"]
  <2>1. req[h] \in Request /\ req[h].op = "save" /\ Pending(req[h]) /\ ReadMatches(req[h])
    BY DEF Consistent, TypeOK, SaveResolve, At, Pending
  <2>2. r \in Request
    BY <2>1 DEF Request
  <2>3. /\ r.op = "save" /\ r.pc = "write" /\ r.body = req[h].body
        /\ r.read = req[h].read /\ r.readAt = req[h].readAt /\ r.stamp = req[h].stamp
    BY <2>1 DEF Request
  <2>4. req' = [req EXCEPT ![h] = r]
    BY <1>4 DEF Continue
  <2> HIDE DEF r
  <2>5. TypeOK'
    BY <2>2, <2>4 DEF Consistent, TypeOK, SaveResolve, ReadOnly
  <2>6. ReadMatches(r)
    BY <2>1, <2>3 DEF ReadMatches, Pending
  <2>7. attempt' = attempt /\ updatedAt' = updatedAt /\ clock' >= clock
    BY DEF SaveResolve, ReadOnly, Consistent, TypeOK
  <2>8. QED  BY <2>1, <2>2, <2>3, <2>4, <2>5, <2>6, <2>7, RequestMoves
<1>5. QED  BY <1>1, <1>3, <1>4

LEMMA RetryPlain ==
  ASSUME Consistent, NEW h \in Handlers, At(h, "save", "write"), Retry(h) \/ Reply(h)
  PROVE  \E r \in Request : Plain(r) /\ req' = [req EXCEPT ![h] = r]
<1>1. req[h] \in Request /\ ReadMatches(req[h])
  BY DEF Consistent, TypeOK
<1>2. req[h].body \in Saves /\ req[h].tries + 1 \in Nat
  BY <1>1 DEF ReadMatches, At, Request
<1>3. CASE Reply(h)
  BY <1>3, IdleTyped, IdlePlain DEF Reply, Continue
<1>4. CASE Retry(h)
  BY <1>2, <1>3, <1>4, RequestUpdates DEF Retry, Continue
<1>5. QED  BY <1>3, <1>4

\* A save that is accepted works on the attempt as it is: it is a Save of AttemptStore.
LEMMA AppliedIsAtomic ==
  ASSUME Consistent, NEW h \in Handlers, At(h, "save", "write"), SaveApplied(h)
  PROVE  /\ attempt.status # "ghost"
         /\ req[h].body \in Saves
         /\ \E pin \in Maybe(Revisions) :
              /\ attempt.spec # None => pin = attempt.spec
              /\ attempt' = SavedOver(attempt, attempt, req[h].body, pin)
<1> DEFINE pin == IF attempt.spec # None THEN attempt.spec ELSE req[h].pin
<1>1. req[h] \in Request /\ Pending(req[h]) /\ ReadMatches(req[h]) /\ req[h].op = "save"
  BY DEF Consistent, TypeOK, At, Pending
<1>2. pin \in Maybe(Revisions)
  BY <1>1 DEF Consistent, TypeOK, Attempt, Request
<1>3. attempt' = SavedOver(attempt, req[h].read, req[h].body, pin)
  BY DEF SaveApplied, Written
<1>4. SaveAccepted(req[h])
  BY DEF SaveApplied
<1>5. req[h].body \in Saves
  BY <1>1 DEF ReadMatches
<1> HIDE DEF pin
<1>6. CASE req[h].read = NoAttempt
  <2>1. attempt.status = "none"
    BY <1>4, <1>6 DEF SaveAccepted, NoAttempt
  <2>2. attempt = NoAttempt
    <3>1. attempt = [NoAttempt EXCEPT !.status = "none"]
      BY <2>1 DEF Consistent, Shaped
    <3>2. QED  BY <3>1 DEF NoAttempt
  <2>3. attempt.status # "ghost"
    BY <2>1
  <2>4. attempt' = SavedOver(attempt, attempt, req[h].body, pin)
    BY <1>3, <1>6, <2>2
  <2>5. QED  BY <1>2, <1>5, <2>3, <2>4 DEF pin
<1>7. CASE /\ req[h].read.status = "stored"
           /\ req[h].readAt > 0
           /\ req[h].readAt = updatedAt => SameCore(req[h].read, attempt)
  <2>1. updatedAt = req[h].readAt /\ attempt.public = req[h].read.public
    BY <1>4, <1>7 DEF SaveAccepted
  <2>2. SameCore(req[h].read, attempt)
    BY <1>7, <2>1
  <2>3. attempt.status = "stored"
    BY <1>7, <2>2 DEF SameCore
  <2>4. SavedOver(attempt, req[h].read, req[h].body, pin)
          = SavedOver(attempt, attempt, req[h].body, pin)
    BY <2>1, <2>2, SavedSame
  <2>5. QED  BY <1>2, <1>3, <1>5, <2>3, <2>4 DEF pin
<1>8. QED  BY <1>1, <1>6, <1>7 DEF ReadMatches

\* What a save stores is listed exactly if it may be.
LEMMA SavedHonest ==
  ASSUME NEW a \in Attempt, NEW q \in SaveRequest, NEW pin,
         attempt' = SavedOver(a, a, q, pin)
  PROVE  LeaderboardHonest'
<1> DEFINE m == Merged(a, q)
<1>1. m \in Merging
  BY MergedTyped
<1> HIDE DEF m
<1>2. m.review \in Scored <=> m.review # None
  BY <1>1, ReviewAssumption DEF Merging, Maybe, Reviews
<1>3. /\ attempt'.review = m.review /\ attempt'.check = m.check
      /\ attempt'.public = a.public /\ attempt'.score = Listed(a.public, m)
  BY DEF SavedOver, m
<1>4. m.review \in Scored => Score[m.review] # None
  BY ReviewAssumption
<1>5. a.public \in BOOLEAN
  BY DEF Attempt
<1>6. CASE a.public /\ Qualifies(m)
  BY <1>2, <1>3, <1>4, <1>6 DEF LeaderboardHonest, Listed, Qualifies
<1>7. CASE ~(a.public /\ Qualifies(m))
  BY <1>2, <1>3, <1>5, <1>7 DEF LeaderboardHonest, Listed, Qualifies
<1>8. QED  BY <1>6, <1>7

LEMMA SaveWriteKeeps ==
  ASSUME Consistent, NEW h \in Handlers, SaveWrite(h)
  PROVE  Consistent'
<1>1. PICK r \in Request : Plain(r) /\ req' = [req EXCEPT ![h] = r]
  BY RetryPlain DEF SaveWrite
<1>2. /\ catalog' \in Maybe(Revisions) /\ issued' \in Nat
      /\ clock' = clock /\ clock \in Nat
  BY DEF Consistent, TypeOK, SaveWrite
<1>3. req[h] \in Request /\ Pending(req[h]) /\ At(h, "save", "write")
  BY DEF Consistent, TypeOK, SaveWrite, At, Pending
<1>4. CASE SaveApplied(h)
  <2>1. PICK pin \in Maybe(Revisions) :
          /\ req[h].body \in Saves
          /\ attempt' = SavedOver(attempt, attempt, req[h].body, pin)
    BY <1>3, <1>4, AppliedIsAtomic
  <2>2. req[h].body \in SaveRequest /\ attempt \in Attempt
    BY <2>1, RecordAssumption DEF Consistent, TypeOK
  <2>3. attempt' \in Attempt /\ Len(attempt'.history) <= HistoryLimit
    BY <2>1, <2>2, SavedTyped
  <2>4. LeaderboardHonest'
    BY <2>1, <2>2, SavedHonest
  <2>5. attempt'.status = "stored"
    BY <2>1 DEF SavedOver
  <2>6. updatedAt' = req[h].stamp /\ updatedAt' \in Nat
    BY <1>3, <1>4 DEF SaveApplied, Request
  <2>7. told' \subseteq Reviews
    <3>1. {req[h].body.review, req[h].body.check} \ {None} \subseteq Reviews
      BY <2>2 DEF SaveRequest, Maybe
    <3>2. told \subseteq Reviews
      BY DEF Consistent, TypeOK
    <3>3. QED  BY <3>1, <3>2 DEF SaveWrite
  <2>8. TypeOK'
    <3>1. req' \in [Handlers -> Request]
      BY <1>1 DEF Consistent, TypeOK
    <3>2. QED  BY <1>2, <2>3, <2>6, <2>7, <3>1 DEF TypeOK
  <2>9. QED  BY <1>1, <1>2, <1>3, <2>4, <2>5, <2>6, <2>8, ItemWritten
<1>5. CASE UNCHANGED <<attempt, updatedAt, told>>
  BY <1>1, <1>2, <1>5, PlainStep
<1>6. QED  BY <1>4, <1>5 DEF SaveWrite

LEMMA PublishReadKeeps ==
  ASSUME Consistent, NEW h \in Handlers, PublishRead(h)
  PROVE  Consistent'
<1>1. catalog' \in Maybe(Revisions) /\ issued' \in Nat
  BY DEF Consistent, TypeOK, PublishRead, ReadOnly
<1>2. PICK seen \in Readings :
        IF seen.item.status = "stored" /\ Qualifies(seen.item)
        THEN Continue(h, [req[h] EXCEPT !.read = seen.item, !.readAt = seen.at,
                                        !.pc = "write"])
        ELSE Reply(h)
  BY DEF PublishRead
<1>3. CASE Reply(h)
  BY <1>1, <1>3, IdleTyped, IdlePlain, PlainStep DEF PublishRead, ReadOnly, Reply, Continue
<1>4. CASE /\ Qualifies(seen.item)
           /\ Continue(h, [req[h] EXCEPT !.read = seen.item, !.readAt = seen.at,
                                         !.pc = "write"])
  <2> DEFINE r == [req[h] EXCEPT !.read = seen.item, !.readAt = seen.at, !.pc = "write"]
  <2>1. req[h] \in Request /\ req[h].op = "publish"
    BY DEF Consistent, TypeOK, PublishRead, At
  <2>2. r \in Request
    <3>1. \A item \in Attempt, at \in Nat :
            [req[h] EXCEPT !.read = item, !.readAt = at, !.pc = "write"] \in Request
      BY <2>1 DEF Request
    <3>2. seen.item \in Attempt /\ seen.at \in Nat
      BY ReadingsTyped DEF Consistent, TypeOK
    <3>3. QED  BY <3>1, <3>2
  <2>3. r.op = "publish" /\ r.read = seen.item /\ r.readAt = seen.at
    BY <2>1 DEF Request
  <2>4. req' = [req EXCEPT ![h] = r]
    BY <1>4 DEF Continue
  <2> HIDE DEF r
  <2>5. TypeOK'
    BY <2>2, <2>4 DEF Consistent, TypeOK, PublishRead, ReadOnly
  <2>6. ReadMatches(r) /\ ~Pending(r)
    BY <1>4, <2>3 DEF ReadMatches, Pending
  <2>7. r.readAt \in {0, updatedAt}
    BY <2>3, ReadingsTyped
  <2>8. attempt' = attempt /\ updatedAt' = updatedAt /\ clock' >= clock
    BY DEF PublishRead, ReadOnly, Consistent, TypeOK
  <2>9. QED  BY <2>2, <2>4, <2>5, <2>6, <2>7, <2>8, RequestMoves
<1>5. QED  BY <1>2, <1>3, <1>4

\* A publication that is accepted is granted to the attempt as it is.
LEMMA PublishedIsAtomic ==
  ASSUME Consistent, NEW h \in Handlers, At(h, "publish", "write"),
         PublishAccepted(req[h])
  PROVE  attempt.status = "stored" /\ Qualifies(attempt)
<1>1. Qualifies(req[h].read)
  BY DEF Consistent, ReadMatches, At
<1>2. Qualifies(attempt)
  BY <1>1 DEF PublishAccepted, Qualifies
<1>3. None \notin Scored
  BY ReviewAssumption DEF Reviews
<1>4. QED  BY <1>2, <1>3 DEF Consistent, Shaped, Qualifies, NoAttempt

LEMMA PublishedFields ==
  ASSUME NEW a \in Attempt, Qualifies(a)
  PROVE  /\ Published(a) \in Attempt
         /\ SameCore(a, Published(a))
         /\ Published(a).public = TRUE
         /\ Published(a).score = Score[a.review]
<1>1. Score[a.review] \in Maybe(Nat)
  BY ReviewAssumption DEF Qualifies, Maybe
<1>2. QED  BY <1>1 DEF Published, Attempt, SameCore

LEMMA PublishWriteKeeps ==
  ASSUME Consistent, NEW h \in Handlers, PublishWrite(h)
  PROVE  Consistent'
<1>1. /\ req' = [req EXCEPT ![h] = Idle]
      /\ UNCHANGED <<updatedAt, catalog, clock, issued, told>>
  BY DEF PublishWrite, Reply, Continue
<1>2. CASE ~PublishAccepted(req[h])
  <2>1. catalog \in Maybe(Revisions) /\ issued \in Nat
    BY DEF Consistent, TypeOK
  <2>2. attempt' = attempt
    BY <1>2 DEF PublishWrite
  <2>3. QED  BY <1>1, <2>1, <2>2, IdleTyped, IdlePlain, PlainStep
<1>3. CASE PublishAccepted(req[h])
  <2>1. attempt \in Attempt /\ req \in [Handlers -> Request]
    BY DEF Consistent, TypeOK
  <2>2. attempt.status = "stored" /\ Qualifies(attempt)
    BY <1>3, PublishedIsAtomic DEF PublishWrite
  <2>3. attempt' = Published(attempt)
    BY <1>3 DEF PublishWrite
  <2>4. /\ attempt' \in Attempt /\ SameCore(attempt, attempt')
        /\ attempt'.public = TRUE /\ attempt'.score = Score[attempt.review]
    BY <2>1, <2>2, <2>3, PublishedFields
  <2>5. TypeOK'
    BY <1>1, <2>1, <2>4, IdleTyped DEF Consistent, TypeOK, SameCore
  <2>6. Shaped'
    BY <1>1, <2>2, <2>4 DEF Consistent, Shaped, SameCore
  <2>7. LeaderboardHonest'
    <3>1. attempt.review # None /\ Score[attempt.review] # None
      BY <2>2, ReviewAssumption DEF Qualifies, Reviews
    <3>2. QED  BY <2>2, <2>4, <3>1 DEF LeaderboardHonest, SameCore, Qualifies
  <2>8. \A k \in Handlers : req'[k] = req[k] \/ Plain(req'[k])
    BY <1>1, <2>1, IdlePlain
  <2>9. QED  BY <1>1, <2>4, <2>5, <2>6, <2>7, <2>8, CoreStays
<1>4. QED  BY <1>2, <1>3

LEMMA UnpublishKeeps ==
  ASSUME Consistent, Unpublish
  PROVE  Consistent'
<1>1. /\ attempt \in Attempt /\ issued \in Nat
      /\ Len(attempt.history) <= HistoryLimit
  BY DEF Consistent, TypeOK
<1>2. /\ attempt' = Unpublished(attempt) /\ issued' = issued + 1
      /\ UNCHANGED <<updatedAt, catalog, req, clock, told>>
  BY DEF Unpublish, Issue
<1>3. /\ attempt' \in Attempt
      /\ attempt'.public = FALSE /\ attempt'.score = None
      /\ attempt'.history = attempt.history
  BY <1>1, <1>2, MaybeFacts DEF Unpublished, Attempt
<1>4. TypeOK'
  BY <1>1, <1>2, <1>3 DEF Consistent, TypeOK
<1>5. LeaderboardHonest'
  BY <1>3 DEF LeaderboardHonest
<1>6. CASE attempt.status = "stored"
  <2>1. SameCore(attempt, attempt')
    BY <1>1, <1>2, <1>6 DEF Unpublished, SameCore, Attempt
  <2>2. Shaped'
    BY <1>2, <1>6, <2>1 DEF Consistent, Shaped, SameCore
  <2>3. QED  BY <1>2, <1>4, <1>5, <2>1, <2>2, CoreStays
<1>7. CASE attempt.status # "stored"
  <2>1. updatedAt = 0 /\ attempt = [NoAttempt EXCEPT !.status = attempt.status]
    BY <1>7 DEF Consistent, Shaped
  <2>2. attempt.status \in {"none", "ghost"}
    BY <1>1, <1>7 DEF Attempt
  <2>3. attempt' = [NoAttempt EXCEPT !.status = "ghost"]
    BY <1>2, <2>1, <2>2 DEF Unpublished, NoAttempt
  <2>4. attempt'.status = "ghost"
    BY <2>3 DEF NoAttempt
  <2>5. Shaped'
    BY <1>2, <2>1, <2>3, <2>4 DEF Shaped
  <2>6. QED  BY <1>2, <1>4, <1>5, <2>1, <2>5, ItemEmptied
<1>8. QED  BY <1>6, <1>7

LEMMA ViewKeeps ==
  ASSUME Consistent, View
  PROVE  Consistent'
<1>1. attempt \in Attempt /\ issued \in Nat
  BY DEF Consistent, TypeOK
<1>2. /\ attempt' = Viewed(attempt) /\ issued' = issued + 1
      /\ UNCHANGED <<updatedAt, catalog, req, clock, told>>
  BY DEF View, Issue
<1>3. /\ attempt' \in Attempt /\ SameCore(attempt, attempt')
      /\ attempt'.public = attempt.public /\ attempt'.score = attempt.score
  BY <1>1, <1>2 DEF Viewed, Attempt, SameCore
<1>4. TypeOK'
  BY <1>1, <1>2, <1>3 DEF Consistent, TypeOK, SameCore
<1>5. LeaderboardHonest'
  BY <1>3 DEF Consistent, LeaderboardHonest, SameCore
<1>6. Shaped'
  <2>1. attempt.status = "stored"
    BY DEF View, Consistent, Shaped, NoAttempt
  <2>2. QED  BY <1>2, <1>3, <2>1 DEF Consistent, Shaped, SameCore
<1>7. QED  BY <1>2, <1>3, <1>4, <1>5, <1>6, CoreStays

LEMMA DeleteKeeps ==
  ASSUME Consistent, Delete
  PROVE  Consistent'
<1>1. issued \in Nat
  BY DEF Consistent, TypeOK
<1>2. /\ attempt' = NoAttempt /\ updatedAt' = 0 /\ told' = {} /\ issued' = issued + 1
      /\ UNCHANGED <<catalog, req, clock>>
  BY DEF Delete, Issue
<1>3. TypeOK'
  <2>1. HistoryLimit \in Nat
    BY ReviewAssumption
  <2>2. QED  BY <1>1, <1>2, <2>1, NoAttemptTyped DEF Consistent, TypeOK
<1>4. Shaped' /\ LeaderboardHonest'
  BY <1>2 DEF Shaped, LeaderboardHonest, NoAttempt
<1>5. QED  BY <1>2, <1>3, <1>4, ItemEmptied

\* A step that changes neither the item nor a request.
LEMMA AsideKeeps ==
  ASSUME Consistent,
         UNCHANGED <<attempt, updatedAt, req, clock, told>>,
         catalog' \in Maybe(Revisions), issued' \in Nat
  PROVE  Consistent'
<1>1. TypeOK' /\ Shaped' /\ LeaderboardHonest'
  BY DEF Consistent, TypeOK, Shaped, LeaderboardHonest
<1>2. SameCore(attempt, attempt')
  BY DEF SameCore
<1>3. QED  BY <1>1, <1>2, CoreStays

LEMMA StepKeeps == Consistent /\ [Next]_vars => Consistent'
<1> SUFFICES ASSUME Consistent, [Next]_vars PROVE Consistent'
  OBVIOUS
<1>1. catalog \in Maybe(Revisions) /\ issued \in Nat
  BY DEF Consistent, TypeOK
<1>2. ASSUME NEW h \in Handlers, Handle(h) PROVE Consistent'
  BY <1>2, BeginKeeps, SaveReadKeeps, SaveResolveKeeps, SaveWriteKeeps,
     PublishReadKeeps, PublishWriteKeeps DEF Handle
<1>3. ASSUME NEW h \in Handlers, Abort(h) PROVE Consistent'
  BY <1>1, <1>3, IdleTyped, IdlePlain, PlainStep DEF Abort, Reply, Continue, ReadOnly
<1>4. CASE Revise
  <2>1. catalog' \in Maybe(Revisions) /\ issued' \in Nat
    BY <1>1, <1>4 DEF Revise, Issue, Maybe
  <2>2. QED  BY <1>4, <2>1, AsideKeeps DEF Revise
<1>5. CASE Rest \/ UNCHANGED vars
  BY <1>1, <1>5, AsideKeeps DEF Rest, vars
<1>6. QED
  BY <1>2, <1>3, <1>4, <1>5, UnpublishKeeps, ViewKeeps, DeleteKeeps DEF Next

-----------------------------------------------------------------------------
(* Theorems *)

\* The inductive invariant holds in every reachable state.
THEOREM ConsistentCorrect == Spec => []Consistent
<1>1. Init => Consistent
  BY InitConsistent
<1>2. Consistent /\ [Next]_vars => Consistent'
  BY StepKeeps
<1>3. QED  BY <1>1, <1>2, PTL DEF Spec

\* The attempt, the requests and the clock keep their types, and the history its limit
\* (_append_attempt_history keeps ten entries).
THEOREM TypeCorrect == Spec => []TypeOK
<1>1. Consistent => TypeOK
  BY DEF Consistent
<1>2. QED  BY <1>1, ConsistentCorrect, PTL

\* Whichever of save, publish, unpublish and delete run at the same time, are repeated
\* or stop half way: the leaderboard lists the attempt exactly while it is public and
\* reviewed, with the score of that review (_build_attempt_item, publish_attempt).
THEOREM LeaderboardIsHonest == Spec => []LeaderboardHonest
<1>1. Consistent => LeaderboardHonest
  BY DEF Consistent
<1>2. QED  BY <1>1, ConsistentCorrect, PTL

\* The operators of AttemptReviews mean the same in AttemptStore.
LEMMA SameOffer ==
  ASSUME NEW m, NEW r, NEW original
  PROVE  Store!Offer(m, r, original) = Offer(m, r, original)
  BY DEF Store!Offer, Offer

LEMMA SameSaved ==
  ASSUME NEW item, NEW read, NEW q, NEW pin
  PROVE  Store!SavedOver(item, read, q, pin) = SavedOver(item, read, q, pin)
<1>1. Store!Merged(read, q) = Merged(read, q)
  BY SameOffer DEF Store!Merged, Merged
<1>2. ASSUME NEW s PROVE Store!Recent(s) = Recent(s)
  BY DEF Store!Recent, Recent
<1>3. ASSUME NEW public, NEW m PROVE Store!Listed(public, m) = Listed(public, m)
  BY DEF Store!Listed, Listed, Store!Qualifies, Qualifies
<1>4. QED  BY <1>1, <1>2, <1>3 DEF Store!SavedOver, SavedOver

LEMMA SameOthers ==
  /\ Store!NoAttempt = NoAttempt
  /\ \A S : Store!Maybe(S) = Maybe(S)
  /\ \A a : /\ Store!Qualifies(a) <=> Qualifies(a)
            /\ Store!Published(a) = Published(a)
            /\ Store!Unpublished(a) = Unpublished(a)
            /\ Store!Viewed(a) = Viewed(a)
  BY DEF Store!NoAttempt, NoAttempt, Store!Maybe, Maybe, Store!Qualifies, Qualifies,
         Store!Published, Published, Store!Unpublished, Unpublished, Store!Viewed, Viewed

\* Each step of the handlers is a step of AttemptStore or leaves the attempt alone.
LEMMA StepRefines == Consistent /\ [Next]_vars => [Store!Next]_attempt
<1> SUFFICES ASSUME Consistent, [Next]_vars, attempt' # attempt
             PROVE  Store!Next
  OBVIOUS
<1>1. ASSUME NEW h \in Handlers, SaveWrite(h) PROVE Store!Next
  <2>1. SaveApplied(h)
    BY <1>1 DEF SaveWrite
  <2>2. Store!Save
    BY <1>1, <2>1, AppliedIsAtomic, SameSaved, SameOthers DEF SaveWrite, Store!Save
  <2>3. QED  BY <2>2 DEF Store!Next
<1>2. ASSUME NEW h \in Handlers, PublishWrite(h) PROVE Store!Next
  <2>1. PublishAccepted(req[h]) /\ attempt' = Published(attempt)
    BY <1>2 DEF PublishWrite
  <2>2. Store!Publish
    BY <1>2, <2>1, PublishedIsAtomic, SameOthers DEF PublishWrite, Store!Publish
  <2>3. QED  BY <2>2 DEF Store!Next
<1>3. ASSUME NEW h \in Handlers, Handle(h) PROVE Store!Next
  BY <1>1, <1>2, <1>3
  DEF Handle, BeginSave, BeginPublish, SaveRead, SaveResolve, PublishRead, ReadOnly
<1>4. ASSUME NEW h \in Handlers, Abort(h) PROVE FALSE
  BY <1>4 DEF Abort, ReadOnly
<1>5. CASE Unpublish
  BY <1>5, SameOthers DEF Unpublish, Store!Unpublish, Store!Next
<1>6. CASE View
  BY <1>6, SameOthers DEF View, Store!View, Store!Next
<1>7. CASE Delete
  BY <1>7, SameOthers DEF Delete, Store!Delete, Store!Next
<1>8. CASE Revise \/ Rest \/ UNCHANGED vars
  BY <1>8 DEF Revise, Rest, vars
<1>9. QED  BY <1>3, <1>4, <1>5, <1>6, <1>7, <1>8 DEF Next

\* The optimistic writes make the requests atomic: the detailed specification
\* implements AttemptStore.
THEOREM RecordImplementsStore == Spec => ImplementsStore
<1>1. Init => Store!Init
  BY SameOthers DEF Init, Store!Init
<1>2. Consistent /\ [Next]_vars => [Store!Next]_attempt
  BY StepRefines
<1>3. QED  BY <1>1, <1>2, ConsistentCorrect, PTL DEF Spec, ImplementsStore, Store!Spec

-----------------------------------------------------------------------------
(* Reviews of acknowledged saves *)

\* The sequence s contains r.
Holds(s, r) == \E i \in DOMAIN s : s[i] = r

LEMMA AppendHolds ==
  ASSUME NEW s \in Seq(Reviews), NEW r \in Reviews, NEW x
  PROVE  Holds(Append(s, r), x) <=> Holds(s, x) \/ x = r
<1>. DEFINE t == Append(s, r)
<1>1. /\ Len(s) \in Nat /\ DOMAIN s = 1 .. Len(s) /\ DOMAIN t = 1 .. Len(s) + 1
      /\ \A i \in 1 .. Len(s) : t[i] = s[i]
      /\ t[Len(s) + 1] = r
  BY AppendProperties, LenProperties
<1>. HIDE DEF t
<1>2. ASSUME Holds(s, x) PROVE Holds(t, x)
  <2>1. PICK i \in 1 .. Len(s) : s[i] = x
    BY <1>1, <1>2 DEF Holds
  <2>2. i \in DOMAIN t /\ t[i] = x
    BY <1>1, <2>1
  <2>. QED  BY <2>2 DEF Holds
<1>3. Holds(t, r)
  <2>1. Len(s) + 1 \in DOMAIN t
    BY <1>1
  <2>. QED  BY <1>1, <2>1 DEF Holds
<1>4. ASSUME Holds(t, x) PROVE Holds(s, x) \/ x = r
  <2>1. PICK i \in 1 .. Len(s) + 1 : t[i] = x
    BY <1>1, <1>4 DEF Holds
  <2>2. i = Len(s) + 1 \/ i \in 1 .. Len(s)
    BY <1>1, <2>1
  <2>. QED  BY <1>1, <2>1, <2>2 DEF Holds
<1>. QED  BY <1>2, <1>3, <1>4 DEF t

LEMMA ConcatHolds ==
  ASSUME NEW s \in Seq(Reviews), NEW t \in Seq(Reviews), NEW x,
         Holds(s, x) \/ Holds(t, x)
  PROVE  Holds(s \o t, x)
<1>. DEFINE c == s \o t
<1>1. /\ Len(s) \in Nat /\ DOMAIN s = 1 .. Len(s)
      /\ Len(t) \in Nat /\ DOMAIN t = 1 .. Len(t)
      /\ DOMAIN c = 1 .. Len(s) + Len(t)
      /\ \A i \in 1 .. Len(s) + Len(t) :
           c[i] = IF i <= Len(s) THEN s[i] ELSE t[i - Len(s)]
  BY ConcatProperties, LenProperties
<1>. HIDE DEF c
<1>2. CASE Holds(s, x)
  <2>1. PICK i \in 1 .. Len(s) : s[i] = x
    BY <1>1, <1>2 DEF Holds
  <2>2. i \in 1 .. Len(s) + Len(t) /\ i <= Len(s)
    BY <1>1
  <2>. QED  BY <1>1, <2>1, <2>2 DEF Holds, c
<1>3. CASE Holds(t, x)
  <2>1. PICK i \in 1 .. Len(t) : t[i] = x
    BY <1>1, <1>3 DEF Holds
  <2>2. PICK j \in 1 .. Len(s) + Len(t) : j = Len(s) + i
    BY <1>1
  <2>3. ~(j <= Len(s)) /\ j - Len(s) = i
    BY <1>1, <2>2
  <2>. QED  BY <1>1, <2>1, <2>3 DEF Holds, c
<1>. QED  BY <1>2, <1>3

\* One more review is counted if it is scored and not the last, and is in the history
\* unless the item shows it already.
Offered(m, r, original, n) ==
  /\ \A x : Holds(m.added, x) => Holds(n.added, x)
  /\ r # None => Holds(n.added, r) \/ r = m.review \/ r = original
  /\ n.review = m.review \/ Holds(n.added, n.review)
  /\ n.check \in {m.check, m.review, original} \/ Holds(n.added, n.check)
  /\ \/ n.count = m.count /\ {n.review, r} \cap Scored \subseteq {m.review}
     \/ n.count = m.count + 1 /\ n.review = r

LEMMA OfferHolds ==
  ASSUME NEW m \in Merging, NEW r \in Maybe(Reviews), NEW original
  PROVE  Offered(m, r, original, Offer(m, r, original))
<1>. DEFINE n == Offer(m, r, original)
<1>1. m.added \in Seq(Reviews)
  BY DEF Merging
<1>2. None \notin Scored /\ None \notin Reviews /\ Scored \subseteq Reviews
  BY ReviewAssumption DEF Reviews
<1>3. CASE r = None
  <2>1. n = m
    BY <1>2, <1>3 DEF Offer
  <2>. HIDE DEF n
  <2>. QED  BY <1>2, <1>3, <2>1 DEF n, Offered
<1>4. CASE r \in Scored /\ r # m.review
  <2>1. r # None /\ r \in Reviews
    BY <1>2, <1>4
  <2>2. n = [review |-> r, check |-> r, count |-> m.count + 1, added |-> Append(m.added, r)]
    BY <1>4, <2>1 DEF Offer
  <2>3. /\ n.review = r /\ n.check = r /\ n.count = m.count + 1
        /\ n.added = Append(m.added, r)
    BY <2>2
  <2>. HIDE DEF n
  <2>4. \A x : Holds(n.added, x) <=> Holds(m.added, x) \/ x = r
    BY <1>1, <2>1, <2>3, AppendHolds
  <2>. QED  BY <2>3, <2>4 DEF n, Offered
<1>5. CASE r \in Scored /\ r = m.review
  <2>. DEFINE check == IF m.check = None THEN r ELSE m.check
  <2>1. r # None /\ n = [m EXCEPT !.check = check]
    BY <1>2, <1>5 DEF Offer
  <2>. HIDE DEF check, n
  <2>2. n.review = m.review /\ n.check = check /\ n.count = m.count /\ n.added = m.added
    BY <2>1 DEF Merging
  <2>3. check \in {m.check, m.review}
    BY <1>5 DEF check
  <2>. QED  BY <1>5, <2>2, <2>3 DEF n, Offered
<1>6. CASE r # None /\ r \notin Scored
  <2>. DEFINE added == IF r = original \/ \E i \in DOMAIN m.added : m.added[i] = r
                       THEN m.added ELSE Append(m.added, r)
  <2>1. r \in Reviews /\ n = [m EXCEPT !.check = r, !.added = added]
    BY <1>6 DEF Offer, Maybe
  <2>2. (\A x : Holds(m.added, x) => Holds(added, x)) /\ (Holds(added, r) \/ r = original)
    <3>1. CASE r = original \/ Holds(m.added, r)
      BY <3>1 DEF Holds
    <3>2. CASE ~(r = original \/ Holds(m.added, r))
      <4>1. added = Append(m.added, r)
        BY <3>2 DEF Holds
      <4>. HIDE DEF added
      <4>. QED  BY <1>1, <2>1, <4>1, AppendHolds
    <3>. QED  BY <3>1, <3>2
  <2>. HIDE DEF added, n
  <2>3. n.review = m.review /\ n.check = r /\ n.count = m.count /\ n.added = added
    BY <2>1 DEF Merging
  <2>. QED  BY <1>6, <2>2, <2>3 DEF n, Offered
<1>. QED  BY <1>3, <1>4, <1>5, <1>6

\* A history that was not cut is the whole history.
LEMMA RecentShort ==
  ASSUME NEW s \in Seq(Reviews), Len(Recent(s)) < HistoryLimit
  PROVE  Recent(s) = s
<1>1. CASE Len(s) <= HistoryLimit
  BY <1>1 DEF Recent
<1>2. CASE ~(Len(s) <= HistoryLimit)
  <2>. DEFINE first == Len(s) - HistoryLimit + 1
  <2>1. Len(s) \in Nat /\ HistoryLimit \in Nat \ {0}
    BY ReviewAssumption, LenProperties
  <2>2. first \in Int /\ Len(s) - first + 1 = HistoryLimit
    BY <2>1
  <2>3. first >= 1 /\ first <= Len(s)
    BY <1>2, <2>1, <2>2
  <2>4. \A i \in first .. Len(s) : s[i] \in Reviews
    BY <2>1, <2>3, ElementOfSeq
  <2>5. Recent(s) = SubSeq(s, first, Len(s))
    BY <1>2 DEF Recent
  <2>. HIDE DEF first
  <2>6. Len(SubSeq(s, first, Len(s))) = Len(s) - first + 1
    BY <2>1, <2>2, <2>3, <2>4, SubSeqProperties
  <2>. QED  BY <2>1, <2>2, <2>5, <2>6
<1>. QED  BY <1>1, <1>2

LEMMA OneMore ==
  ASSUME NEW S, IsFiniteSet(S), NEW T, NEW x, T \subseteq S \cup {x}
  PROVE  IsFiniteSet(T) /\ Cardinality(T) <= Cardinality(S) + 1
<1>1. /\ IsFiniteSet(S \cup {x}) /\ Cardinality(S) \in Nat
      /\ Cardinality(S \cup {x}) \in {Cardinality(S), Cardinality(S) + 1}
  BY FS_AddElement, FS_CardinalityType
<1>2. IsFiniteSet(T) /\ Cardinality(T) <= Cardinality(S \cup {x}) /\ Cardinality(T) \in Nat
  BY <1>1, FS_Subset, FS_CardinalityType
<1>. QED  BY <1>1, <1>2

\* A save counts and keeps the reviews that it brings, with those acknowledged before.
LEMMA SavedKeepsReviews ==
  ASSUME NEW a \in Attempt, NEW q \in SaveRequest, NEW pin, NEW seen,
         IsFiniteSet(seen), Cardinality((seen \cup {a.review}) \cap Scored) <= a.count,
         Len(a.history) < HistoryLimit =>
           \A r \in seen \cup ({a.review, a.check} \ {None}) : Holds(a.history, r)
  PROVE  LET b == SavedOver(a, a, q, pin)
             now == seen \cup ({q.review, q.check} \ {None})
         IN  /\ Cardinality((now \cup {b.review}) \cap Scored) <= b.count
             /\ Len(b.history) < HistoryLimit =>
                  \A r \in now \cup ({b.review, b.check} \ {None}) : Holds(b.history, r)
<1>. DEFINE m0 == [review |-> a.review, check |-> a.check, count |-> a.count, added |-> <<>>]
            m1 == Offer(m0, q.review, a.check)
            m2 == Offer(m1, q.check, a.check)
            b == SavedOver(a, a, q, pin)
            now == seen \cup ({q.review, q.check} \ {None})
<1>1. q.review \in Maybe(Reviews) /\ q.check \in Maybe(Reviews)
  BY DEF SaveRequest
<1>2. m0 \in Merging /\ m0.review = a.review /\ m0.check = a.check /\ m0.count = a.count
  <2>1. <<>> \in Seq(Reviews)
    BY EmptySeq
  <2>. QED  BY <2>1 DEF Attempt, Merging
<1>3. m2 = Merged(a, q)
  BY DEF Merged
<1>4. /\ b.review = m2.review /\ b.check = m2.check /\ b.count = m2.count
      /\ b.history = Recent(a.history \o m2.added)
  BY <1>3 DEF SavedOver
<1>. HIDE DEF m0, b
<1>5. m1 \in Merging
  BY <1>1, <1>2, OfferTyped
<1>6. /\ \A x : Holds(m0.added, x) => Holds(m1.added, x)
      /\ q.review # None => Holds(m1.added, q.review) \/ q.review \in {a.review, a.check}
      /\ m1.review = a.review \/ Holds(m1.added, m1.review)
      /\ m1.check \in {a.check, a.review} \/ Holds(m1.added, m1.check)
      /\ \/ m1.count = a.count /\ {m1.review, q.review} \cap Scored \subseteq {a.review}
         \/ m1.count = a.count + 1 /\ m1.review = q.review
  <2>1. Offered(m0, q.review, a.check, m1)
    BY <1>1, <1>2, OfferHolds
  <2>. HIDE DEF m1
  <2>. QED  BY <1>2, <2>1 DEF Offered
<1>. HIDE DEF m1
<1>7. m2 \in Merging
  BY <1>1, <1>5, OfferTyped
<1>8. /\ \A x : Holds(m1.added, x) => Holds(m2.added, x)
      /\ q.check # None =>
           Holds(m2.added, q.check) \/ q.check = m1.review \/ q.check = a.check
      /\ m2.review = m1.review \/ Holds(m2.added, m2.review)
      /\ m2.check \in {m1.check, m1.review, a.check} \/ Holds(m2.added, m2.check)
      /\ \/ m2.count = m1.count /\ {m2.review, q.check} \cap Scored \subseteq {m1.review}
         \/ m2.count = m1.count + 1 /\ m2.review = q.check
  <2>1. Offered(m1, q.check, a.check, m2)
    BY <1>1, <1>5, OfferHolds
  <2>. HIDE DEF m2
  <2>. QED  BY <2>1 DEF Offered
<1>. HIDE DEF m2
<1>9. Cardinality((now \cup {b.review}) \cap Scored) <= b.count
  <2>. DEFINE C0 == (seen \cup {a.review}) \cap Scored
              C1 == (seen \cup {q.review, m1.review}) \cap Scored
              C2 == (now \cup {b.review}) \cap Scored
  <2>1. a.count \in Nat /\ m1.count \in Nat /\ m2.count \in Nat
    BY <1>5, <1>7 DEF Attempt, Merging
  <2>2. IsFiniteSet(C0) /\ Cardinality(C0) \in Nat /\ Cardinality(C0) <= a.count
    <3>1. IsFiniteSet(seen \cup {a.review})
      BY FS_AddElement
    <3>2. IsFiniteSet(C0)
      BY <3>1, FS_Subset
    <3>. QED  BY <3>2, FS_CardinalityType
  <2>3. IsFiniteSet(C1) /\ Cardinality(C1) \in Nat /\ Cardinality(C1) <= m1.count
    <3>1. CASE m1.count = a.count /\ {m1.review, q.review} \cap Scored \subseteq {a.review}
      <4>1. C1 \subseteq C0
        BY <3>1
      <4>. HIDE DEF C0, C1
      <4>. QED  BY <2>1, <2>2, <3>1, <4>1, FS_Subset, FS_CardinalityType
    <3>2. CASE m1.count = a.count + 1 /\ m1.review = q.review
      <4>1. C1 \subseteq C0 \cup {q.review}
        BY <3>2
      <4>. HIDE DEF C0, C1
      <4>2. IsFiniteSet(C1) /\ Cardinality(C1) <= Cardinality(C0) + 1
        BY <2>2, <4>1, OneMore
      <4>. QED  BY <2>1, <2>2, <3>2, <4>2, FS_CardinalityType
    <3>. QED  BY <1>6, <3>1, <3>2
  <2>4. Cardinality(C2) <= m2.count
    <3>1. CASE m2.count = m1.count /\ {m2.review, q.check} \cap Scored \subseteq {m1.review}
      <4>1. C2 \subseteq C1
        BY <1>4, <3>1
      <4>. HIDE DEF C1, C2
      <4>. QED  BY <2>1, <2>3, <3>1, <4>1, FS_Subset, FS_CardinalityType
    <3>2. CASE m2.count = m1.count + 1 /\ m2.review = q.check
      <4>1. C2 \subseteq C1 \cup {q.check}
        BY <1>4, <3>2
      <4>. HIDE DEF C1, C2
      <4>2. IsFiniteSet(C2) /\ Cardinality(C2) <= Cardinality(C1) + 1
        BY <2>3, <4>1, OneMore
      <4>. QED  BY <2>1, <2>3, <3>2, <4>2, FS_CardinalityType
    <3>. QED  BY <1>8, <3>1, <3>2
  <2>. QED  BY <1>4, <2>4
<1>10. ASSUME Len(b.history) < HistoryLimit,
              NEW r \in now \cup ({b.review, b.check} \ {None})
       PROVE  Holds(b.history, r)
  <2>. DEFINE whole == a.history \o m2.added
  <2>1. /\ a.history \in Seq(Reviews) /\ m2.added \in Seq(Reviews)
        /\ whole \in Seq(Reviews) /\ Len(whole) = Len(a.history) + Len(m2.added)
        /\ Len(a.history) \in Nat /\ Len(m2.added) \in Nat /\ HistoryLimit \in Nat
    BY <1>7, ConcatProperties, LenProperties, ReviewAssumption DEF Attempt, Merging
  <2>2. b.history = whole
    BY <1>4, <1>10, <2>1, RecentShort
  <2>3. Len(a.history) < HistoryLimit
    <3>1. Len(b.history) = Len(a.history) + Len(m2.added)
      BY <2>1, <2>2
    <3>2. PICK x, y, z \in Nat :
            x = Len(a.history) /\ y = Len(m2.added) /\ z = HistoryLimit
      BY <2>1
    <3>3. x + y < z
      BY <1>10, <3>1, <3>2
    <3>4. x < z
      BY <3>3
    <3>. QED  BY <3>2, <3>4
  <2>4. Holds(a.history, r) \/ Holds(m2.added, r)
    <3>1. CASE r \in seen
      BY <2>3, <3>1
    <3>2. CASE r \notin seen
      <4>1. r # None /\ r \in {q.review, q.check, m2.review, m2.check}
        BY <1>4, <3>2
      <4>2. r \in {a.review, a.check} \/ Holds(m1.added, r) \/ Holds(m2.added, r)
        BY <1>6, <1>8, <4>1
      <4>. QED  BY <1>8, <2>3, <4>1, <4>2
    <3>. QED  BY <3>1, <3>2
  <2>. QED  BY <2>1, <2>2, <2>4, ConcatHolds
<1>. QED  BY <1>9, <1>10 DEF b

\* An item without reviews keeps all of none.
LEMMA NoReviews ==
  ASSUME told = {}, attempt.review = None, attempt.check = None, attempt.count = 0
  PROVE  ReviewsKept
<1>1. (told \cup {attempt.review}) \cap Scored = {}
  BY ReviewAssumption DEF Reviews
<1>2. told \cup ({attempt.review, attempt.check} \ {None}) = {}
  OBVIOUS
<1>3. Cardinality((told \cup {attempt.review}) \cap Scored) = 0 /\ IsFiniteSet(told)
  BY <1>1, FS_EmptySet
<1>. QED  BY <1>2, <1>3 DEF ReviewsKept

\* A step that changes neither the reviews of the item nor which are acknowledged.
LEMMA ReviewsStay ==
  ASSUME ReviewsKept, told' = told, attempt'.review = attempt.review,
         attempt'.check = attempt.check, attempt'.count = attempt.count,
         attempt'.history = attempt.history
  PROVE  ReviewsKept'
  BY DEF ReviewsKept

LEMMA SaveKeepsReviews ==
  ASSUME Consistent, ReviewsKept, NEW h \in Handlers, SaveWrite(h)
  PROVE  ReviewsKept'
<1>1. CASE UNCHANGED <<attempt, told>>
  BY <1>1, ReviewsStay
<1>2. CASE SaveApplied(h)
  <2>. DEFINE q == req[h].body
              now == told \cup ({q.review, q.check} \ {None})
  <2>1. q \in SaveRequest /\ \E pin : attempt' = SavedOver(attempt, attempt, q, pin)
    BY <1>2, AppliedIsAtomic, RecordAssumption DEF SaveWrite
  <2>2. PICK pin : attempt' = SavedOver(attempt, attempt, q, pin)
    BY <2>1
  <2>3. told' \in {told, now}
    BY <1>2 DEF SaveWrite
  <2>4. attempt \in Attempt /\ IsFiniteSet(told)
    BY DEF Consistent, TypeOK, ReviewsKept
  <2>5. /\ Cardinality((told \cup {attempt.review}) \cap Scored) <= attempt.count
        /\ Len(attempt.history) < HistoryLimit =>
             \A r \in told \cup ({attempt.review, attempt.check} \ {None}) :
               Holds(attempt.history, r)
    BY DEF ReviewsKept, Holds
  <2>6. /\ Cardinality((now \cup {attempt'.review}) \cap Scored) <= attempt'.count
        /\ Len(attempt'.history) < HistoryLimit =>
             \A r \in now \cup ({attempt'.review, attempt'.check} \ {None}) :
               Holds(attempt'.history, r)
    BY <2>1, <2>2, <2>4, <2>5, SavedKeepsReviews
  <2>7. IsFiniteSet(now) /\ told \subseteq now
    <3>1. IsFiniteSet({q.review, q.check} \ {None})
      <4>. HIDE DEF q, now
      <4>1. IsFiniteSet({q.review} \cup {q.check})
        <5>1. IsFiniteSet({q.review})
          BY FS_Singleton
        <5>. QED  BY <5>1, FS_AddElement
      <4>2. {q.review, q.check} \ {None} \subseteq {q.review} \cup {q.check}
        OBVIOUS
      <4>. QED  BY <4>1, <4>2, FS_Subset
    <3>. QED  BY <2>4, <3>1, FS_Union
  <2>8. attempt' \in Attempt
    BY <2>1, <2>2, <2>4, AppliedIsAtomic, SavedTyped, <1>2, RecordAssumption DEF SaveWrite
  <2>. HIDE DEF now, q
  <2>9. IsFiniteSet(told') /\ told' \subseteq now
    BY <2>3, <2>4, <2>7
  <2>10. Cardinality((told' \cup {attempt'.review}) \cap Scored) <= attempt'.count
    <3>. DEFINE S == (now \cup {attempt'.review}) \cap Scored
                T == (told' \cup {attempt'.review}) \cap Scored
    <3>1. IsFiniteSet(S) /\ T \subseteq S
      <4>1. IsFiniteSet(now \cup {attempt'.review})
        BY <2>7, FS_AddElement
      <4>. QED  BY <2>9, <4>1, FS_Subset
    <3>2. Cardinality(S) \in Nat /\ Cardinality(T) \in Nat /\ Cardinality(T) <= Cardinality(S)
      <4>. HIDE DEF S, T
      <4>. QED  BY <3>1, FS_Subset, FS_CardinalityType
    <3>3. attempt'.count \in Nat /\ Cardinality(S) <= attempt'.count
      BY <2>6, <2>8 DEF Attempt
    <3>. HIDE DEF S, T
    <3>4. Cardinality(T) <= attempt'.count
      BY <3>2, <3>3
    <3>. QED  BY <3>4 DEF T
  <2>11. Len(attempt'.history) < HistoryLimit =>
           \A r \in told' \cup ({attempt'.review, attempt'.check} \ {None}) :
             Holds(attempt'.history, r)
    BY <2>6, <2>9
  <2>. QED  BY <2>9, <2>10, <2>11 DEF ReviewsKept, Holds
<1>. QED  BY <1>1, <1>2 DEF SaveWrite

LEMMA ReviewsStep == Consistent /\ ReviewsKept /\ [Next]_vars => ReviewsKept'
<1>. SUFFICES ASSUME Consistent, ReviewsKept, [Next]_vars PROVE ReviewsKept'
  OBVIOUS
<1>1. attempt \in Attempt
  BY DEF Consistent, TypeOK
<1>2. ASSUME NEW h \in Handlers, PublishWrite(h) PROVE ReviewsKept'
  <2>1. /\ told' = told
        /\ attempt' = Published(attempt) \/ attempt' = attempt
    BY <1>2 DEF PublishWrite
  <2>2. /\ attempt'.review = attempt.review /\ attempt'.check = attempt.check
        /\ attempt'.count = attempt.count /\ attempt'.history = attempt.history
    BY <1>1, <2>1 DEF Published, Attempt
  <2>. QED  BY <2>1, <2>2, ReviewsStay
<1>3. ASSUME NEW h \in Handlers, Handle(h) PROVE ReviewsKept'
  BY <1>2, <1>3, SaveKeepsReviews, ReviewsStay
  DEF Handle, BeginSave, BeginPublish, SaveRead, SaveResolve, PublishRead, ReadOnly
<1>4. ASSUME NEW h \in Handlers, Abort(h) PROVE ReviewsKept'
  BY <1>4, ReviewsStay DEF Abort, ReadOnly
<1>5. CASE Unpublish \/ View
  <2>1. /\ told' = told
        /\ attempt' = Unpublished(attempt) \/ attempt' = Viewed(attempt)
    BY <1>5 DEF Unpublish, View
  <2>2. /\ attempt'.review = attempt.review /\ attempt'.check = attempt.check
        /\ attempt'.count = attempt.count /\ attempt'.history = attempt.history
    BY <1>1, <2>1 DEF Unpublished, Viewed, Attempt
  <2>. QED  BY <2>1, <2>2, ReviewsStay
<1>6. CASE Delete
  <2>1. told' = {} /\ attempt' = NoAttempt
    BY <1>6 DEF Delete
  <2>2. /\ attempt'.review = None /\ attempt'.check = None /\ attempt'.count = 0
    BY <2>1 DEF NoAttempt
  <2>3. (told' \cup {attempt'.review}) \cap Scored = {}
    BY <2>1, <2>2, ReviewAssumption DEF Reviews
  <2>4. told' \cup ({attempt'.review, attempt'.check} \ {None}) = {}
    BY <2>1, <2>2
  <2>5. Cardinality((told' \cup {attempt'.review}) \cap Scored) = 0 /\ IsFiniteSet(told')
    BY <2>1, <2>3, FS_EmptySet
  <2>. QED  BY <2>2, <2>4, <2>5 DEF ReviewsKept
<1>7. CASE Revise \/ Rest \/ UNCHANGED vars
  BY <1>7, ReviewsStay DEF Revise, Rest, vars
<1>. QED  BY <1>3, <1>4, <1>5, <1>6, <1>7 DEF Next

LEMMA ReviewsInit == Init => ReviewsKept
<1>. SUFFICES ASSUME Init PROVE ReviewsKept
  OBVIOUS
<1>1. told = {} /\ attempt.review = None /\ attempt.check = None /\ attempt.count = 0
  BY DEF Init, NoAttempt
<1>. QED  BY <1>1, NoReviews

\* No acknowledged review is lost: each is counted, and each is in the history as long
\* as that was never cut, whichever saves run at the same time, are repeated, or have
\* their answers lost (_merge_attempt_reviews, _append_attempt_history).
THEOREM AckedReviewsAreKept == Spec => []AckedReviewsKept
<1>1. Consistent /\ ReviewsKept => AckedReviewsKept
  <2>. SUFFICES ASSUME Consistent, ReviewsKept PROVE AckedReviewsKept
    OBVIOUS
  <2>. DEFINE S == (told \cup {attempt.review}) \cap Scored
              T == told \cap Scored
  <2>1. IsFiniteSet(S) /\ T \subseteq S
    <3>1. IsFiniteSet(told \cup {attempt.review})
      BY FS_AddElement DEF ReviewsKept
    <3>. QED  BY <3>1, FS_Subset
  <2>2. Cardinality(S) <= attempt.count /\ attempt.count \in Nat
    BY DEF ReviewsKept, Consistent, TypeOK, Attempt
  <2>. HIDE DEF S, T
  <2>3. Cardinality(T) <= attempt.count
    BY <2>1, <2>2, FS_Subset, FS_CardinalityType
  <2>4. Cardinality(told \cap Scored) <= attempt.count
    BY <2>3 DEF T
  <2>. QED  BY <2>4 DEF AckedReviewsKept, ReviewsKept
<1>2. Consistent /\ ReviewsKept /\ [Next]_vars => ReviewsKept'
  BY ReviewsStep
<1>3. Init => ReviewsKept
  BY ReviewsInit
<1>. QED  BY <1>1, <1>2, <1>3, ConsistentCorrect, PTL DEF Spec

=============================================================================
