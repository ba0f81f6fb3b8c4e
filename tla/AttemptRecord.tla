--------------------------- MODULE AttemptRecord ---------------------------
(***************************************************************************)
(* One attempt (a learner's work on a problem) as several server processes *)
(* save, publish, unpublish, view and delete it: the attempt methods of    *)
(* DynamoDBService behind routers/attempts.py and routers/share.py.        *)
(*                                                                         *)
(* Saving and publishing read the attempt and write it back in separate    *)
(* calls.  The write is conditional: a save's on updatedAt and isPublic, a *)
(* publication's on the reviews it was granted for.  A save whose          *)
(* condition fails starts again from a fresh read, MaxRetries times.       *)
(*                                                                         *)
(* Faults: "abort", a call raises or the process stops (a failed read of   *)
(* the attempt or the problem is taken for a missing one); "resend", the   *)
(* AWS client repeats a write whose answer was lost, and the repetition is *)
(* refused by its own condition.                                           *)
(***************************************************************************)
EXTENDS AttemptReviews, FiniteSets

CONSTANTS
  Handlers,      \* server processes, each running one request at a time
  Saves,         \* bodies of the saves that clients send
  MaxRetries,    \* 2: how often a save starts again after a conflict
  MaxRequests,   \* bound: requests that ever arrive, and revisions of the catalog
  Faults         \* which of "abort" and "resend" may happen

ASSUME RecordAssumption ==
  /\ Saves \subseteq SaveRequest
  /\ MaxRetries \in Nat /\ MaxRequests \in Nat
  /\ Faults \subseteq {"abort", "resend"}

VARIABLES
  attempt,       \* the item
  updatedAt,     \* its updatedAt; 0 where it has none
  catalog,       \* the problem's approved revision, if it has one
  req,           \* the request of each handler
  clock,         \* time: every save stamps the item with a time of its own
  issued,        \* requests that have arrived
  told           \* history: reviews of acknowledged saves of this attempt

vars == <<attempt, updatedAt, catalog, req, clock, issued, told>>

Request == [op : {"none", "save", "publish"},
            pc : {"idle", "read", "resolve", "write"},
            body : Saves \cup {None},
            read : Attempt,          \* the attempt as this request read it
            readAt : Nat,            \* and its updatedAt
            stamp : Nat,             \* the updatedAt to write
            pin : Maybe(Revisions),  \* the specification to write
            tries : Nat]             \* _conflict_retries

Idle == [op |-> "none", pc |-> "idle", body |-> None, read |-> NoAttempt,
         readAt |-> 0, stamp |-> 0, pin |-> None, tries |-> 0]

TypeOK ==
  /\ attempt \in Attempt
  /\ Len(attempt.history) <= HistoryLimit
  /\ updatedAt \in Nat
  /\ catalog \in Maybe(Revisions)
  /\ req \in [Handlers -> Request]
  /\ clock \in Nat
  /\ issued \in Nat
  /\ told \subseteq Reviews

-----------------------------------------------------------------------------
(* What the requests decide *)

\* The review that a specification must not contradict.
Judged(q) == IF q.check # None THEN q.check ELSE q.review

\* _resolve_attempt_requirement_spec asks the catalog for a new attempt, or for one
\* without a specification when a scored review names a revision.
CatalogNeeded(read, q) ==
  /\ read.spec = None
  /\ read.status = "stored" =>
       Judged(q) \in Scored /\ Brief[Judged(q)] # None

\* Never an older brief than the review was made for.
PinOf(approved, q) ==
  IF Judged(q) \in Scored /\ Brief[Judged(q)] \notin {None, approved}
  THEN None ELSE approved

\* Mutant: any stored attempt will do.
SaveAcceptedIfStored(request) ==
  IF request.read.status = "none"
  THEN attempt.status = "none"
  ELSE attempt.status # "none" /\ attempt.public = request.read.public

\* Mutant: publication in between is not noticed.
SaveAcceptedIfUnsaved(request) ==
  IF request.read.status = "none"
  THEN attempt.status = "none"
  ELSE attempt.status # "none" /\ updatedAt = request.readAt

\* _attempt_update_condition.
SaveAccepted(request) ==
  IF request.read.status = "none"
  THEN attempt.status = "none"
  ELSE /\ attempt.status # "none"
       /\ updatedAt = request.readAt
       /\ attempt.public = request.read.public

\* publish_attempt's condition; a missing check is null.
PublishAccepted(request) ==
  /\ attempt.status # "none"
  /\ attempt.review = request.read.review
  /\ attempt.check = request.read.check

\* The item after the save's SET and REMOVE; the specification is set if_not_exists.
Written(request) ==
  SavedOver(attempt, request.read, request.body,
            IF attempt.spec # None THEN attempt.spec ELSE request.pin)

-----------------------------------------------------------------------------
(* Steps of a request *)

At(h, op, pc) == req[h].op = op /\ req[h].pc = pc

Continue(h, request) == req' = [req EXCEPT ![h] = request]

Reply(h) == Continue(h, Idle)

Issue == issued < MaxRequests /\ issued' = issued + 1

ReadOnly == UNCHANGED <<attempt, updatedAt, catalog, issued, told>>

BeginSave(h) ==
  /\ req[h].pc = "idle"
  /\ Issue
  /\ \E q \in Saves :
       Continue(h, [Idle EXCEPT !.op = "save", !.pc = "read", !.body = q])
  /\ UNCHANGED <<attempt, updatedAt, catalog, clock, told>>

BeginPublish(h) ==
  /\ req[h].pc = "idle"
  /\ Issue
  /\ Continue(h, [Idle EXCEPT !.op = "publish", !.pc = "read"])
  /\ UNCHANGED <<attempt, updatedAt, catalog, clock, told>>

\* get_attempt_by_problem: a consistent read; a failed one returns None too.
Readings ==
  {[item |-> attempt, at |-> updatedAt]}
    \cup (IF "abort" \in Faults THEN {[item |-> NoAttempt, at |-> 0]} ELSE {})

\* create_or_update_attempt up to its next call.  An item that lacks required fields
\* cannot be made an AttemptResponse: the request is refused.
SaveRead(h) ==
  /\ At(h, "save", "read")
  /\ \E seen \in Readings :
       \/ /\ seen.item.status = "ghost"
          /\ Reply(h)
          /\ UNCHANGED clock
       \/ /\ seen.item.status # "ghost"
          /\ clock' = clock + 1
          /\ Continue(h, [req[h] EXCEPT
                !.read = seen.item, !.readAt = seen.at, !.stamp = clock + 1,
                !.pin = seen.item.spec,
                !.pc = IF CatalogNeeded(seen.item, req[h].body)
                       THEN "resolve" ELSE "write"])
  /\ ReadOnly

\* get_problem_by_id, and the rest of _resolve_attempt_requirement_spec: a revision
\* that the client names must be the approved one.
SaveResolve(h) ==
  /\ At(h, "save", "resolve")
  /\ \E approved \in {catalog} \cup (IF "abort" \in Faults THEN {None} ELSE {}) :
       IF approved # None /\ req[h].body.supplied \notin {None, approved}
       THEN Reply(h)
       ELSE Continue(h, [req[h] EXCEPT
              !.pin = IF approved = None THEN None ELSE PinOf(approved, req[h].body),
              !.pc = "write"])
  /\ UNCHANGED clock
  /\ ReadOnly

\* After a conflict: again from a fresh read, or an error after the last try.
Retry(h) ==
  IF req[h].tries < MaxRetries
  THEN Continue(h, [Idle EXCEPT !.op = "save", !.pc = "read",
                                !.body = req[h].body, !.tries = req[h].tries + 1])
  ELSE Reply(h)

SaveApplied(h) ==
  /\ SaveAccepted(req[h])
  /\ attempt' = Written(req[h])
  /\ updatedAt' = req[h].stamp

SaveWrite(h) ==
  /\ At(h, "save", "write")
  /\ \/ /\ SaveApplied(h)
        /\ told' = told \cup ({req[h].body.review, req[h].body.check} \ {None})
        /\ Reply(h)
     \/ /\ ~SaveAccepted(req[h])
        /\ Retry(h)
        /\ UNCHANGED <<attempt, updatedAt, told>>
     \/ /\ "resend" \in Faults
        /\ SaveApplied(h)
        /\ Retry(h)
        /\ UNCHANGED told
  /\ UNCHANGED <<catalog, clock, issued>>

PublishRead(h) ==
  /\ At(h, "publish", "read")
  /\ \E seen \in Readings :
       IF seen.item.status = "stored" /\ Qualifies(seen.item)
       THEN Continue(h, [req[h] EXCEPT !.read = seen.item, !.readAt = seen.at,
                                       !.pc = "write"])
       ELSE Reply(h)
  /\ UNCHANGED clock
  /\ ReadOnly

\* A repeated publication is refused only when the reviews have changed, so that
\* resending it changes nothing here.
PublishWrite(h) ==
  /\ At(h, "publish", "write")
  /\ attempt' = IF PublishAccepted(req[h]) THEN Published(attempt) ELSE attempt
  /\ Reply(h)
  /\ UNCHANGED <<updatedAt, catalog, clock, issued, told>>

Handle(h) ==
  \/ BeginSave(h)
  \/ BeginPublish(h)
  \/ SaveRead(h)
  \/ SaveResolve(h)
  \/ SaveWrite(h)
  \/ PublishRead(h)
  \/ PublishWrite(h)

\* The handler stops after any call, and its request with it.
Abort(h) ==
  /\ "abort" \in Faults
  /\ req[h].pc # "idle"
  /\ Reply(h)
  /\ UNCHANGED clock
  /\ ReadOnly

-----------------------------------------------------------------------------
(* Requests of one call *)

Unpublish ==
  /\ Issue
  /\ attempt' = Unpublished(attempt)
  /\ UNCHANGED <<updatedAt, catalog, req, clock, told>>

\* get_public_solution counts the view in the same call that reads the solution.
View ==
  /\ Issue
  /\ attempt.public
  /\ attempt' = Viewed(attempt)
  /\ UNCHANGED <<updatedAt, catalog, req, clock, told>>

Delete ==
  /\ Issue
  /\ attempt' = NoAttempt
  /\ updatedAt' = 0
  /\ told' = {}
  /\ UNCHANGED <<catalog, req, clock>>

\* The catalog migration approves another revision.
Revise ==
  /\ Issue
  /\ catalog' \in Revisions \ {catalog}
  /\ UNCHANGED <<attempt, updatedAt, req, clock, told>>

\* No more requests: the bound is used up and every handler is idle.
Rest ==
  /\ issued = MaxRequests
  /\ \A h \in Handlers : req[h].pc = "idle"
  /\ UNCHANGED vars

Init ==
  /\ attempt = NoAttempt
  /\ updatedAt = 0
  /\ catalog \in Maybe(Revisions)
  /\ req = [h \in Handlers |-> Idle]
  /\ clock = 0
  /\ issued = 0
  /\ told = {}

Next ==
  \/ \E h \in Handlers : Handle(h) \/ Abort(h)
  \/ Unpublish
  \/ View
  \/ Delete
  \/ Revise
  \/ Rest

Spec == Init /\ [][Next]_vars

-----------------------------------------------------------------------------
(* Safety *)

\* Every step implements one step of AttemptStore or none: although a save computes
\* the new item from an earlier read and names most attributes, no interleaving of
\* saves, retries, publications, views and deletions loses or mixes up a change,
\* and a specification once pinned is never replaced, however the catalog changes.
Store == INSTANCE AttemptStore

ImplementsStore == Store!Spec

\* The leaderboard lists an attempt exactly while it is public and has a review that
\* no outage outdates, and with that review's score, whichever of save, publish and
\* unpublish wrote last (_build_attempt_item, publish_attempt, unpublish_attempt).
LeaderboardHonest ==
  /\ attempt.score # None <=>
       attempt.public /\ attempt.review # None /\ attempt.check \notin Unscored
  /\ attempt.score # None => attempt.score = Score[attempt.review]

\* Reviews of acknowledged saves are kept: each is counted, and each is in the history
\* unless newer ones filled it (_merge_attempt_reviews and
\* _append_attempt_history under concurrent saves and lost answers).
AckedReviewsKept ==
  /\ Cardinality(told \cap Scored) <= attempt.count
  /\ Len(attempt.history) < HistoryLimit =>
       \A r \in told : \E i \in DOMAIN attempt.history : attempt.history[i] = r

\* What two copies of the attempt with one updatedAt have in common: publication and
\* views change the rest without touching updatedAt.
SameCore(x, y) ==
  /\ x.status = y.status
  /\ x.review = y.review /\ x.check = y.check /\ x.count = y.count
  /\ x.history = y.history /\ x.context = y.context /\ x.spec = y.spec

Pending(request) == request.op = "save" /\ request.pc \in {"resolve", "write"}

\* An item that is not a stored attempt is empty.
Shaped ==
  IF attempt.status = "stored"
  THEN updatedAt > 0
  ELSE updatedAt = 0 /\ attempt = [NoAttempt EXCEPT !.status = attempt.status]

\* Nobody has seen the updatedAt that a save is about to write.
Fresh ==
  /\ updatedAt <= clock
  /\ \A h \in Handlers :
       /\ req[h].readAt <= clock
       /\ Pending(req[h]) =>
            /\ req[h].stamp > 0 /\ req[h].stamp <= clock
            /\ req[h].stamp # updatedAt
            /\ \A k \in Handlers :
                 /\ req[k].readAt # req[h].stamp
                 /\ k # h /\ Pending(req[k]) => req[k].stamp # req[h].stamp

\* What a request read is what is stored, as far as the condition of its write says so.
ReadMatches(request) ==
  /\ request.op = "save" => request.body \in Saves
  /\ Pending(request) =>
       \/ request.read = NoAttempt
       \/ /\ request.read.status = "stored"
          /\ request.readAt > 0
          /\ request.readAt = updatedAt => SameCore(request.read, attempt)
  /\ request.op = "publish" /\ request.pc = "write" => Qualifies(request.read)

\* The inductive invariant: updatedAt tells the versions of the attempt apart, so that
\* an unchanged updatedAt means that everything a save computed with is unchanged.
Consistent ==
  /\ TypeOK
  /\ Shaped
  /\ Fresh
  /\ \A h \in Handlers : ReadMatches(req[h])
  /\ LeaderboardHonest

\* What AckedReviewsKept needs to be kept by every step: the reviews that the item shows,
\* which a lost answer may have left unacknowledged, are counted and in the history too,
\* so that a repeated save need not add them again.
ReviewsKept ==
  LET shown == told \cup ({attempt.review, attempt.check} \ {None}) IN
  /\ IsFiniteSet(told)
  /\ Cardinality((told \cup {attempt.review}) \cap Scored) <= attempt.count
  /\ Len(attempt.history) < HistoryLimit =>
       \A r \in shown : \E i \in DOMAIN attempt.history : attempt.history[i] = r

\* A stored attempt can be read again: every item has the fields AttemptResponse requires.
StoredReadable == attempt.status # "ghost"

=============================================================================
