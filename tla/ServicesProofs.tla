---------------------------- MODULE ServicesProofs ----------------------------
(***************************************************************************)
(* Proofs about four services that share nothing but the server processes: *)
(* the event files, the cache of the problem catalogue, the counters on    *)
(* their way to S3 and the assessment of a design.  Each has an inductive  *)
(* invariant of its own, stated in its module.                             *)
(***************************************************************************)
EXTENDS EventLog, CatalogCache, AnalyticsFlush, AssessmentReview,
        FiniteSetTheorems, WellFoundedInduction, TLAPS

-----------------------------------------------------------------------------
(* The event files *)

\* A task that moves on without a put sees what is in the file, or what it saw.
LEMMA TaskMoves ==
  ASSUME LogConsistent, NEW m \in Lines, NEW a \in Append,
         append' = [append EXCEPT ![m] = a],
         a.pc \notin {"repeat", "written"},
         a.pc = "put" /\ file # None => file \subseteq a.seen,
         UNCHANGED <<file, overlapped>>
  PROVE  LogConsistent'
<1>1. LogTypeOK'
  BY DEF LogConsistent, LogTypeOK
<1>2. ASSUME NEW l \in Lines \ overlapped, append'[l].pc \in {"repeat", "written"}
      PROVE  /\ file # None /\ l \in file
             /\ \A k \in Reading' \ {l} : l \in append'[k].seen
  <2>1. l # m /\ append'[l] = append[l]
    BY <1>2 DEF LogConsistent, LogTypeOK
  <2>2. /\ file # None /\ l \in file
        /\ \A k \in Reading \ {l} : l \in append[k].seen
    BY <1>2, <2>1 DEF LogConsistent
  <2>3. ASSUME NEW k \in Reading' \ {l} PROVE l \in append'[k].seen
    <3>1. CASE k = m
      BY <2>2, <3>1 DEF LogConsistent, LogTypeOK, Reading
    <3>2. CASE k # m
      BY <2>2, <2>3, <3>2 DEF LogConsistent, LogTypeOK, Reading
    <3>3. QED  BY <3>1, <3>2
  <2>4. QED  BY <2>2, <2>3
<1>3. QED  BY <1>1, <1>2 DEF LogConsistent

\* A put keeps the batches that were put alone: the task has read them.
LEMMA PutFileSound ==
  ASSUME LogConsistent, NEW m \in Lines, PutFile(m)
  PROVE  LogConsistent'
<1>1. m \in Reading /\ append[m] \in Append /\ file' = append[m].seen \cup {m}
  BY DEF PutFile, LogConsistent, LogTypeOK
<1>2. file' \in SUBSET Lines /\ file' # None
  BY <1>1, LogAssumption DEF Append
<1>3. PICK a \in Append :
        append' = [append EXCEPT ![m] = a] /\ a.pc \in {"written", "repeat"}
  <2>1. PICK pc \in {"written", "repeat"} : append' = [append EXCEPT ![m].pc = pc]
    BY DEF PutFile, ToStage
  <2>2. [append[m] EXCEPT !.pc = pc] \in Append /\ [append[m] EXCEPT !.pc = pc].pc = pc
    BY <1>1 DEF Append
  <2>3. append' = [append EXCEPT ![m] = [append[m] EXCEPT !.pc = pc]]
    BY <2>1
  <2>4. QED  BY <2>2, <2>3
<1>4. /\ overlapped \subseteq overlapped' /\ overlapped' \subseteq Lines
      /\ m \notin overlapped' => Reading = {m}
  BY DEF PutFile, LogConsistent, LogTypeOK
<1>5. LogTypeOK'
  BY <1>2, <1>3, <1>4 DEF LogConsistent, LogTypeOK, Maybe
<1>6. Reading' \subseteq Reading
  BY <1>1, <1>3 DEF Reading, LogConsistent, LogTypeOK
<1>7. ASSUME NEW l \in Lines \ overlapped', append'[l].pc \in {"repeat", "written"}
      PROVE  l \in file' /\ \A k \in Reading' \ {l} : l \in append'[k].seen
  <2>1. CASE l = m
    BY <1>1, <1>4, <1>6, <2>1
  <2>2. CASE l # m
    <3>1. \A k \in Reading \ {l} : l \in append[k].seen
      BY <1>3, <1>4, <1>7, <2>2 DEF LogConsistent, LogTypeOK
    <3>2. \A k \in Reading' : append'[k].seen = append[k].seen
      <4>1. a.seen = append[m].seen
        BY <1>1, <1>3 DEF PutFile, ToStage, LogConsistent, LogTypeOK, Append
      <4>2. QED  BY <1>3, <4>1 DEF Reading, LogConsistent, LogTypeOK
    <3>3. QED  BY <1>1, <1>6, <2>2, <3>1, <3>2
  <2>3. QED  BY <2>1, <2>2
<1>8. QED  BY <1>2, <1>5, <1>7 DEF LogConsistent

LEMMA LogStepSound ==
  ASSUME LogConsistent, [LogNext]_logVars
  PROVE  LogConsistent'
<1>1. ASSUME NEW m \in Lines, Queue(m) \/ LoseAppend(m) PROVE LogConsistent'
  <2>1. PICK pc \in {"queued", "failed"} : append' = [append EXCEPT ![m].pc = pc]
    BY <1>1 DEF Queue, LoseAppend, ToStage
  <2>2. append[m] \in Append
    BY DEF LogConsistent, LogTypeOK
  <2>3. [append[m] EXCEPT !.pc = pc] \in Append /\ [append[m] EXCEPT !.pc = pc].pc = pc
    BY <2>2 DEF Append
  <2>4. append' = [append EXCEPT ![m] = [append[m] EXCEPT !.pc = pc]]
    BY <2>1
  <2>5. PICK a \in Append : append' = [append EXCEPT ![m] = a] /\ a.pc = pc
    BY <2>3, <2>4
  <2>6. UNCHANGED <<file, overlapped>>
    BY <1>1 DEF Queue, LoseAppend
  <2>7. QED
    BY <2>5, <2>6, TaskMoves
<1>2. ASSUME NEW m \in Lines, GetFile(m) PROVE LogConsistent'
  <2>1. PICK seen \in SUBSET Lines :
          /\ append' = [append EXCEPT ![m] = [pc |-> "put", seen |-> seen]]
          /\ file # None => seen = file
    <3> DEFINE seen == IF file = None THEN {} ELSE file
    <3>1. seen \in SUBSET Lines
      BY DEF LogConsistent, LogTypeOK, Maybe
    <3>2. append' = [append EXCEPT ![m] = [pc |-> "put", seen |-> seen]]
      BY <1>2 DEF GetFile
    <3>3. file # None => seen = file
      OBVIOUS
    <3> HIDE DEF seen
    <3>4. QED  BY <3>1, <3>2, <3>3
  <2>2. [pc |-> "put", seen |-> seen] \in Append
    BY DEF Append
  <2>3. QED
    BY <1>2, <2>1, <2>2, TaskMoves DEF GetFile
<1>3. CASE UNCHANGED logVars
  BY <1>3 DEF logVars, LogConsistent, LogTypeOK, Reading
<1>4. QED
  BY <1>1, <1>2, <1>3, PutFileSound DEF LogNext, LogRest

\* A batch that was put while no other task had read is in the file, and stays there
\* (append_events).
THEOREM LogConsistentCorrect == LogSpec => []LogConsistent
<1>1. LogInit => LogConsistent
  BY DEF LogInit, LogConsistent, LogTypeOK, Append, Maybe
<1>2. QED  BY <1>1, LogStepSound, PTL DEF LogSpec

\* Tasks of one session that do not overlap lose no batch.
THEOREM LinesAreKept == LogSpec => []LinesKept
<1>1. LogConsistent => LinesKept
  BY DEF LogConsistent, LinesKept, AppendAt
<1>2. QED  BY <1>1, LogConsistentCorrect, PTL

-----------------------------------------------------------------------------
(* The cache of the problem catalogue *)

\* A request that does not move stays sound while the catalogue grows, entries expire and
\* others write what is not locked by it.
LEMMA ReaderKept ==
  ASSUME NEW g \in Handlers, NEW r \in Reader, ReaderSound(g, r),
         edition \in Nat, edition' \in Nat, edition <= edition', late \subseteq late',
         \A k \in r.holds \ late' : cacheLock[k] = g => cacheLock'[k] = g,
         page' \in {page, None} \/ "page" \notin r.holds \ late',
         count' \in {count, None} \/ "count" \notin r.holds \ late'
  PROVE  ReaderSound(g, r)'
<1>1. /\ r.rows # None => r.rows \in Nat /\ r.rows <= edition
      /\ r.total # None => r.total \in Nat /\ r.total <= edition
  BY CacheAssumption DEF ReaderSound, Reader, Maybe, Editions, Nothing
<1>2. \A k \in r.holds : k \in late' \/ cacheLock'[k] = g
  BY DEF ReaderSound
<1>3. ("page" \in r.holds \ late /\ page # None /\ r.rows # None =>
         r.rows = Nothing \/ r.rows >= page.rows)'
  BY DEF ReaderSound
<1>4. ("count" \in r.holds \ late /\ count # None /\ r.pc = "write" /\ r.key = "count" =>
         r.total >= count)'
  BY DEF ReaderSound
<1>5. QED  BY <1>1, <1>2, <1>3, <1>4 DEF ReaderSound

\* One request moves, and leaves the locks and what is locked of the others alone.
LEMMA ReadersSound ==
  ASSUME CacheConsistent, NEW h \in Handlers, NEW r \in Reader,
         Continue(h, r), ReaderSound(h, r)', UNCHANGED <<edition, late>>,
         \A g \in Handlers \ {h} : \A k \in reader[g].holds \ late :
           cacheLock[k] = g => cacheLock'[k] = g,
         page' \in {page, None} \/
           \A g \in Handlers \ {h} : "page" \notin reader[g].holds \ late,
         count' \in {count, None} \/
           \A g \in Handlers \ {h} : "count" \notin reader[g].holds \ late
  PROVE  reader' \in [Handlers -> Reader] /\ \A g \in Handlers : ReaderSound(g, reader[g])'
<1>1. reader' \in [Handlers -> Reader]
  BY DEF CacheConsistent, CacheTypeOK, Continue
<1>2. edition \in Nat
  BY DEF CacheConsistent, CacheTypeOK, Editions
<1>3. ASSUME NEW g \in Handlers PROVE ReaderSound(g, reader[g])'
  <2>1. CASE g = h
    <3>1. reader'[g] = r
      BY <2>1 DEF CacheConsistent, CacheTypeOK, Continue
    <3>2. QED  BY <2>1, <3>1 DEF ReaderSound
  <2>2. CASE g # h
    <3>1. PICK w \in Reader : w = reader[g] /\ w = reader'[g] /\ ReaderSound(g, w)
      BY <2>2 DEF CacheConsistent, CacheTypeOK, Continue
    <3>2. \A k \in w.holds \ late' : cacheLock[k] = g => cacheLock'[k] = g
      BY <2>2, <3>1
    <3>3. page' \in {page, None} \/ "page" \notin w.holds \ late'
      BY <2>2, <3>1
    <3>4. count' \in {count, None} \/ "count" \notin w.holds \ late'
      BY <2>2, <3>1
    <3>5. ReaderSound(g, w)'
      BY <1>2, <3>1, <3>2, <3>3, <3>4, ReaderKept
    <3>6. QED  BY <3>1, <3>5 DEF ReaderSound
  <2>3. QED  BY <2>1, <2>2
<1>4. QED  BY <1>1, <1>3

\* A step that only moves a request.
LEMMA OneReaderSound ==
  ASSUME CacheConsistent, NEW h \in Handlers, NEW r \in Reader,
         Continue(h, r), ReaderSound(h, r),
         UNCHANGED <<edition, count, page, cacheLock, late>>,
         reads' \in Nat, outages' \in Nat, overtaken' \subseteq Handlers \X Keys
  PROVE  CacheConsistent'
<1>1. ReaderSound(h, r)'
  BY DEF ReaderSound
<1>2. reader' \in [Handlers -> Reader] /\ \A g \in Handlers : ReaderSound(g, reader[g])'
  BY <1>1, ReadersSound
<1>3. QED  BY <1>2 DEF CacheConsistent, CacheTypeOK

LEMMA RestingSound == \A h \in Handlers : Resting \in Reader /\ ReaderSound(h, Resting)
BY DEF Resting, Reader, ReaderSound, Keys, Maybe

\* A request that is done with a key goes on with the page, or rests.
LEMMA ReturnedSound ==
  ASSUME CacheConsistent, NEW h \in Handlers, NEW r \in Reader, ReaderSound(h, r),
         NEW total \in Maybe(Editions), total # None => total <= edition,
         Reply(h, Returned(r, total))
  PROVE  \E q \in Reader : /\ Continue(h, q) /\ ReaderSound(h, q)
                           /\ q.holds = {} \/ (r.key = "count" /\ q.holds = r.holds \ {"count"})
<1>1. CASE Returned(r, total).pc = "idle"
  BY <1>1, RestingSound DEF Reply, Resting
<1>2. CASE Returned(r, total).pc # "idle"
  <2>1. r.key = "count"
    BY <1>2 DEF Returned, Resting, Reader, Keys
  <2> DEFINE pc == IF total = None THEN "release" ELSE "write"
             q == [r EXCEPT !.key = "page", !.total = total, !.holds = r.holds \ {"count"},
                            !.pc = pc]
  <2>2. "page" \in r.holds /\ Returned(r, total) = q
    BY <1>2, <2>1 DEF Returned, Reader
  <2>3. /\ q \in Reader /\ q.key = "page" /\ q.total = total /\ q.pc = pc
        /\ q.holds = r.holds \ {"count"} /\ q.rows = r.rows
    BY DEF Reader, Keys
  <2>4. Continue(h, q)
    BY <1>2, <2>2 DEF Reply
  <2> HIDE DEF q
  <2>5. ReaderSound(h, q)
    BY <2>1, <2>2, <2>3 DEF ReaderSound
  <2>6. QED  BY <2>1, <2>3, <2>4, <2>5
<1>3. QED  BY <1>1, <1>2

\* A failure or none.
LEMMA OutagesCount ==
  ASSUME CacheConsistent, Works \/ Fails("abort") \/ Fails("slow")
  PROVE  outages' \in Nat
BY DEF CacheConsistent, CacheTypeOK, Works, Fails

\* The steps of a request that change nothing but itself.
LEMMA LooksSound ==
  ASSUME CacheConsistent, NEW h \in Handlers,
         ReadEntry(h) \/ Poll(h) \/ GiveUp(h) \/ Reread(h) \/ LoadPage(h) \/ LoadCount(h)
  PROVE  CacheConsistent'
<1> PICK b \in Reader : b = reader[h] /\ ReaderSound(h, b)
  BY DEF CacheConsistent, CacheTypeOK
<1>1. OnlyReader
  BY DEF ReadEntry, Poll, GiveUp, Reread, LoadPage, LoadCount
<1>2. edition \in Editions /\ count \in Maybe(Editions) /\ (count # None => count <= edition)
  BY DEF CacheConsistent, CacheTypeOK
<1> DEFINE Moved == \E q \in Reader : Continue(h, q) /\ ReaderSound(h, q)
<1>3. ASSUME NEW miss, Lookup(h, b.key, miss), miss \in Reader, ReaderSound(h, miss)
      PROVE  Moved /\ (Works \/ Fails("abort"))
  <2>1. CASE Reply(h, Returned(b, count)) /\ Works
    BY <1>2, <2>1, ReturnedSound
  <2>2. CASE Missed(b.key) /\ Continue(h, miss)
    BY <1>3, <2>2 DEF Missed
  <2>3. QED  BY <1>3, <2>1, <2>2 DEF Lookup
<1>4. Moved /\ (Works \/ Fails("abort"))
  <2>1. CASE ReadEntry(h)
    <3> DEFINE q == [b EXCEPT !.pc = "lock", !.polls = 0]
    <3>1. /\ q \in Reader /\ q.pc = "lock" /\ q.key = b.key /\ q.holds = b.holds
          /\ q.rows = b.rows /\ q.total = b.total
      BY DEF Reader
    <3>2. b.pc \notin {"write", "release"}
      BY <2>1 DEF ReadEntry, ReaderAt
    <3>3. Lookup(h, b.key, q)
      BY <2>1 DEF ReadEntry
    <3> HIDE DEF q
    <3>4. ReaderSound(h, q)
      BY <3>1, <3>2 DEF ReaderSound
    <3> HIDE DEF Moved
    <3>5. QED  BY <1>3, <3>1, <3>3, <3>4
  <2>2. CASE Poll(h)
    <3> PICK polls \in Nat : polls = b.polls + 1
      BY DEF Reader
    <3> DEFINE q == [b EXCEPT !.pc = "relock", !.polls = polls]
    <3>1. /\ q \in Reader /\ q.pc = "relock" /\ q.key = b.key /\ q.holds = b.holds
          /\ q.rows = b.rows /\ q.total = b.total
      BY DEF Reader
    <3>2. b.pc \notin {"write", "release"}
      BY <2>2 DEF Poll, ReaderAt
    <3>3. Lookup(h, b.key, q)
      BY <2>2 DEF Poll
    <3> HIDE DEF q
    <3>4. ReaderSound(h, q)
      BY <3>1, <3>2 DEF ReaderSound
    <3> HIDE DEF Moved
    <3>5. QED  BY <1>3, <3>1, <3>3, <3>4
  <2>3. CASE GiveUp(h)
    <3>1. [b EXCEPT !.pc = "load"] \in Reader /\ ReaderSound(h, [b EXCEPT !.pc = "load"])
      BY <2>3 DEF GiveUp, ReaderAt, Reader, ReaderSound
    <3>2. Continue(h, [b EXCEPT !.pc = "load"]) /\ Works
      BY <2>3 DEF GiveUp, GoOn
    <3>3. QED  BY <3>1, <3>2
  <2>4. CASE Reread(h)
    <3>1. CASE /\ Cached(b.key) # None /\ Works
               /\ Continue(h, [b EXCEPT !.pc = "release",
                                        !.total = IF b.key = "count" THEN count ELSE @])
      <4> DEFINE total == IF b.key = "count" THEN count ELSE b.total
                 q == [b EXCEPT !.pc = "release", !.total = total]
      <4>1. total \in Maybe(Editions) /\ (total # None => total <= edition)
        BY <1>2 DEF Reader, ReaderSound
      <4>2. /\ q \in Reader /\ q.pc = "release" /\ q.total = total /\ q.key = b.key
            /\ q.holds = b.holds /\ q.rows = b.rows
        BY <4>1 DEF Reader
      <4>3. Continue(h, q)
        BY <3>1
      <4> HIDE DEF q
      <4>4. ReaderSound(h, q)
        BY <4>1, <4>2 DEF ReaderSound
      <4>5. QED  BY <3>1, <4>2, <4>3, <4>4
    <3>2. CASE Missed(b.key) /\ GoOn(h, "load")
      <4>1. [b EXCEPT !.pc = "load"] \in Reader /\ ReaderSound(h, [b EXCEPT !.pc = "load"])
        BY <2>4 DEF Reread, ReaderAt, Reader, ReaderSound
      <4>2. QED  BY <3>2, <4>1 DEF GoOn, Missed
    <3>3. QED  BY <2>4, <3>1, <3>2 DEF Reread
  <2>5. CASE LoadPage(h)
    <3>1. PICK rows \in {edition, Nothing} :
            Continue(h, [b EXCEPT !.pc = "read", !.key = "count", !.rows = rows])
      BY <2>5 DEF LoadPage
    <3>2. /\ rows \in Editions \cup {Nothing} /\ rows <= edition /\ rows # None
          /\ page # None => rows = Nothing \/ rows >= page.rows
      BY <1>2, CacheAssumption DEF Editions, Nothing, CacheConsistent, CacheTypeOK, Page
    <3> DEFINE q == [b EXCEPT !.pc = "read", !.key = "count", !.rows = rows]
    <3>3. /\ q \in Reader /\ q.pc = "read" /\ q.key = "count" /\ q.rows = rows
          /\ q.holds = b.holds /\ q.total = b.total
      BY <3>2 DEF Reader, Keys, Maybe
    <3>4. Continue(h, q)
      BY <3>1
    <3> HIDE DEF q
    <3>5. ReaderSound(h, q)
      BY <3>2, <3>3 DEF ReaderSound
    <3>6. Works \/ Fails("abort")
      BY <2>5 DEF LoadPage
    <3>7. QED  BY <3>3, <3>4, <3>5, <3>6
  <2>6. CASE LoadCount(h)
    <3>1. PICK total \in {edition, None} :
            IF "count" \in b.holds
            THEN Continue(h, [b EXCEPT !.total = total,
                                       !.pc = IF total = None THEN "release" ELSE "write"])
            ELSE Reply(h, Returned(b, total))
      BY <2>6 DEF LoadCount
    <3>2. /\ total \in Maybe(Editions) /\ (total # None => total <= edition)
          /\ total # None /\ count # None => total >= count
      BY <1>2 DEF Editions, Maybe
    <3>3. Works \/ Fails("abort")
      BY <2>6 DEF LoadCount
    <3>4. CASE "count" \in b.holds
      <4> DEFINE pc == IF total = None THEN "release" ELSE "write"
                 q == [b EXCEPT !.total = total, !.pc = pc]
      <4>1. /\ q \in Reader /\ q.pc = pc /\ q.key = b.key /\ q.rows = b.rows
            /\ q.holds = b.holds /\ q.total = total
        BY <3>2 DEF Reader
      <4>2. Continue(h, q)
        BY <3>1, <3>4
      <4>3. b.key = "count"
        BY <2>6 DEF LoadCount
      <4> HIDE DEF q
      <4>4. ReaderSound(h, q)
        BY <3>2, <3>4, <4>1, <4>3 DEF ReaderSound
      <4>5. QED  BY <3>3, <4>1, <4>2, <4>4
    <3>5. CASE "count" \notin b.holds
      BY <3>1, <3>2, <3>3, <3>5, ReturnedSound
    <3>6. QED  BY <3>4, <3>5
  <2>7. QED  BY <2>1, <2>2, <2>3, <2>4, <2>5, <2>6
<1>5. outages' \in Nat
  BY <1>4, OutagesCount
<1>6. QED
  BY <1>1, <1>4, <1>5, OneReaderSound DEF OnlyReader, CacheConsistent, CacheTypeOK

\* Arriving, and stopping with the locks left behind.
LEMMA ArriveOrStopSound ==
  ASSUME CacheConsistent, NEW h \in Handlers, Arrive(h) \/ StopRead(h)
  PROVE  CacheConsistent'
<1> PICK b \in Reader : b = reader[h] /\ ReaderSound(h, b)
  BY DEF CacheConsistent, CacheTypeOK
<1>1. CASE Arrive(h)
  <2> DEFINE q == [b EXCEPT !.pc = "read"]
  <2>1. /\ q \in Reader /\ q.pc = "read" /\ q.key = b.key /\ q.holds = b.holds
        /\ q.rows = b.rows /\ q.total = b.total
    BY DEF Reader
  <2>2. Continue(h, q) /\ b.pc = "idle"
    BY <1>1 DEF Arrive, GoOn, ReaderAt
  <2> HIDE DEF q
  <2>3. ReaderSound(h, q)
    BY <2>1, <2>2 DEF ReaderSound
  <2>4. /\ UNCHANGED <<edition, count, page, cacheLock, late>>
        /\ reads' \in Nat /\ outages' \in Nat /\ overtaken' \subseteq Handlers \X Keys
    BY <1>1 DEF Arrive, Works, CacheConsistent, CacheTypeOK
  <2>5. QED  BY <2>1, <2>2, <2>3, <2>4, OneReaderSound
<1>2. CASE StopRead(h)
  BY <1>2, RestingSound, OutagesCount, OneReaderSound
     DEF StopRead, OnlyReader, CacheConsistent, CacheTypeOK
<1>3. QED  BY <1>1, <1>2

\* A lock is taken when nobody holds it any more.
LEMMA TakeLockSound ==
  ASSUME CacheConsistent, NEW h \in Handlers, TakeLock(h)
  PROVE  CacheConsistent'
<1> PICK b \in Reader : b = reader[h] /\ ReaderSound(h, b)
  BY DEF CacheConsistent, CacheTypeOK
<1> PICK k \in Keys : k = b.key
  BY DEF Reader
<1>1. b.pc \in {"lock", "relock"} /\ UNCHANGED <<edition, count, page, reads, overtaken, late>>
  BY DEF TakeLock
<1>2. ASSUME NEW pc \in {"wait", "load"}, GoOn(h, pc), UNCHANGED cacheLock,
             Works \/ Fails("abort")
      PROVE  CacheConsistent'
  <2> DEFINE q == [b EXCEPT !.pc = pc]
  <2>1. /\ q \in Reader /\ q.pc = pc /\ q.key = b.key /\ q.holds = b.holds
        /\ q.rows = b.rows /\ q.total = b.total
    BY DEF Reader
  <2>2. Continue(h, q)
    BY <1>2 DEF GoOn
  <2> HIDE DEF q
  <2>3. ReaderSound(h, q)
    BY <1>1, <2>1 DEF ReaderSound
  <2>4. outages' \in Nat
    BY <1>2, OutagesCount
  <2>5. reads' \in Nat /\ overtaken' \subseteq Handlers \X Keys
    BY <1>1 DEF CacheConsistent, CacheTypeOK
  <2>6. QED  BY <1>1, <1>2, <2>1, <2>2, <2>3, <2>4, <2>5, OneReaderSound
<1>3. CASE /\ cacheLock[k] = None /\ Works
           /\ cacheLock' = [cacheLock EXCEPT ![k] = h]
           /\ Continue(h, [b EXCEPT !.pc = "reread", !.holds = b.holds \cup {k}])
  <2> DEFINE q == [b EXCEPT !.pc = "reread", !.holds = b.holds \cup {k}]
  <2>1. /\ q \in Reader /\ q.pc = "reread" /\ q.key = k /\ q.holds = b.holds \cup {k}
        /\ q.rows = b.rows /\ q.total = b.total
    BY DEF Reader
  <2>2. Continue(h, q)
    BY <1>3
  <2> HIDE DEF q
  <2>3. ReaderSound(h, q)'
    BY <1>1, <1>3, <2>1 DEF ReaderSound, CacheConsistent, CacheTypeOK
  <2>4. \A g \in Handlers \ {h} : \A j \in reader[g].holds \ late :
          cacheLock[j] = g => cacheLock'[j] = g
    BY <1>3, CacheAssumption DEF CacheConsistent, CacheTypeOK, Reader
  <2>5. reader' \in [Handlers -> Reader] /\ \A g \in Handlers : ReaderSound(g, reader[g])'
    BY <1>1, <2>1, <2>2, <2>3, <2>4, ReadersSound
  <2>6. QED
    BY <1>1, <1>3, <2>5 DEF Works, CacheConsistent, CacheTypeOK, Maybe
<1>4. QED  BY <1>2, <1>3 DEF TakeLock

\* A write replaces what is cached by something as new, as long as the lock is held.
LEMMA WriteEntrySound ==
  ASSUME CacheConsistent, NEW h \in Handlers, WriteEntry(h)
  PROVE  CacheConsistent'
<1> PICK b \in Reader : b = reader[h] /\ ReaderSound(h, b) /\ b.pc = "write"
  BY DEF WriteEntry, ReaderAt, CacheConsistent, CacheTypeOK
<1>1. /\ b.key \in b.holds /\ b.rows \in Editions \cup {Nothing} /\ b.total \in Editions
      /\ b.rows <= edition /\ b.total <= edition
  BY DEF Reader, ReaderSound, Maybe
<1>2. /\ \/ b.key = "page" /\ page' = [rows |-> b.rows, total |-> b.total] /\ UNCHANGED count
         \/ b.key = "count" /\ count' = b.total /\ UNCHANGED page
         \/ UNCHANGED <<page, count>>
      /\ UNCHANGED <<edition, cacheLock, reads, overtaken, late>>
      /\ Works \/ Fails("abort")
  BY DEF WriteEntry
<1> DEFINE q == [b EXCEPT !.pc = "release"]
<1>3. /\ q \in Reader /\ q.pc = "release" /\ q.key = b.key /\ q.holds = b.holds
      /\ q.rows = b.rows /\ q.total = b.total
  BY DEF Reader
<1>4. Continue(h, q)
  BY DEF WriteEntry, GoOn
<1> HIDE DEF q
<1>5. ReaderSound(h, q)'
  <2>1. page' # page => page'.rows = b.rows
    BY <1>2
  <2>2. b.rows \in Nat
    BY <1>1 DEF Editions, Nothing
  <2>3. QED  BY <1>1, <1>2, <1>3, <2>1, <2>2 DEF ReaderSound
<1>6. \A g \in Handlers \ {h} : b.key \notin reader[g].holds \ late
  BY <1>1 DEF CacheConsistent, ReaderSound
<1>7. /\ page' \in {page, None} \/ \A g \in Handlers \ {h} : "page" \notin reader[g].holds \ late
      /\ count' \in {count, None} \/ \A g \in Handlers \ {h} : "count" \notin reader[g].holds \ late
  BY <1>2, <1>6
<1>8. reader' \in [Handlers -> Reader] /\ \A g \in Handlers : ReaderSound(g, reader[g])'
  BY <1>2, <1>3, <1>4, <1>5, <1>7, ReadersSound
<1>9. outages' \in Nat
  BY <1>2, OutagesCount
<1>10. page' \in Maybe(Page) /\ (page' # None => page'.rows <= edition)
  BY <1>1, <1>2 DEF CacheConsistent, CacheTypeOK, Page, Maybe
<1>11. count' \in Maybe(Editions) /\ (count' # None => count' <= edition)
  BY <1>1, <1>2 DEF CacheConsistent, CacheTypeOK, Maybe
<1>12. QED
  BY <1>2, <1>8, <1>9, <1>10, <1>11 DEF CacheConsistent, CacheTypeOK

\* Only the owner's lock goes.
LEMMA ReleaseLockSound ==
  ASSUME CacheConsistent, NEW h \in Handlers, ReleaseLock(h)
  PROVE  CacheConsistent'
<1> PICK b \in Reader : b = reader[h] /\ ReaderSound(h, b)
  BY DEF CacheConsistent, CacheTypeOK
<1> PICK k \in Keys : k = b.key
  BY DEF Reader
<1>1. /\ \/ cacheLock' = [cacheLock EXCEPT ![k] = None] /\ cacheLock[k] = h
         \/ UNCHANGED cacheLock
      /\ UNCHANGED <<edition, count, page, reads, late>>
      /\ Works \/ Fails("abort")
      /\ Reply(h, Returned(b, b.total))
      /\ overtaken' \subseteq overtaken
  BY DEF ReleaseLock
<1>2. b.total \in Maybe(Editions) /\ (b.total # None => b.total <= edition)
  BY DEF Reader, ReaderSound
<1>3. PICK q \in Reader : /\ Continue(h, q) /\ ReaderSound(h, q)
                          /\ q.holds = {} \/ (b.key = "count" /\ q.holds = b.holds \ {"count"})
  BY <1>1, <1>2, ReturnedSound
<1>4. \A j \in q.holds : cacheLock[j] = h => cacheLock'[j] = h
  BY <1>1, <1>3 DEF CacheConsistent, CacheTypeOK, Reader
<1>5. ReaderSound(h, q)'
  BY <1>1, <1>3, <1>4 DEF ReaderSound
<1>6. \A g \in Handlers \ {h} : \A j \in reader[g].holds \ late :
        cacheLock[j] = g => cacheLock'[j] = g
  BY <1>1 DEF CacheConsistent, CacheTypeOK, Reader
<1>7. reader' \in [Handlers -> Reader] /\ \A g \in Handlers : ReaderSound(g, reader[g])'
  BY <1>1, <1>3, <1>5, <1>6, ReadersSound
<1>8. outages' \in Nat
  BY <1>1, OutagesCount
<1>9. cacheLock' \in [Keys -> Maybe(Handlers)] /\ overtaken' \subseteq Handlers \X Keys
  BY <1>1 DEF CacheConsistent, CacheTypeOK, Maybe
<1>10. QED
  BY <1>1, <1>7, <1>8, <1>9 DEF CacheConsistent, CacheTypeOK

\* Time and the table: every request stays sound.
LEMMA EnvironmentSound ==
  ASSUME CacheConsistent, Edit \/ ExpireEntry \/ \E k \in Keys : ExpireLock(k)
  PROVE  CacheConsistent'
<1>1. /\ UNCHANGED reader /\ reads' = reads
      /\ page' \in {page, None} /\ count' \in {count, None}
  BY DEF Edit, ExpireEntry, ExpireLock
<1>2. /\ edition \in Editions /\ edition' \in Editions
      /\ edition \in Nat /\ edition' \in Nat /\ edition <= edition'
  BY CacheAssumption DEF Edit, ExpireEntry, ExpireLock, Editions, CacheConsistent, CacheTypeOK
<1>3. /\ cacheLock' \in [Keys -> Maybe(Handlers)] /\ late \subseteq late' /\ late' \subseteq Keys
      /\ overtaken' \subseteq Handlers \X Keys
      /\ \A g \in Handlers : \A j \in reader[g].holds \ late' :
           cacheLock[j] = g => cacheLock'[j] = g
  <2>1. CASE Edit \/ ExpireEntry
    BY <2>1 DEF Edit, ExpireEntry, CacheConsistent, CacheTypeOK
  <2>2. ASSUME NEW k \in Keys, ExpireLock(k)
        PROVE  /\ cacheLock' \in [Keys -> Maybe(Handlers)]
               /\ late \subseteq late' /\ late' \subseteq Keys
               /\ overtaken' \subseteq Handlers \X Keys
               /\ \A g \in Handlers : \A j \in reader[g].holds \ late' :
                    cacheLock[j] = g => cacheLock'[j] = g
    <3>1. PICK owner \in Handlers : owner = cacheLock[k]
      BY <2>2 DEF ExpireLock, CacheConsistent, CacheTypeOK, Maybe
    <3>2. /\ cacheLock' = [cacheLock EXCEPT ![k] = None]
          /\ late' \in {late, late \cup {k}} /\ overtaken' \in {overtaken, overtaken \cup {<<owner, k>>}}
          /\ k \in late' \/ k \notin reader[owner].holds
      BY <2>2, <3>1 DEF ExpireLock
    <3>3. \A g \in Handlers : \A j \in reader[g].holds \ late' :
            cacheLock[j] = g => cacheLock'[j] = g
      BY <3>1, <3>2 DEF CacheConsistent, CacheTypeOK
    <3>4. cacheLock' \in [Keys -> Maybe(Handlers)]
      BY <3>2 DEF CacheConsistent, CacheTypeOK, Maybe
    <3>5. QED  BY <3>2, <3>3, <3>4 DEF CacheConsistent, CacheTypeOK
  <2>3. QED  BY <2>1, <2>2
<1>4. \A g \in Handlers : ReaderSound(g, reader[g])'
  <2> SUFFICES ASSUME NEW g \in Handlers PROVE ReaderSound(g, reader[g])'
    OBVIOUS
  <2>1. PICK w \in Reader : w = reader[g] /\ w = reader'[g] /\ ReaderSound(g, w)
    BY <1>1 DEF CacheConsistent, CacheTypeOK
  <2>2. ReaderSound(g, w)'
    BY <1>1, <1>2, <1>3, <2>1, ReaderKept
  <2>3. QED  BY <2>1, <2>2 DEF ReaderSound
<1>5. outages' \in Nat
  BY DEF Edit, ExpireEntry, ExpireLock, Fails, CacheConsistent, CacheTypeOK
<1>6. /\ page' # None => page'.rows <= edition'
      /\ count' # None => count' <= edition'
  BY <1>1, <1>2 DEF CacheConsistent, CacheTypeOK, Page, Maybe, Editions, Nothing
<1>7. QED
  BY <1>1, <1>2, <1>3, <1>4, <1>5, <1>6 DEF CacheConsistent, CacheTypeOK, Maybe

LEMMA CacheStepSound ==
  ASSUME CacheConsistent, [CacheNext]_cacheVars
  PROVE  CacheConsistent'
<1>1. CASE UNCHANGED cacheVars
  BY <1>1 DEF cacheVars, CacheConsistent, CacheTypeOK, ReaderSound
<1>2. QED
  BY <1>1, LooksSound, ArriveOrStopSound, TakeLockSound, WriteEntrySound, ReleaseLockSound,
     EnvironmentSound DEF CacheNext, Read, CacheRest

\* The inductive invariant: until it expires, the lock of a key is that of the one request
\* that took it, and what that request loaded since is as new as what is cached
\* (_load_under_lock).
THEOREM CacheConsistentCorrect == CacheSpec => []CacheConsistent
<1>1. CacheInit => CacheConsistent
  <2> SUFFICES ASSUME CacheInit PROVE CacheConsistent
    OBVIOUS
  <2>1. CacheTypeOK
    BY RestingSound, CacheAssumption DEF CacheInit, CacheTypeOK, Editions, Maybe
  <2>2. QED  BY <2>1, RestingSound DEF CacheInit, CacheConsistent
<1>2. QED  BY <1>1, CacheStepSound, PTL DEF CacheSpec

\* Only a write changes what is cached to something else.
LEMMA WritesAreNewer ==
  ASSUME CacheConsistent, [CacheNext]_cacheVars, NEW k \in Keys \ late,
         Cached(k) # None, Cached(k)' # None, Loaded(k)' # Nothing
  PROVE  Loaded(k)' >= Loaded(k)
<1>1. /\ count \in Maybe(Editions) /\ page \in Maybe(Page)
  BY DEF CacheConsistent, CacheTypeOK
<1>2. CASE page' \in {page, None} /\ count' \in {count, None}
  <2>1. Loaded(k) \in Nat /\ Loaded(k)' = Loaded(k)
    BY <1>1, <1>2 DEF Loaded, Cached, Keys, Maybe, Page, Editions, Nothing
  <2>2. QED  BY <2>1
<1>3. ASSUME NEW h \in Handlers, WriteEntry(h) PROVE Loaded(k)' >= Loaded(k)
  <2>1. PICK b \in Reader : b = reader[h] /\ ReaderSound(h, b) /\ b.pc = "write"
    BY <1>3 DEF WriteEntry, ReaderAt, CacheConsistent, CacheTypeOK
  <2>2. \/ b.key = "page" /\ page' = [rows |-> b.rows, total |-> b.total] /\ UNCHANGED count
        \/ b.key = "count" /\ count' = b.total /\ UNCHANGED page
        \/ UNCHANGED <<page, count>>
    BY <1>3, <2>1 DEF WriteEntry
  <2>3. CASE b.key = "page" /\ page' = [rows |-> b.rows, total |-> b.total] /\ UNCHANGED count
    <3>1. CASE k = "page"
      <4>1. Loaded(k)' = b.rows /\ Loaded(k) = page.rows
        BY <2>3, <3>1 DEF Loaded
      <4>2. b.rows = Nothing \/ b.rows >= page.rows
        BY <2>1, <2>3, <3>1 DEF ReaderSound, Cached
      <4>3. QED  BY <4>1, <4>2
    <3>2. CASE k = "count"
      BY <1>1, <2>3, <3>2 DEF Loaded, Cached, Maybe, Editions
    <3>3. QED  BY <3>1, <3>2 DEF Keys
  <2>4. CASE b.key = "count" /\ count' = b.total /\ UNCHANGED page
    <3>1. CASE k = "page"
      BY <1>1, <2>4, <3>1 DEF Loaded, Cached, Maybe, Page, Editions, Nothing
    <3>2. CASE k = "count"
      BY <2>1, <2>4, <3>2 DEF ReaderSound, Loaded, Cached
    <3>3. QED  BY <3>1, <3>2 DEF Keys
  <2>5. QED  BY <1>2, <2>2, <2>3, <2>4
<1>4. QED
  BY <1>2, <1>3
     DEF CacheNext, Read, CacheRest, cacheVars, Arrive, StopRead, OnlyReader, ReadEntry, TakeLock,
         Poll, GiveUp, Reread, LoadPage, LoadCount, ReleaseLock, Edit, ExpireEntry, ExpireLock

\* A cached page or count never gives way to one of an older edition, for any number of
\* requests and editions, until a lock expires under its holder.
THEOREM NewestIsKept == CacheSpec => NewestKept
<1>1. CacheConsistent /\ [CacheNext]_cacheVars =>
        [\A k \in Keys :
           /\ k \notin late
           /\ Cached(k) # None /\ Cached(k)' # None
           /\ Loaded(k)' # Nothing
           => Loaded(k)' >= Loaded(k)]_cacheVars
  BY WritesAreNewer
<1>2. QED  BY <1>1, CacheConsistentCorrect, PTL DEF CacheSpec, NewestKept

-----------------------------------------------------------------------------
(* The counters on their way to S3 *)

LEMMA ZeroTotals == Zero \in Totals
BY DEF Zero, Totals

\* What comes after a pass has the same hash.
LEMMA PassKeeps ==
  ASSUME NEW t \in Flusher
  PROVE  /\ Pass(t) \in Flusher /\ Pass(t).snap = t.snap
         /\ Pass(t).pc \in {t.pc, "rescan", "release"}
         /\ t.pc \notin {"rotate", "retry"} => Pass(t) = t
         /\ FlusherSound(t) => FlusherSound(Pass(t))
<1>1. CASE t.pc = "rotate" /\ t.kinds = {}
  <2>1. Pass(t) = [t EXCEPT !.pc = "rescan"]
    BY <1>1 DEF Pass
  <2>2. QED  BY <1>1, <2>1 DEF Flusher, FlusherSound
<1>2. CASE t.pc = "retry" /\ t.left = {}
  <2>1. Pass(t) = [t EXCEPT !.pc = "release"]
    BY <1>2 DEF Pass
  <2>2. QED  BY <1>2, <2>1 DEF Flusher, FlusherSound
<1>3. CASE ~(t.pc = "rotate" /\ t.kinds = {}) /\ ~(t.pc = "retry" /\ t.left = {})
  BY <1>3 DEF Pass
<1>4. QED  BY <1>1, <1>2, <1>3

LEMMA IdleSound ==
  /\ IdleFlusher \in Flusher /\ IdleFlusher.snap = None /\ FlusherSound(IdleFlusher)
  /\ IdleFlusher.pc = "idle"
BY ZeroTotals DEF IdleFlusher, Flusher, FlusherSound, Maybe

LEMMA WorkingSound ==
  ASSUME NEW pc \in {"scan", "release"}
  PROVE  /\ [IdleFlusher EXCEPT !.pc = pc] \in Flusher
         /\ [IdleFlusher EXCEPT !.pc = pc].snap = None
         /\ FlusherSound([IdleFlusher EXCEPT !.pc = pc])
BY ZeroTotals DEF IdleFlusher, Flusher, FlusherSound, Maybe

LEMMA DoneSound ==
  ASSUME NEW t \in Flusher
  PROVE  Done(t) \in Flusher /\ Done(t).snap = None /\ FlusherSound(Done(t))
BY ZeroTotals DEF Done, Flusher, FlusherSound, Maybe

\* The object and its revision go up together, and nothing is taken back.
FlushMoves ==
  /\ recorded \subseteq recorded' /\ excused \subseteq excused'
  /\ revision \in Nat /\ revision' \in Nat /\ revision <= revision'
  /\ revision' = revision => object' = object
  /\ object \in Totals /\ object' \in Totals
  /\ \A b \in Batches : object[b] <= object'[b]

LEMMA FlusherStays ==
  ASSUME FlushMoves, NEW t \in Flusher, FlusherSound(t),
         t.snap \in rotated => t.snap \in rotated' \/ t.snap.batches \subseteq excused'
  PROVE  FlusherSound(t)'
<1>1. t.snap # None =>
        /\ t.snap.batches \subseteq recorded' /\ t.snap.batches \subseteq Batches
        /\ t.snap \in rotated' \/ t.snap.batches \subseteq excused'
  BY DEF FlusherSound, FlushMoves, Flusher, Maybe, Rotated
<1>2. t.pc = "put" => t.tag <= revision' /\ (t.tag = revision' => t.seen = object')
  BY DEF FlusherSound, FlushMoves, Flusher
<1>3. t.pc = "drop" => \A b \in t.snap.batches : object'[b] > 0
  BY <1>1 DEF FlusherSound, FlushMoves, Totals
<1>4. QED  BY <1>1, <1>2, <1>3 DEF FlusherSound

\* The flush of one process moves.
LEMMA FlushersSound ==
  ASSUME FlushConsistent, FlushMoves, NEW h \in Handlers, NEW t \in Flusher,
         Proceed(h, t), FlusherSound(t)',
         \A g \in Handlers \ {h} : flusher[g].snap \in rotated =>
           flusher[g].snap \in rotated' \/ flusher[g].snap.batches \subseteq excused'
  PROVE  /\ flusher' \in [Handlers -> Flusher]
         /\ \A g \in Handlers : FlusherSound(flusher[g])'
         /\ flusher'[h].snap = t.snap
         /\ t.pc \notin {"rotate", "retry"} => flusher'[h].pc = t.pc
         /\ \A g \in Handlers \ {h} : flusher'[g] = flusher[g]
<1> PICK u \in Flusher : u = Pass(t)
  BY PassKeeps
<1>1. /\ flusher' = [flusher EXCEPT ![h] = u] /\ flusher \in [Handlers -> Flusher]
      /\ u.snap = t.snap /\ (t.pc \notin {"rotate", "retry"} => u = t)
  BY PassKeeps DEF Proceed, FlushConsistent, FlushTypeOK
<1>2. FlusherSound(u)'
  <2>1. /\ u.snap = t.snap /\ u.tag = t.tag /\ u.seen = t.seen
        /\ \/ u.pc = t.pc
           \/ t.pc \in {"rotate", "retry"} /\ u.pc \in {"rescan", "release"}
    BY PassKeeps DEF Pass, Flusher
  <2>. QED  BY <2>1 DEF FlusherSound
<1>3. ASSUME NEW g \in Handlers PROVE FlusherSound(flusher[g])'
  <2>1. CASE g = h
    <3>1. flusher'[g] = u
      BY <1>1, <2>1
    <3>2. QED  BY <1>2, <3>1 DEF FlusherSound
  <2>2. CASE g # h
    <3>1. PICK w \in Flusher : w = flusher[g] /\ w = flusher'[g] /\ FlusherSound(w)
      BY <1>1, <2>2 DEF FlushConsistent
    <3>2. w.snap \in rotated => w.snap \in rotated' \/ w.snap.batches \subseteq excused'
      BY <2>2, <3>1
    <3>3. FlusherSound(w)'
      BY <3>1, <3>2, FlusherStays
    <3>4. QED  BY <3>1, <3>3 DEF FlusherSound
  <2>3. QED  BY <2>1, <2>2
<1>4. QED  BY <1>1, <1>3

\* A step that changes a flush, and what is excused, but no counter.
LEMMA FlusherMoves ==
  ASSUME FlushConsistent, NEW h \in Handlers, NEW t \in Flusher,
         Proceed(h, t), FlusherSound(t),
         UNCHANGED <<hot, rotated, object, revision, report, recorded>>,
         lock' \in Maybe(Handlers), faults' \in Nat,
         excused \subseteq excused', excused' \subseteq Batches,
         t.snap # None =>
           /\ \A k \in Kinds : hot[k] \cap t.snap.batches = {}
           /\ \A g \in Handlers \ {h} :
                flusher[g].snap = t.snap => t.snap.batches \subseteq excused',
         FlusherAt(h, "drop") => flusher[h].snap.batches \subseteq excused'
  PROVE  FlushConsistent'
<1>1. FlushMoves
  BY DEF FlushMoves, FlushConsistent, FlushTypeOK, Totals
<1>2. FlusherSound(t)'
  BY <1>1, FlusherStays
<1>3. /\ flusher' \in [Handlers -> Flusher]
      /\ \A g \in Handlers : FlusherSound(flusher[g])'
      /\ flusher'[h].snap = t.snap
      /\ \A g \in Handlers \ {h} : flusher'[g] = flusher[g]
  BY <1>1, <1>2, FlushersSound
<1>4. FlushTypeOK'
  BY <1>3 DEF FlushConsistent, FlushTypeOK
<1>5. HotFresh'
  BY <1>3 DEF FlushConsistent, HotFresh
<1>6. RotatedApart'
  <2> SUFFICES ASSUME NEW s \in rotated, NEW b \in s.batches \ excused', object[b] # 0
               PROVE  \E g \in Handlers : FlusherAt(g, "drop")' /\ flusher'[g].snap = s
    BY DEF FlushConsistent, RotatedApart
  <2>1. PICK g \in Handlers : FlusherAt(g, "drop") /\ flusher[g].snap = s
    BY DEF FlushConsistent, RotatedApart
  <2>2. g # h
    BY <2>1
  <2>3. QED  BY <1>3, <2>1, <2>2 DEF FlusherAt
<1>7. SharedExcused'
  BY <1>3 DEF FlushConsistent, SharedExcused
<1>8. (CountedOnce /\ ReportBehind /\ \A b \in Batches : object[b] > 0 => b \in recorded)'
  BY DEF FlushConsistent, CountedOnce, NothingLost, OnlyExcusedTwice, Held, ReportBehind
<1>9. QED
  BY <1>3, <1>4, <1>5, <1>6, <1>7, <1>8 DEF FlushConsistent

\* The same for a flush that stays at its hash, or leaves it.
LEMMA FlusherGoesOn ==
  ASSUME FlushConsistent, NEW h \in Handlers, NEW t \in Flusher,
         Proceed(h, t), FlusherSound(t), t.snap \in {None, flusher[h].snap},
         UNCHANGED <<hot, rotated, object, revision, report, recorded>>,
         lock' \in Maybe(Handlers), faults' \in Nat,
         excused \subseteq excused', excused' \subseteq Batches,
         FlusherAt(h, "drop") => flusher[h].snap.batches \subseteq excused'
  PROVE  FlushConsistent'
<1>1. t.snap # None =>
        /\ \A k \in Kinds : hot[k] \cap t.snap.batches = {}
        /\ \A g \in Handlers \ {h} :
             flusher[g].snap = t.snap => t.snap.batches \subseteq excused'
  BY DEF FlushConsistent, HotFresh, SharedExcused
<1>2. QED  BY <1>1, FlusherMoves

\* The steps of a flush that change nothing but itself or the lock.
LEMMA QuietStepsSound ==
  ASSUME FlushConsistent, NEW h \in Handlers,
         \/ AcquireFlush(h) \/ ScanHashes(h) \/ ScanRotated(h) \/ GetObject(h)
         \/ ConflictedPut(h) \/ ReleaseFlush(h)
  PROVE  FlushConsistent'
<1> PICK b \in Flusher : b = flusher[h] /\ FlusherSound(b)
  BY DEF FlushConsistent, FlushTypeOK
<1>1. PICK t \in Flusher : Proceed(h, t) /\ FlusherSound(t) /\ t.snap \in {None, b.snap}
  <2>1. CASE AcquireFlush(h)
    BY <2>1, WorkingSound DEF AcquireFlush
  <2>2. CASE ScanHashes(h)
    <3> DEFINE kinds == {k \in Kinds : hot[k] # {}}
               t == [b EXCEPT !.pc = "rotate", !.kinds = kinds]
    <3>1. t \in Flusher /\ t.pc = "rotate" /\ t.snap = b.snap
      BY DEF Flusher
    <3>2. b.snap = None /\ Proceed(h, t)
      BY <2>2 DEF ScanHashes, FlusherAt, FlusherSound
    <3> HIDE DEF t
    <3>3. QED  BY <3>1, <3>2 DEF FlusherSound
  <2>3. CASE ScanRotated(h)
    <3> DEFINE t == [b EXCEPT !.pc = "retry", !.left = rotated, !.again = TRUE]
    <3>1. t \in Flusher /\ t.pc = "retry" /\ t.snap = b.snap
      BY DEF Flusher, FlushConsistent, FlushTypeOK
    <3>2. b.snap = None /\ Proceed(h, t)
      BY <2>3 DEF ScanRotated, FlusherAt, FlusherSound
    <3> HIDE DEF t
    <3>3. QED  BY <3>1, <3>2 DEF FlusherSound
  <2>4. CASE GetObject(h)
    <3> DEFINE t == [b EXCEPT !.pc = "put", !.seen = object, !.tag = revision]
    <3>1. /\ t \in Flusher /\ t.pc = "put" /\ t.snap = b.snap /\ t.seen = object
          /\ t.tag = revision /\ revision \in Nat
      BY DEF Flusher, FlushConsistent, FlushTypeOK
    <3>2. b.snap # None /\ Proceed(h, t)
      BY <2>4 DEF GetObject, FlusherAt, FlusherSound
    <3> HIDE DEF t
    <3>3. QED  BY <3>1, <3>2 DEF FlusherSound
  <2>5. CASE ConflictedPut(h)
    <3> PICK tries \in Nat : tries = b.tries + 1
      BY DEF Flusher
    <3> DEFINE t == [b EXCEPT !.pc = "get", !.tries = tries, !.seen = Zero, !.tag = 0]
    <3>1. t \in Flusher /\ t.pc = "get" /\ t.snap = b.snap
      BY ZeroTotals DEF Flusher
    <3>2. b.snap # None /\ (Proceed(h, t) \/ Proceed(h, Done(b)))
      BY <2>5 DEF ConflictedPut, Refused, FlusherAt, FlusherSound
    <3> HIDE DEF t
    <3>3. FlusherSound(t)
      BY <3>1, <3>2 DEF FlusherSound
    <3>4. QED  BY <3>1, <3>2, <3>3, DoneSound
  <2>6. CASE ReleaseFlush(h)
    BY <2>6, IdleSound DEF ReleaseFlush
  <2>7. QED  BY <2>1, <2>2, <2>3, <2>4, <2>5, <2>6
<1>2. /\ UNCHANGED <<hot, rotated, object, revision, report, recorded, faults, excused>>
      /\ lock' \in {lock, None, h} /\ ~FlusherAt(h, "drop")
  BY DEF AcquireFlush, ScanHashes, ScanRotated, GetObject, ConflictedPut, ReleaseFlush,
         OnlyFlusher, FlusherAt
<1>3. /\ lock' \in Maybe(Handlers) /\ faults' \in Nat
      /\ excused \subseteq excused' /\ excused' \subseteq Batches
  BY <1>2 DEF FlushConsistent, FlushTypeOK, Maybe
<1>4. QED
  BY <1>1, <1>2, <1>3, FlusherGoesOn

\* A flush that fails or stops at a hash that the object counts has excused it.
LEMMA BrokenFlushSound ==
  ASSUME FlushConsistent, NEW h \in Handlers, FailFlush(h) \/ StopFlush(h)
  PROVE  FlushConsistent'
<1>1. PICK t \in Flusher : Proceed(h, t) /\ FlusherSound(t) /\ t.snap = None
  <2>1. Proceed(h, IdleFlusher) \/ Proceed(h, [IdleFlusher EXCEPT !.pc = "release"])
    BY DEF FailFlush, StopFlush
  <2>2. QED  BY <2>1, IdleSound, WorkingSound
<1>2. /\ UNCHANGED <<hot, rotated, object, revision, lock, report, recorded>>
      /\ faults' = faults + 1 /\ Undeleted(h)
  BY DEF FailFlush, StopFlush, Fault
<1>3. FlusherAt(h, "drop") => flusher[h].snap.batches \subseteq Batches
  BY DEF FlusherAt, FlushConsistent, FlushTypeOK, FlusherSound, Flusher, Rotated, Maybe
<1>4. /\ lock' \in Maybe(Handlers) /\ faults' \in Nat
      /\ excused \subseteq excused' /\ excused' \subseteq Batches
      /\ FlusherAt(h, "drop") => flusher[h].snap.batches \subseteq excused'
  BY <1>2, <1>3 DEF Undeleted, FlushConsistent, FlushTypeOK
<1>5. QED
  BY <1>1, <1>2, <1>4, FlusherGoesOn

\* A flush turns to a renamed hash: if another flush is at it, it is excused.
LEMMA LoadSound ==
  ASSUME FlushConsistent, NEW h \in Handlers, NEW t \in Flusher, t.snap \in Rotated,
         Load(h, t), ~FlusherAt(h, "drop")
  PROVE  FlushConsistent'
<1>1. PICK u \in Flusher : /\ Proceed(h, u) /\ FlusherSound(u)
                           /\ u.snap = None \/ (u.snap = t.snap /\ t.snap \in rotated)
  <2>1. CASE t.snap \notin rotated
    BY <2>1, DoneSound DEF Load
  <2>2. CASE t.snap \in rotated
    <3> DEFINE u == [t EXCEPT !.pc = "get"]
    <3>1. u \in Flusher /\ u.pc = "get" /\ u.snap = t.snap
      BY DEF Flusher
    <3>2. Proceed(h, u)
      BY <2>2 DEF Load
    <3>3. t.snap.batches \subseteq recorded /\ t.snap # None
      BY <2>2, FlushAssumption DEF FlushConsistent, RotatedApart
    <3> HIDE DEF u
    <3>4. FlusherSound(u)
      BY <2>2, <3>1, <3>3 DEF FlusherSound
    <3>5. QED  BY <2>2, <3>1, <3>2, <3>4
  <2>3. QED  BY <2>1, <2>2
<1>2. /\ UNCHANGED <<hot, rotated, object, revision, lock, report, faults, recorded>>
      /\ excused' = IF \E k \in Handlers \ {h} : flusher[k].snap = t.snap
                    THEN excused \cup t.snap.batches ELSE excused
  BY DEF Load
<1>3. /\ lock' \in Maybe(Handlers) /\ faults' \in Nat
      /\ excused \subseteq excused' /\ excused' \subseteq Batches
  BY <1>2 DEF FlushConsistent, FlushTypeOK, Rotated
<1>4. u.snap # None =>
        /\ \A k \in Kinds : hot[k] \cap u.snap.batches = {}
        /\ \A g \in Handlers \ {h} :
             flusher[g].snap = u.snap => u.snap.batches \subseteq excused'
  BY <1>1, <1>2 DEF FlushConsistent, HotFresh
<1>5. QED
  BY <1>1, <1>2, <1>3, <1>4, FlusherMoves

LEMMA LoadsSound ==
  ASSUME FlushConsistent, NEW h \in Handlers, LoadRenamed(h) \/ LoadRotated(h)
  PROVE  FlushConsistent'
<1> PICK b \in Flusher : b = flusher[h] /\ FlusherSound(b)
  BY DEF FlushConsistent, FlushTypeOK
<1>1. CASE LoadRenamed(h)
  <2>1. Load(h, b) /\ b.pc = "load"
    BY <1>1 DEF LoadRenamed, FlusherAt
  <2>2. b.snap \in Rotated
    BY <2>1 DEF Flusher, FlusherSound, Maybe
  <2>3. QED  BY <2>1, <2>2, LoadSound DEF FlusherAt
<1>2. CASE LoadRotated(h)
  <2>1. PICK s \in b.left : Load(h, [b EXCEPT !.snap = s, !.left = @ \ {s}])
    BY <1>2 DEF LoadRotated
  <2>2. /\ [b EXCEPT !.snap = s, !.left = @ \ {s}] \in Flusher
        /\ [b EXCEPT !.snap = s, !.left = @ \ {s}].snap = s /\ s \in Rotated
    BY DEF Flusher, Maybe
  <2>3. ~FlusherAt(h, "drop")
    BY <1>2 DEF LoadRotated, FlusherAt
  <2>4. QED  BY <2>1, <2>2, <2>3, LoadSound
<1>3. QED  BY <1>1, <1>2

\* Counting: a batch comes once.
LEMMA RecordSound ==
  ASSUME FlushConsistent, NEW c \in Batches, NEW k \in Kinds, Record(c, k)
  PROVE  FlushConsistent'
<1>1. /\ c \notin recorded /\ recorded' = recorded \cup {c}
      /\ hot' = [hot EXCEPT ![k] = hot[k] \cup {c}]
      /\ UNCHANGED <<rotated, object, revision, lock, flusher, report, faults, excused>>
  BY DEF Record
<1>2. FlushTypeOK'
  BY <1>1 DEF FlushConsistent, FlushTypeOK
<1>3. /\ object[c] = 0 /\ \A j \in Kinds : c \notin hot[j]
      /\ \A s \in rotated : c \notin s.batches
      /\ \A h \in Handlers : flusher[h].snap # None => c \notin flusher[h].snap.batches
  BY <1>1 DEF FlushConsistent, FlushTypeOK, Totals, HotFresh, RotatedApart, FlusherSound
<1>4. HotFresh'
  <2> SUFFICES ASSUME NEW i \in Kinds, NEW b \in hot'[i]
               PROVE  /\ b \in recorded' /\ object[b] = 0
                      /\ \A j \in Kinds \ {i} : b \notin hot'[j]
                      /\ \A s \in rotated : b \notin s.batches
                      /\ \A h \in Handlers :
                           flusher[h].snap # None => b \notin flusher[h].snap.batches
    BY <1>1 DEF HotFresh
  <2>1. \A j \in Kinds : hot'[j] = IF j = k THEN hot[j] \cup {c} ELSE hot[j]
    BY <1>1 DEF FlushConsistent, FlushTypeOK
  <2>2. CASE b = c
    <3>1. i = k
      BY <1>3, <2>1, <2>2
    <3>2. QED  BY <1>1, <1>3, <2>1, <2>2, <3>1
  <2>3. CASE b # c
    <3>1. b \in hot[i]
      BY <2>1, <2>3
    <3>2. QED  BY <1>1, <2>1, <2>3, <3>1 DEF FlushConsistent, HotFresh
  <2>4. QED  BY <2>2, <2>3
<1>5. RotatedApart'
  BY <1>1 DEF FlushConsistent, RotatedApart, FlusherAt
<1>6. \A h \in Handlers : FlusherSound(flusher[h])'
  BY <1>1 DEF FlushConsistent, FlusherSound
<1>7. (CountedOnce /\ ReportBehind /\ SharedExcused
       /\ \A b \in Batches : object[b] > 0 => b \in recorded)'
  <2>1. \A b \in recorded' : object[b] > 0 \/ Held(b)'
    <3>1. \A j \in Kinds : hot[j] \subseteq hot'[j]
      BY <1>1 DEF FlushConsistent, FlushTypeOK
    <3>2. c \in hot'[k]
      BY <1>1 DEF FlushConsistent, FlushTypeOK
    <3>3. QED
      BY <1>1, <3>1, <3>2 DEF FlushConsistent, CountedOnce, NothingLost, Held
  <2>2. QED
    BY <1>1, <2>1 DEF FlushConsistent, CountedOnce, NothingLost, OnlyExcusedTwice,
                      ReportBehind, SharedExcused
<1>8. QED
  BY <1>2, <1>4, <1>5, <1>6, <1>7 DEF FlushConsistent

\* Renaming a hash: its batches are where no other hash and no flush has them.
LEMMA RotateHashSound ==
  ASSUME FlushConsistent, NEW h \in Handlers, RotateHash(h)
  PROVE  FlushConsistent'
<1> PICK u \in Flusher : u = flusher[h] /\ FlusherSound(u) /\ u.pc = "rotate" /\ u.snap = None
  BY DEF RotateHash, FlusherAt, FlushConsistent, FlushTypeOK, FlusherSound
<1>1. UNCHANGED <<object, revision, lock, report, faults, recorded, excused>>
  BY DEF RotateHash
<1>2. PICK k \in Kinds :
        IF hot[k] = {}
        THEN Proceed(h, [u EXCEPT !.pc = "release"]) /\ UNCHANGED <<hot, rotated>>
        ELSE LET snap == [kind |-> k, batches |-> hot[k]] IN
             /\ hot' = [hot EXCEPT ![k] = {}]
             /\ rotated' = rotated \cup {snap}
             /\ Proceed(h, [u EXCEPT !.pc = "load", !.snap = snap, !.kinds = @ \ {k}])
  BY DEF RotateHash, Flusher
<1>3. CASE hot[k] = {}
  <2> DEFINE t == [u EXCEPT !.pc = "release"]
  <2>1. t \in Flusher /\ t.pc = "release" /\ t.snap = None
    BY DEF Flusher
  <2>2. Proceed(h, t) /\ UNCHANGED <<hot, rotated>>
    BY <1>2, <1>3
  <2> HIDE DEF t
  <2>3. FlusherSound(t)
    BY <2>1 DEF FlusherSound
  <2>4. /\ lock' \in Maybe(Handlers) /\ faults' \in Nat
        /\ excused \subseteq excused' /\ excused' \subseteq Batches
    BY <1>1 DEF FlushConsistent, FlushTypeOK
  <2>5. ~FlusherAt(h, "drop")
    BY DEF FlusherAt
  <2>6. QED  BY <1>1, <2>1, <2>2, <2>3, <2>4, <2>5, FlusherGoesOn
<1>4. CASE hot[k] # {}
  <2> PICK snap \in Rotated : snap = [kind |-> k, batches |-> hot[k]] /\ snap.batches = hot[k]
    <3>1. hot[k] \in SUBSET Batches
      BY DEF FlushConsistent, FlushTypeOK
    <3>2. [kind |-> k, batches |-> hot[k]] \in Rotated
      BY <3>1 DEF Rotated
    <3>3. QED  BY <3>2
  <2> DEFINE t == [u EXCEPT !.pc = "load", !.snap = snap, !.kinds = @ \ {k}]
  <2>1. t \in Flusher /\ t.pc = "load" /\ t.snap = snap /\ snap # None
    BY FlushAssumption DEF Flusher, Maybe
  <2>2. /\ hot' = [hot EXCEPT ![k] = {}]
        /\ rotated' = rotated \cup {snap} /\ Proceed(h, t)
    BY <1>2, <1>4
  <2> HIDE DEF t
  <2>3. \A b \in snap.batches :
          /\ b \in recorded /\ object[b] = 0
          /\ \A j \in Kinds \ {k} : b \notin hot[j]
          /\ \A s \in rotated : b \notin s.batches
          /\ \A g \in Handlers : flusher[g].snap # None => b \notin flusher[g].snap.batches
    BY DEF FlushConsistent, HotFresh
  <2>4. FlushMoves
    BY <1>1 DEF FlushMoves, FlushConsistent, FlushTypeOK, Totals
  <2>5. FlusherSound(t)'
    BY <1>1, <2>1, <2>2, <2>3 DEF FlusherSound
  <2>6. /\ flusher' \in [Handlers -> Flusher]
        /\ \A g \in Handlers : FlusherSound(flusher[g])'
        /\ flusher'[h].snap = snap /\ flusher'[h].pc = "load"
        /\ \A g \in Handlers \ {h} : flusher'[g] = flusher[g]
    BY <2>1, <2>2, <2>4, <2>5, FlushersSound
  <2>7. FlushTypeOK'
    BY <1>1, <2>2, <2>6 DEF FlushConsistent, FlushTypeOK
  <2>8. \A j \in Kinds : hot'[j] = IF j = k THEN {} ELSE hot[j]
    BY <2>2 DEF FlushConsistent, FlushTypeOK
  <2>9. HotFresh'
    <3> SUFFICES ASSUME NEW i \in Kinds, NEW b \in hot'[i]
                 PROVE  /\ b \in recorded' /\ object'[b] = 0
                        /\ \A j \in Kinds \ {i} : b \notin hot'[j]
                        /\ \A s \in rotated' : b \notin s.batches
                        /\ \A g \in Handlers :
                             flusher'[g].snap # None => b \notin flusher'[g].snap.batches
      BY DEF HotFresh
    <3>1. i # k /\ b \in hot[i] /\ b \notin snap.batches
      BY <2>3, <2>8
    <3>2. QED  BY <1>1, <2>2, <2>6, <2>8, <3>1 DEF FlushConsistent, HotFresh
  <2>10. RotatedApart'
    <3> SUFFICES ASSUME NEW s \in rotated'
                 PROVE  /\ s.batches \subseteq recorded
                        /\ \A r \in rotated' \ {s} : s.batches \cap r.batches = {}
                        /\ \A b \in s.batches \ excused :
                             object[b] = 0 \/ \E g \in Handlers :
                               FlusherAt(g, "drop")' /\ flusher'[g].snap = s
      BY <1>1 DEF RotatedApart
    <3>1. CASE s = snap
      BY <2>2, <2>3, <3>1
    <3>2. CASE s # snap
      <4>1. s \in rotated
        BY <2>2, <3>2
      <4>2. /\ s.batches \subseteq recorded
            /\ \A r \in rotated' \ {s} : s.batches \cap r.batches = {}
        BY <2>2, <2>3, <4>1 DEF FlushConsistent, RotatedApart
      <4>3. ASSUME NEW b \in s.batches \ excused, object[b] # 0
            PROVE  \E g \in Handlers : FlusherAt(g, "drop")' /\ flusher'[g].snap = s
        <5>1. PICK g \in Handlers : FlusherAt(g, "drop") /\ flusher[g].snap = s
          BY <4>1, <4>3 DEF FlushConsistent, RotatedApart
        <5>2. g # h
          BY <5>1 DEF FlusherAt
        <5>3. QED  BY <2>6, <5>1, <5>2 DEF FlusherAt
      <4>4. QED  BY <4>2, <4>3
    <3>3. QED  BY <3>1, <3>2
  <2>11. SharedExcused'
    <3> SUFFICES ASSUME NEW f \in Handlers, NEW g \in Handlers, f # g,
                        flusher'[f].snap # None, flusher'[f].snap = flusher'[g].snap
                 PROVE  flusher'[f].snap.batches \subseteq excused
      BY <1>1 DEF SharedExcused
    <3>1. CASE f # h /\ g # h
      BY <2>6, <3>1 DEF FlushConsistent, SharedExcused
    <3>2. CASE f = h \/ g = h
      <4>1. PICK e \in Handlers \ {h} : flusher[e].snap = snap /\ flusher'[f].snap = snap
        BY <2>6, <3>2
      <4>2. QED  BY <2>1, <2>3, <4>1
    <3>3. QED  BY <3>1, <3>2
  <2>12. NothingLost'
    <3>1. \A b : Held(b) => Held(b)'
      BY <2>2, <2>8 DEF Held
    <3>2. QED  BY <1>1, <3>1 DEF FlushConsistent, CountedOnce, NothingLost
  <2>13. (OnlyExcusedTwice /\ ReportBehind
          /\ \A b \in Batches : object[b] > 0 => b \in recorded)'
    BY <1>1 DEF FlushConsistent, CountedOnce, OnlyExcusedTwice, ReportBehind
  <2>14. QED
    BY <2>6, <2>7, <2>9, <2>10, <2>11, <2>12, <2>13 DEF FlushConsistent, CountedOnce
<1>5. QED  BY <1>3, <1>4

\* A conditional put merges a hash into the object that was read.  Either its flush goes on
\* to delete the hash, or the put's answer was lost and the hash is excused.
LEMMA StoreSound ==
  ASSUME FlushConsistent, NEW h \in Handlers, NEW t \in Flusher,
         FlusherAt(h, "put"), flusher[h].tag = revision, Store(h), Proceed(h, t),
         \/ t.pc = "drop" /\ t.snap = flusher[h].snap
         \/ /\ FlusherSound(t) /\ t.pc # "put" /\ t.snap \in {None, flusher[h].snap}
            /\ t.pc # "drop"
            /\ flusher[h].snap.batches \subseteq excused',
         excused' \in {excused, excused \cup flusher[h].snap.batches}, faults' \in Nat,
         UNCHANGED <<hot, rotated, lock, report, recorded>>
  PROVE  FlushConsistent'
<1> PICK u \in Flusher : u = flusher[h] /\ FlusherSound(u) /\ u.pc = "put" /\ u.seen = object
  BY DEF FlusherAt, FlushConsistent, FlushTypeOK, FlusherSound
<1> PICK snap \in Rotated : snap = u.snap /\ snap.batches \subseteq Batches
  BY DEF FlusherSound, Flusher, Rotated, Maybe
<1>1. /\ object \in Totals /\ revision \in Nat /\ revision' = revision + 1
      /\ snap.batches \subseteq recorded
      /\ snap \in rotated \/ snap.batches \subseteq excused
      /\ snap # None
  BY DEF Store, FlushConsistent, FlushTypeOK, FlusherSound
<1>2. /\ object' \in Totals
      /\ \A b \in Batches : object'[b] = IF b \in snap.batches THEN object[b] + 1 ELSE object[b]
  <2>1. object' = [b \in Batches |-> IF b \in snap.batches THEN object[b] + 1 ELSE object[b]]
    BY DEF Store, MergedTotals
  <2>2. QED  BY <1>1, <2>1 DEF Totals
<1>3. excused \subseteq excused' /\ excused' \subseteq Batches
  BY DEF FlushConsistent, FlushTypeOK
<1>4. FlushMoves
  BY <1>1, <1>2, <1>3 DEF FlushMoves, Totals
<1>5. FlusherSound(t)'
  <2>1. CASE t.pc = "drop" /\ t.snap = snap
    <3>1. \A b \in snap.batches : object'[b] > 0
      BY <1>1, <1>2 DEF Totals
    <3>2. QED  BY <1>1, <1>3, <2>1, <3>1 DEF FlusherSound
  <2>2. CASE FlusherSound(t)
    BY <1>4, <2>2, FlusherStays
  <2>3. QED  BY <2>1, <2>2
<1>6. /\ flusher' \in [Handlers -> Flusher]
      /\ \A g \in Handlers : FlusherSound(flusher[g])'
      /\ flusher'[h].snap = t.snap
      /\ t.pc \notin {"rotate", "retry"} => flusher'[h].pc = t.pc
      /\ \A g \in Handlers \ {h} : flusher'[g] = flusher[g]
  BY <1>4, <1>5, FlushersSound
<1>7. FlushTypeOK'
  BY <1>1, <1>2, <1>3, <1>6 DEF FlushConsistent, FlushTypeOK
<1>8. HotFresh'
  <2> SUFFICES ASSUME NEW k \in Kinds, NEW b \in hot[k]
               PROVE  /\ b \in recorded /\ object'[b] = 0
                      /\ \A j \in Kinds \ {k} : b \notin hot[j]
                      /\ \A s \in rotated : b \notin s.batches
                      /\ \A g \in Handlers :
                           flusher'[g].snap # None => b \notin flusher'[g].snap.batches
    BY DEF HotFresh
  <2>1. b \notin snap.batches /\ b \in Batches
    BY <1>1 DEF FlushConsistent, FlushTypeOK, HotFresh
  <2>2. QED  BY <1>2, <1>6, <2>1 DEF FlushConsistent, HotFresh
<1>9. ASSUME NEW b \in snap.batches \ excused' PROVE snap \in rotated /\ object[b] = 0
  <2>1. snap \in rotated
    BY <1>1, <1>3
  <2>2. SUFFICES ASSUME object[b] # 0 PROVE FALSE
    BY <2>1
  <2>3. PICK g \in Handlers : FlusherAt(g, "drop") /\ flusher[g].snap = snap
    BY <1>3, <2>1, <2>2 DEF FlushConsistent, RotatedApart
  <2>4. g # h
    BY <2>3 DEF FlusherAt
  <2>5. QED  BY <1>1, <1>3, <2>3, <2>4 DEF FlushConsistent, SharedExcused
<1>10. RotatedApart'
  <2> SUFFICES ASSUME NEW s \in rotated, NEW b \in s.batches \ excused', object'[b] # 0
               PROVE  \E g \in Handlers : FlusherAt(g, "drop")' /\ flusher'[g].snap = s
    BY DEF FlushConsistent, RotatedApart
  <2>1. CASE s = snap
    <3>1. t.pc = "drop" /\ t.snap = snap
      BY <2>1
    <3>2. QED  BY <1>6, <2>1, <3>1 DEF FlusherAt
  <2>2. CASE s # snap
    <3>1. b \notin snap.batches /\ b \in Batches
      BY <1>1, <1>3, <2>2 DEF FlushConsistent, FlushTypeOK, RotatedApart, Rotated
    <3>2. object[b] # 0
      BY <1>2, <3>1
    <3>3. PICK g \in Handlers : FlusherAt(g, "drop") /\ flusher[g].snap = s
      BY <1>3, <3>2 DEF FlushConsistent, RotatedApart
    <3>4. g # h
      BY <3>3 DEF FlusherAt
    <3>5. QED  BY <1>6, <3>3, <3>4 DEF FlusherAt
  <2>3. QED  BY <2>1, <2>2
<1>11. SharedExcused'
  BY <1>3, <1>6 DEF FlushConsistent, SharedExcused
<1>12. (\A b \in Batches : object[b] > 0 => b \in recorded)'
  BY <1>1, <1>2 DEF FlushConsistent
<1>13. NothingLost'
  BY <1>4 DEF FlushMoves, FlushConsistent, FlushTypeOK, Totals, CountedOnce, NothingLost, Held
<1>14. OnlyExcusedTwice'
  <2> SUFFICES ASSUME NEW b \in Batches \ excused' PROVE object'[b] <= 1
    BY DEF OnlyExcusedTwice
  <2>1. CASE b \in snap.batches
    BY <1>2, <1>9, <2>1
  <2>2. CASE b \notin snap.batches
    BY <1>2, <1>3, <2>2 DEF FlushConsistent, CountedOnce, OnlyExcusedTwice
  <2>3. QED  BY <2>1, <2>2
<1>15. ReportBehind'
  BY <1>1, <1>2 DEF FlushConsistent, FlushTypeOK, ReportBehind, Totals
<1>16. QED
  BY <1>6, <1>7, <1>8, <1>10, <1>11, <1>12, <1>13, <1>14, <1>15
     DEF FlushConsistent, CountedOnce

LEMMA PutsSound ==
  ASSUME FlushConsistent, NEW h \in Handlers, PutObject(h) \/ RepeatPut(h)
  PROVE  FlushConsistent'
<1> PICK u \in Flusher : u = flusher[h] /\ FlusherSound(u) /\ u.pc = "put"
  BY DEF PutObject, RepeatPut, FlusherAt, FlushConsistent, FlushTypeOK
<1>1. CASE PutObject(h)
  <2> DEFINE t == [u EXCEPT !.pc = "drop", !.seen = Zero, !.tag = 0]
  <2>1. t \in Flusher /\ t.pc = "drop" /\ t.snap = u.snap
    BY ZeroTotals DEF Flusher
  <2>2. Proceed(h, t)
    BY <1>1 DEF PutObject
  <2> HIDE DEF t
  <2>3. /\ FlusherAt(h, "put") /\ flusher[h].tag = revision /\ Store(h)
        /\ excused' = excused /\ faults' \in Nat
        /\ UNCHANGED <<hot, rotated, lock, report, recorded>>
    BY <1>1 DEF PutObject, FlushConsistent, FlushTypeOK
  <2>4. QED  BY <2>1, <2>2, <2>3, StoreSound
<1>2. CASE RepeatPut(h)
  <2>1. PICK t \in Flusher : /\ Proceed(h, t) /\ FlusherSound(t)
                             /\ t.snap \in {None, u.snap} /\ t.pc \notin {"put", "drop"}
    <3> PICK tries \in Nat : tries = u.tries + 1
      BY DEF Flusher
    <3> DEFINE t == [u EXCEPT !.pc = "get", !.tries = tries, !.seen = Zero, !.tag = 0]
    <3>1. t \in Flusher /\ t.pc = "get" /\ t.snap = u.snap
      BY ZeroTotals DEF Flusher
    <3>2. u.snap # None /\ (Proceed(h, t) \/ Proceed(h, Done(u)))
      BY <1>2 DEF RepeatPut, Refused, FlusherSound
    <3> HIDE DEF t
    <3>3. FlusherSound(t)
      BY <3>1, <3>2 DEF FlusherSound
    <3>4. Done(u).pc \notin {"put", "drop"}
      BY DEF Done, Flusher
    <3>5. QED  BY <3>1, <3>2, <3>3, <3>4, DoneSound
  <2>2. /\ FlusherAt(h, "put") /\ flusher[h].tag = revision /\ Store(h)
        /\ excused' = excused \cup flusher[h].snap.batches /\ faults' = faults + 1
        /\ UNCHANGED <<hot, rotated, lock, report, recorded>>
    BY <1>2 DEF RepeatPut, Fault
  <2>3. faults' \in Nat
    BY <2>2 DEF FlushConsistent, FlushTypeOK
  <2>4. QED  BY <2>1, <2>2, <2>3, StoreSound
<1>3. QED  BY <1>1, <1>2

\* Deleting a hash that the object counts.
LEMMA DropRotatedSound ==
  ASSUME FlushConsistent, NEW h \in Handlers, DropRotated(h)
  PROVE  FlushConsistent'
<1> PICK u \in Flusher : u = flusher[h] /\ FlusherSound(u) /\ u.pc = "drop"
  BY DEF DropRotated, FlusherAt, FlushConsistent, FlushTypeOK
<1>1. /\ rotated' = rotated \ {u.snap} /\ Proceed(h, Done(u))
      /\ UNCHANGED <<hot, object, revision, lock, report, faults, recorded, excused>>
  BY DEF DropRotated
<1>2. FlushMoves
  BY <1>1 DEF FlushMoves, FlushConsistent, FlushTypeOK, Totals
<1> PICK t \in Flusher : t = Done(u) /\ t.snap = None /\ FlusherSound(t)
  BY DoneSound
<1>3. FlusherSound(t)'
  BY <1>2, FlushAssumption, FlusherStays DEF FlushConsistent, FlushTypeOK
<1>4. \A g \in Handlers \ {h} : flusher[g].snap \in rotated =>
        flusher[g].snap \in rotated' \/ flusher[g].snap.batches \subseteq excused'
  BY <1>1, FlushAssumption DEF FlushConsistent, FlushTypeOK, SharedExcused
<1>5. /\ flusher' \in [Handlers -> Flusher]
      /\ \A g \in Handlers : FlusherSound(flusher[g])'
      /\ flusher'[h].snap = None
      /\ \A g \in Handlers \ {h} : flusher'[g] = flusher[g]
  BY <1>1, <1>2, <1>3, <1>4, FlushersSound
<1>6. FlushTypeOK'
  BY <1>1, <1>5 DEF FlushConsistent, FlushTypeOK
<1>7. HotFresh'
  BY <1>1, <1>5 DEF FlushConsistent, HotFresh
<1>8. RotatedApart'
  <2> SUFFICES ASSUME NEW s \in rotated', NEW b \in s.batches \ excused, object[b] # 0
               PROVE  \E g \in Handlers : FlusherAt(g, "drop")' /\ flusher'[g].snap = s
    BY <1>1 DEF FlushConsistent, RotatedApart
  <2>1. PICK g \in Handlers : FlusherAt(g, "drop") /\ flusher[g].snap = s
    BY <1>1 DEF FlushConsistent, RotatedApart
  <2>2. g # h
    BY <1>1, <2>1
  <2>3. QED  BY <1>5, <2>1, <2>2 DEF FlusherAt
<1>9. SharedExcused'
  BY <1>1, <1>5 DEF FlushConsistent, SharedExcused
<1>10. NothingLost'
  <2> SUFFICES ASSUME NEW b \in recorded, ~(object[b] > 0) PROVE Held(b)'
    BY <1>1 DEF NothingLost
  <2>1. Held(b) /\ b \notin u.snap.batches
    BY DEF FlushConsistent, CountedOnce, NothingLost, FlusherSound
  <2>2. QED  BY <1>1, <2>1 DEF Held
<1>11. (OnlyExcusedTwice /\ ReportBehind /\ \A b \in Batches : object[b] > 0 => b \in recorded)'
  BY <1>1 DEF FlushConsistent, CountedOnce, OnlyExcusedTwice, ReportBehind
<1>12. QED
  BY <1>5, <1>6, <1>7, <1>8, <1>9, <1>10, <1>11 DEF FlushConsistent, CountedOnce

\* The lock expires, or a report is made: no counter changes.
LEMMA ExpireOrReportSound ==
  ASSUME FlushConsistent, ExpireFlush \/ ExpireEarly \/ ReadObject \/ ReadHot
  PROVE  FlushConsistent'
<1>1. UNCHANGED <<hot, rotated, object, revision, flusher, recorded, excused>>
  BY DEF ExpireFlush, ExpireEarly, Expire, ReadObject, ReadHot
<1>2. /\ lock' \in Maybe(Handlers) /\ faults' \in Nat
      /\ report' \in [begun : BOOLEAN, object : Totals] /\ ReportBehind'
  <2>1. CASE ExpireFlush \/ ExpireEarly
    BY <2>1 DEF ExpireFlush, ExpireEarly, Expire, Fault, FlushConsistent, FlushTypeOK, Maybe,
                ReportBehind
  <2>2. CASE ReadObject
    BY <2>2 DEF ReadObject, FlushConsistent, FlushTypeOK, ReportBehind, Totals
  <2>3. CASE ReadHot
    BY <2>3, ZeroTotals DEF ReadHot, NoReport, FlushConsistent, FlushTypeOK, ReportBehind
  <2>4. QED  BY <2>1, <2>2, <2>3
<1>3. FlushTypeOK'
  BY <1>1, <1>2 DEF FlushConsistent, FlushTypeOK
<1>4. (HotFresh /\ RotatedApart /\ SharedExcused)'
  BY <1>1 DEF FlushConsistent, HotFresh, RotatedApart, SharedExcused, FlusherAt
<1>5. (CountedOnce /\ \A b \in Batches : object[b] > 0 => b \in recorded)'
  BY <1>1 DEF FlushConsistent, CountedOnce, NothingLost, OnlyExcusedTwice, Held
<1>6. \A h \in Handlers : FlusherSound(flusher[h])'
  BY <1>1 DEF FlushConsistent, FlusherSound
<1>7. QED
  BY <1>2, <1>3, <1>4, <1>5, <1>6 DEF FlushConsistent

LEMMA FlushStepSound ==
  ASSUME FlushConsistent, [FlushNext]_flushVars
  PROVE  FlushConsistent'
<1>1. CASE UNCHANGED flushVars
  BY <1>1 DEF flushVars, FlushConsistent, FlushTypeOK, HotFresh, RotatedApart, SharedExcused,
              CountedOnce, NothingLost, OnlyExcusedTwice, Held, ReportBehind, FlusherSound,
              FlusherAt
<1>2. QED
  BY <1>1, RecordSound, QuietStepsSound, RotateHashSound, LoadsSound, PutsSound,
     DropRotatedSound, BrokenFlushSound, ExpireOrReportSound DEF FlushNext, Flush

\* The inductive invariant: a batch is in one hash until the object counts it, only the
\* flush that merged a hash may still have it, and flushes at the same hash are excused
\* (flush_pending).
THEOREM FlushConsistentCorrect == FlushSpec => []FlushConsistent
<1>1. FlushInit => FlushConsistent
  <2> SUFFICES ASSUME FlushInit PROVE FlushConsistent
    OBVIOUS
  <2>1. FlushTypeOK
    BY ZeroTotals, IdleSound DEF FlushInit, FlushTypeOK, NoReport, Maybe
  <2>2. \A h \in Handlers : FlusherSound(flusher[h]) /\ flusher[h].snap = None
    BY IdleSound DEF FlushInit
  <2>3. \A b \in Batches : object[b] = 0
    BY DEF FlushInit, Zero
  <2>4. QED
    BY <2>1, <2>2, <2>3
       DEF FlushInit, FlushConsistent, HotFresh, RotatedApart, SharedExcused, CountedOnce,
           NothingLost, OnlyExcusedTwice, ReportBehind, NoReport
<1>2. QED  BY <1>1, FlushStepSound, PTL DEF FlushSpec

\* Whatever is counted is in Redis until the object counts it, and is counted twice only
\* with an excuse, for any number of processes, batches and failures.
THEOREM CountsOnce == FlushSpec => []CountedOnce
<1>1. FlushConsistent => CountedOnce
  BY DEF FlushConsistent
<1>2. QED  BY <1>1, FlushConsistentCorrect, PTL

\* A report that is made while counters move shows none of them twice without an excuse
\* (_collect_latency_counts).
THEOREM ReportsNeverOver == FlushSpec => []ReportNeverOver
<1>1. FlushConsistent => ReportNeverOver
  <2> SUFFICES ASSUME FlushConsistent, report.begun, NEW b \in Batches \ excused
               PROVE  Shown(b) <= 1
    BY DEF ReportNeverOver
  <2>1. report.object[b] <= object[b] /\ object[b] <= 1 /\ report.object[b] \in Nat
    BY DEF FlushConsistent, FlushTypeOK, Totals, ReportBehind, CountedOnce, OnlyExcusedTwice
  <2>2. b \in hot["latency"] => object[b] = 0
    BY DEF FlushConsistent, HotFresh, Kinds
  <2>3. QED  BY <2>1, <2>2 DEF Shown, FlushConsistent, FlushTypeOK, Totals
<1>2. QED  BY <1>1, FlushConsistentCorrect, PTL

-----------------------------------------------------------------------------
(* Sums *)

Pick(s) == CHOOSE x \in s : TRUE

\* A set of numbers that has 0 and with each number the next has all of them.
LEMMA Counting ==
  ASSUME NEW G \in SUBSET Nat, 0 \in G, \A n \in G : n + 1 \in G
  PROVE  G = Nat
<1>. DEFINE Bad == Nat \ G
            Less == {p \in Nat \X Nat : p[1] < p[2]}
<1>1. SUFFICES ASSUME Bad # {} PROVE FALSE
  OBVIOUS
<1>2. IsWellFoundedOn(Less, Nat)
  BY NatLessThanWellFounded DEF OpToRel
<1>3. Bad \subseteq Nat
  OBVIOUS
<1>4. PICK n \in Bad : \A m \in Bad : ~(<<m, n>> \in Less)
  <2>. HIDE DEF Bad, Less
  <2>. QED  BY <1>1, <1>2, <1>3, WFMin
<1>5. n \in Nat /\ n # 0 /\ n \notin G
  BY <1>4
<1>6. n - 1 \in Nat /\ n - 1 < n /\ (n - 1) + 1 = n
  BY <1>5
<1>7. n - 1 \in G
  BY <1>4, <1>6
<1>. QED  BY <1>5, <1>6, <1>7

\* A family of subsets of a finite set that has the empty one, and each subset with which it
\* has the one without the element that a sum takes first, has all of them.
LEMMA Gathering ==
  ASSUME NEW C, IsFiniteSet(C), NEW G \in SUBSET (SUBSET C), {} \in G,
         \A s \in SUBSET C : s # {} /\ s \ {Pick(s)} \in G => s \in G
  PROVE  G = SUBSET C
<1>. DEFINE N == {n \in Nat : \A s \in SUBSET C : Cardinality(s) <= n => s \in G}
<1>1. \A s \in SUBSET C : IsFiniteSet(s) /\ Cardinality(s) \in Nat
  BY FS_Subset, FS_CardinalityType
<1>2. 0 \in N
  <2>1. \A s \in SUBSET C : Cardinality(s) <= 0 => Cardinality(s) = 0
    BY <1>1
  <2>2. \A s \in SUBSET C : Cardinality(s) = 0 => s = {}
    BY <1>1, FS_EmptySet
  <2>. QED  BY <2>1, <2>2
<1>3. ASSUME NEW n \in N PROVE n + 1 \in N
  <2>1. n + 1 \in Nat
    OBVIOUS
  <2>2. ASSUME NEW s \in SUBSET C, Cardinality(s) <= n + 1 PROVE s \in G
    <3>1. CASE s = {}
      BY <3>1
    <3>2. CASE s # {}
      <4>1. Pick(s) \in s
        BY <3>2 DEF Pick
      <4>2. IsFiniteSet(s \ {Pick(s)}) /\ Cardinality(s \ {Pick(s)}) = Cardinality(s) - 1
        BY <1>1, <4>1, FS_RemoveElement
      <4>3. PICK c \in Nat : c = Cardinality(s)
        BY <1>1
      <4>4. Cardinality(s \ {Pick(s)}) <= n
        BY <2>2, <4>2, <4>3
      <4>5. s \ {Pick(s)} \in G
        BY <4>4
      <4>. QED  BY <3>2, <4>5
    <3>. QED  BY <3>1, <3>2
  <2>. QED  BY <2>1, <2>2
<1>4. N = Nat
  <2>. HIDE DEF N
  <2>1. N \in SUBSET Nat
    BY DEF N
  <2>. QED  BY <1>2, <1>3, <2>1, Counting
<1>5. ASSUME NEW s \in SUBSET C PROVE s \in G
  <2>1. PICK c \in Nat : c = Cardinality(s)
    BY <1>1
  <2>2. c \in N /\ c <= c
    BY <1>4, <2>1
  <2>. QED  BY <2>1, <2>2
<1>. QED  BY <1>5

\* What the sum of f over subsets of C satisfies.
SumsUp(g, f, C) ==
  g = [s \in SUBSET C |-> IF s = {} THEN 0 ELSE LET x == CHOOSE x \in s : TRUE IN f[x] + g[s \ {x}]]

LEMMA SumsAre ==
  ASSUME NEW C, NEW f, NEW g, SumsUp(g, f, C)
  PROVE  /\ g[{}] = 0
         /\ \A s \in SUBSET C : s # {} =>
              Pick(s) \in s /\ g[s] = f[Pick(s)] + g[s \ {Pick(s)}]
<1>1. \A s \in SUBSET C :
        g[s] = IF s = {} THEN 0 ELSE LET x == CHOOSE x \in s : TRUE IN f[x] + g[s \ {x}]
  BY DEF SumsUp
<1>. QED  BY <1>1 DEF Pick

\* There is such a function.
LEMMA SumsExist ==
  ASSUME NEW C, IsFiniteSet(C), NEW f
  PROVE  \E g : SumsUp(g, f, C)
<1>. DEFINE Upto(n) == {s \in SUBSET C : Cardinality(s) <= n}
            Next(g, s) == IF s = {} THEN 0 ELSE f[Pick(s)] + g[s \ {Pick(s)}]
            Partly(g, n) == \A s \in Upto(n) : g[s] = Next(g, s)
            N == {n \in Nat : \E g : Partly(g, n)}
<1>1. \A s \in SUBSET C : IsFiniteSet(s) /\ Cardinality(s) \in Nat
  BY FS_Subset, FS_CardinalityType
<1>2. 0 \in N
  <2>. DEFINE g == [s \in SUBSET C |-> 0]
  <2>1. \A s \in Upto(0) : s = {}
    BY <1>1, FS_EmptySet
  <2>2. Partly(g, 0)
    BY <2>1
  <2>. HIDE DEF Partly
  <2>. QED  BY <2>2
<1>3. ASSUME NEW n \in N PROVE n + 1 \in N
  <2>1. n \in Nat /\ n + 1 \in Nat
    OBVIOUS
  <2>2. PICK g : Partly(g, n)
    OBVIOUS
  <2>. DEFINE h == [s \in SUBSET C |-> Next(g, s)]
  <2>3. ASSUME NEW s \in Upto(n + 1) PROVE h[s] = Next(h, s)
    <3>1. CASE s = {}
      BY <3>1
    <3>2. CASE s # {}
      <4>1. Pick(s) \in s
        BY <3>2 DEF Pick
      <4>2. Cardinality(s \ {Pick(s)}) = Cardinality(s) - 1
        BY <1>1, <4>1, FS_RemoveElement
      <4>3. PICK c \in Nat : c = Cardinality(s)
        BY <1>1
      <4>4. s \ {Pick(s)} \in Upto(n)
        BY <2>1, <2>3, <4>2, <4>3
      <4>5. g[s \ {Pick(s)}] = Next(g, s \ {Pick(s)})
        BY <2>2, <4>4
      <4>6. h[s \ {Pick(s)}] = Next(g, s \ {Pick(s)})
        BY <4>4
      <4>7. h[s] = f[Pick(s)] + g[s \ {Pick(s)}]
        BY <3>2
      <4>. QED  BY <3>2, <4>5, <4>6, <4>7
    <3>. QED  BY <3>1, <3>2
  <2>4. Partly(h, n + 1)
    <3>. HIDE DEF h, Upto, Next
    <3>. QED  BY <2>3
  <2>. HIDE DEF Partly, h
  <2>. QED  BY <2>1, <2>4
<1>4. N = Nat
  <2>. HIDE DEF N
  <2>1. N \in SUBSET Nat
    BY DEF N
  <2>. QED  BY <1>2, <1>3, <2>1, Counting
<1>5. PICK g : Partly(g, Cardinality(C))
  <2>1. Cardinality(C) \in N
    BY <1>1, <1>4
  <2>. HIDE DEF Partly
  <2>. QED  BY <2>1
<1>6. Upto(Cardinality(C)) = SUBSET C
  BY FS_Subset
<1>. DEFINE h == [s \in SUBSET C |-> Next(g, s)]
<1>7. \A s \in SUBSET C : g[s] = h[s]
  BY <1>5, <1>6
<1>8. \A s \in SUBSET C : Next(g, s) = Next(h, s)
  BY <1>7
<1>9. h = [s \in SUBSET C |-> Next(h, s)]
  <2>. HIDE DEF Next
  <2>. QED  BY <1>8
<1>. HIDE DEF h
<1>10. SumsUp(h, f, C)
  BY <1>9, Zenon DEF SumsUp, Pick
<1>. QED  BY <1>10

-----------------------------------------------------------------------------
(* Grades *)

\* What Total sums.
SumOf(f) == CHOOSE g : SumsUp(g, f, Criteria)

LEMMA TotalIs ==
  ASSUME NEW f
  PROVE  /\ Total(f) = SumOf(f)[Criteria]
         /\ SumOf(f)[{}] = 0
         /\ \A s \in SUBSET Criteria : s # {} =>
              Pick(s) \in s /\ SumOf(f)[s] = f[Pick(s)] + SumOf(f)[s \ {Pick(s)}]
<1>1. SumsUp(SumOf(f), f, Criteria)
  BY SumsExist, AssessmentAssumption DEF SumOf
<1>2. Total(f) = SumOf(f)[Criteria]
  BY Zenon DEF Total, MapThenSumSet, MapThenFoldSet, SumOf, SumsUp
<1>3. /\ SumOf(f)[{}] = 0
      /\ \A s \in SUBSET Criteria : s # {} =>
           Pick(s) \in s /\ SumOf(f)[s] = f[Pick(s)] + SumOf(f)[s \ {Pick(s)}]
  BY ONLY <1>1, SumsAre
<1>. QED  BY <1>2, <1>3

\* Scores that are all t or more have a weighted sum of t times the weights or more.
LEMMA WeightedTotal ==
  ASSUME NEW scores \in [Criteria -> Nat], NEW t \in Nat,
         \A c \in Criteria : scores[c] >= t
  PROVE  LET n == Total([c \in Criteria |-> scores[c] * Weight[c]])
             d == Total(Weight)
         IN  n \in Nat /\ d \in Nat /\ d > 0 /\ n >= t * d
<1>. DEFINE f == [c \in Criteria |-> scores[c] * Weight[c]]
            n == SumOf(f)
            d == SumOf(Weight)
            G == {s \in SUBSET Criteria : /\ n[s] \in Nat /\ d[s] \in Nat /\ n[s] >= t * d[s]
                                          /\ s # {} => d[s] > 0}
<1>1. \A c \in Criteria : Weight[c] \in Nat /\ Weight[c] > 0 /\ scores[c] \in Nat
  BY AssessmentAssumption
<1>2. {} \in G
  <2>1. n[{}] = 0 /\ d[{}] = 0 /\ t * 0 = 0
    BY TotalIs
  <2>. HIDE DEF n, d
  <2>. QED  BY <2>1
<1>3. ASSUME NEW s \in SUBSET Criteria, s # {}, s \ {Pick(s)} \in G PROVE s \in G
  <2>. DEFINE x == Pick(s)
  <2>1. x \in Criteria /\ n[s] = f[x] + n[s \ {x}] /\ d[s] = Weight[x] + d[s \ {x}]
    BY <1>3, TotalIs
  <2>2. n[s \ {x}] \in Nat /\ d[s \ {x}] \in Nat /\ n[s \ {x}] >= t * d[s \ {x}]
    BY <1>3
  <2>3. f[x] = scores[x] * Weight[x]
    BY <2>1
  <2>4. PICK a \in Nat, w \in Nat, m \in Nat, e \in Nat :
          a = scores[x] /\ w = Weight[x] /\ m = n[s \ {x}] /\ e = d[s \ {x}]
    BY <1>1, <2>1, <2>2
  <2>5. a >= t /\ w > 0 /\ m >= t * e /\ n[s] = a * w + m /\ d[s] = w + e
    BY <1>1, <2>1, <2>2, <2>3, <2>4
  <2>. HIDE DEF n, d, x, f
  <2>6. a * w \in Nat /\ a * w >= t * w
    <3>1. PICK k \in Nat : a = t + k
      <4>1. a - t \in Nat /\ a = t + (a - t)
        BY <2>5
      <4>. QED  BY <4>1
    <3>2. a * w = t * w + k * w /\ k * w \in Nat /\ t * w \in Nat
      BY <3>1
    <3>. QED  BY <3>2
  <2>7. t * (w + e) = t * w + t * e /\ t * w \in Nat /\ t * e \in Nat
    OBVIOUS
  <2>8. n[s] \in Nat /\ d[s] \in Nat /\ n[s] >= t * d[s] /\ d[s] > 0
    BY <2>5, <2>6, <2>7
  <2>. QED  BY <2>8
<1>4. G = SUBSET Criteria
  <2>. HIDE DEF G
  <2>1. G \in SUBSET (SUBSET Criteria)
    BY DEF G
  <2>. QED  BY <1>2, <1>3, <2>1, Gathering, AssessmentAssumption
<1>5. Criteria \in G /\ Criteria # {}
  BY <1>4, AssessmentAssumption
<1>6. Total(f) = n[Criteria] /\ Total(Weight) = d[Criteria]
  BY TotalIs
<1>. QED  BY <1>5, <1>6

\* Rounding a quotient never takes it below a whole number that it reaches.
LEMMA RoundedBound ==
  ASSUME NEW n \in Nat, NEW d \in Nat, d > 0, NEW t \in Nat, n >= t * d
  PROVE  Rounded(n, d) \in Nat /\ Rounded(n, d) >= t
<1>1. n \div d \in Nat /\ n \div d >= t
  <2>1. n \div d \in Int /\ n % d \in 0..(d - 1) /\ n = d * (n \div d) + (n % d)
    OBVIOUS
  <2>2. PICK q \in Int, r \in 0..(d - 1) : q = n \div d /\ n = d * q + r
    BY <2>1
  <2>3. ~(q < t)
    <3>1. SUFFICES ASSUME q < t PROVE FALSE
      OBVIOUS
    <3>2. PICK k \in Nat : t = q + 1 + k
      <4>1. t - q - 1 \in Nat /\ t = q + 1 + (t - q - 1)
        BY <3>1
      <4>. QED  BY <4>1
    <3>3. t * d = d * q + d + k * d /\ k * d \in Nat
      BY <3>2
    <3>. QED  BY <2>2, <3>3
  <2>. QED  BY <2>2, <2>3
<1>. QED  BY <1>1 DEF Rounded

\* An answer without an excused low score has no low grade.
LEMMA HighGrades ==
  ASSUME NEW a \in Answers, a.whole, \A c \in Criteria : a.scores[c] >= Threshold
  PROVE  Overall(a.scores) \in Nat /\ Overall(a.scores) >= Threshold
<1>1. a.scores \in [Criteria -> Nat] /\ Threshold \in Nat
  BY AssessmentAssumption
<1>. DEFINE n == Total([c \in Criteria |-> a.scores[c] * Weight[c]])
            d == Total(Weight)
<1>2. n \in Nat /\ d \in Nat /\ d > 0 /\ n >= Threshold * d
  BY <1>1, WeightedTotal
<1>3. Overall(a.scores) = Rounded(n, d)
  BY DEF Overall
<1>. HIDE DEF n, d
<1>. QED  BY <1>1, <1>2, <1>3, RoundedBound

\* What the rules promise of an answer that passes them.
LEMMA AcceptedIsGrounded ==
  ASSUME NEW a \in Answers, NEW brief \in Maybe(Briefs), Accepted(a, brief)
  PROVE  /\ a.verdict = "strong" =>
              /\ Overall(a.scores) >= Threshold
              /\ brief # None =>
                   \A id \in Core[brief] : \E x \in a.coverage :
                     x.id = id /\ x.status = "supported" /\ x.evidence \cap Submitted # {}
         /\ Overall(a.scores) < Threshold =>
              \E f \in a.findings :
                /\ f.kind = "defect" /\ f.evidence \cap Submitted # {}
                /\ f.requirements \cap Core[brief] # {}
<1>1. a.whole /\ a.scores \in [Criteria -> 0..100] /\ Threshold \in Nat
  BY AssessmentAssumption DEF Accepted
<1>2. ASSUME NEW f \in a.findings, f.gap
      PROVE  /\ f.kind = "defect" /\ f.evidence \cap Submitted # {}
             /\ f.requirements \cap Core[brief] # {}
  <2>1. FindingGrounded(f, a, brief)
    BY DEF Accepted
  <2>. QED  BY <1>2, <2>1 DEF FindingGrounded, GapGrounded
<1>3. ASSUME ~ \E f \in a.findings : f.gap
      PROVE  Overall(a.scores) \in Nat /\ Overall(a.scores) >= Threshold
  <2>1. \A c \in Criteria : a.scores[c] \in Nat /\ ~(a.scores[c] < Threshold)
    BY <1>1, <1>3 DEF Accepted, DeductionsJustified
  <2>2. \A c \in Criteria : a.scores[c] >= Threshold
    BY <1>1, <2>1
  <2>. QED  BY <1>1, <2>2, HighGrades
<1>4. ASSUME a.verdict = "strong" PROVE ~ \E f \in a.findings : f.gap
  BY <1>2, <1>4 DEF Accepted, VerdictFits
<1>5. ASSUME a.verdict = "strong", brief # None, NEW id \in Core[brief]
      PROVE  \E x \in a.coverage :
               x.id = id /\ x.status = "supported" /\ x.evidence \cap Submitted # {}
  <2>1. CoverageComplete(a, brief) /\ VerdictCovered(a, brief)
    BY DEF Accepted
  <2>2. {x.id : x \in a.coverage} = References(brief)
    BY <1>5, <2>1 DEF CoverageComplete
  <2>3. PICK x \in a.coverage : x.id = id
    BY <2>2 DEF References
  <2>4. x.status = "supported"
    BY <1>5, <2>1, <2>3 DEF VerdictCovered, CoreCoverage
  <2>5. x.evidence \subseteq Submitted /\ x.evidence # {}
    BY <2>1, <2>4 DEF CoverageComplete
  <2>. QED  BY <2>3, <2>4, <2>5
<1>6. Overall(a.scores) < Threshold => \E f \in a.findings : f.gap
  <2>1. SUFFICES ASSUME Overall(a.scores) < Threshold, ~ \E f \in a.findings : f.gap PROVE FALSE
    OBVIOUS
  <2>. QED  BY <1>1, <1>3, <2>1
<1>. QED  BY <1>2, <1>3, <1>4, <1>5, <1>6

\* What is answered without a review is no grade.
LEMMA UngradedIsSound ==
  ASSUME ReviewConsistent, NEW result, result.source \in {"none", "rules"}, Reviewed(result)
  PROVE  ReviewConsistent'
BY ServersAssumption DEF ReviewConsistent, ReviewTypeOK, GradesGrounded, Reviewed, Waiting, Maybe

LEMMA BeginReviewSound ==
  ASSUME ReviewConsistent, BeginReview
  PROVE  ReviewConsistent'
<1>1. PICK named \in Maybe(Briefs), custom \in BOOLEAN, sound \in BOOLEAN :
        review' = [Waiting EXCEPT !.pc = "lookup", !.named = named,
                                  !.custom = custom, !.sound = sound]
  BY DEF BeginReview
<1>2. review' = [pc |-> "lookup", named |-> named, custom |-> custom, sound |-> sound,
                 brief |-> None, calls |-> 0]
  BY <1>1 DEF Waiting
<1>3. given'.source = "none" /\ UNCHANGED <<approved, revisions>>
  BY DEF BeginReview, NoReview
<1>. QED  BY <1>2, <1>3 DEF ReviewConsistent, ReviewTypeOK, GradesGrounded, ReviewAt, Maybe

LEMMA LookUpBriefSound ==
  ASSUME ReviewConsistent, LookUpBrief
  PROVE  ReviewConsistent'
<1>1. CASE Reviewed(NoReview)
  BY <1>1, UngradedIsSound DEF NoReview
<1>2. CASE ~Reviewed(NoReview)
  <2>1. PICK brief \in Catalogued :
          /\ review.named \in {None, brief}
          /\ review' = [Waiting EXCEPT !.named = review.named, !.brief = brief,
                             !.pc = IF review.sound THEN "ask" ELSE "fall"]
          /\ UNCHANGED <<approved, revisions, given>>
    BY <1>2 DEF LookUpBrief
  <2>2. brief \in Maybe(Briefs) /\ review.named \in Maybe(Briefs)
    BY DEF Catalogued, ReviewConsistent, ReviewTypeOK
  <2>3. PICK pc \in {"ask", "fall"} :
          review' = [pc |-> pc, named |-> review.named, custom |-> FALSE, sound |-> TRUE,
                     brief |-> brief, calls |-> 0]
    BY <2>1 DEF Waiting
  <2>4. GradesGrounded'
    BY <2>1 DEF ReviewConsistent, GradesGrounded
  <2>5. PICK named \in Maybe(Briefs) : named = review.named /\ named \in {None, brief}
    BY <2>1, <2>2
  <2>6. review' = [pc |-> pc, named |-> named, custom |-> FALSE, sound |-> TRUE,
                   brief |-> brief, calls |-> 0]
    BY <2>3, <2>5
  <2>7. UNCHANGED <<approved, revisions, given>>
    BY <2>1
  <2>8. ReviewTypeOK'
    BY <2>2, <2>6, <2>7 DEF ReviewConsistent, ReviewTypeOK
  <2>. QED  BY <2>4, <2>5, <2>6, <2>8 DEF ReviewConsistent, ReviewAt
<1>. QED  BY <1>1, <1>2

\* A step on the way that keeps the two briefs keeps the invariant.
LEMMA AskingOn ==
  ASSUME ReviewConsistent, ReviewAt("ask"), NEW pc \in {"ask", "fall"}, NEW calls \in 0..2,
         pc = "ask" => calls < 2,
         review' = [review EXCEPT !.calls = calls, !.pc = pc],
         UNCHANGED <<approved, revisions, given>>
  PROVE  ReviewConsistent'
BY DEF ReviewConsistent, ReviewTypeOK, GradesGrounded, ReviewAt

LEMMA AskModelSound ==
  ASSUME ReviewConsistent, AskModel
  PROVE  ReviewConsistent'
<1>1. ReviewAt("ask") /\ review.named \in {None, review.brief} /\ review.brief \in Maybe(Briefs)
  BY DEF AskModel, ReviewConsistent, ReviewTypeOK, ReviewAt
<1>2. PICK a \in Answers :
        \/ /\ Accepted(a, review.brief)
           /\ Reviewed(Given("ai", a))
        \/ /\ review' = [review EXCEPT !.calls = @ + 1,
                           !.pc = IF review.calls = 0 THEN "ask" ELSE "fall"]
           /\ UNCHANGED <<approved, revisions, given>>
  BY DEF AskModel
<1>3. CASE Accepted(a, review.brief) /\ Reviewed(Given("ai", a))
  <2>1. given' = [source |-> "ai", named |-> review.named, brief |-> review.brief, answer |-> a]
    BY <1>3 DEF Reviewed, Given
  <2>2. GradesGrounded'
    <3>1. /\ given'.answer = a /\ given'.brief = review.brief
          /\ given'.named \in {None, given'.brief}
      BY <1>1, <2>1
    <3>. QED  BY <1>1, <1>3, <3>1, AcceptedIsGrounded DEF GradesGrounded
  <2>. QED  BY <1>3, <2>1, <2>2 DEF ReviewConsistent, ReviewTypeOK, Reviewed, Waiting, Maybe
<1>4. CASE ~(Accepted(a, review.brief) /\ Reviewed(Given("ai", a)))
  <2>1. review.calls \in {0, 1}
    BY <1>1 DEF ReviewConsistent, ReviewTypeOK
  <2>2. review' = [review EXCEPT !.calls = review.calls + 1,
                     !.pc = IF review.calls = 0 THEN "ask" ELSE "fall"]
    BY <1>2, <1>4
  <2>4. \/ review' = [review EXCEPT !.calls = 1, !.pc = "ask"]
        \/ review' = [review EXCEPT !.calls = 2, !.pc = "fall"]
    <3>1. CASE review.calls = 0
      BY <2>2, <3>1
    <3>2. CASE review.calls = 1
      BY <2>2, <3>2
    <3>. QED  BY <2>1, <3>1, <3>2
  <2>3. UNCHANGED <<approved, revisions, given>>
    BY <1>2, <1>4
  <2>. QED  BY <1>1, <2>3, <2>4, AskingOn
<1>. QED  BY <1>3, <1>4

\* A grade that is answered stands on the design and on the brief that the client named.
THEOREM GradesAreGrounded == ReviewSpec => []GradesGrounded
<1>1. ReviewInit => ReviewConsistent
  BY DEF ReviewInit, ReviewConsistent, ReviewTypeOK, GradesGrounded, Waiting, NoReview,
         ReviewAt, Maybe
<1>2. ReviewConsistent /\ [ReviewNext]_reviewVars => ReviewConsistent'
  <2>. SUFFICES ASSUME ReviewConsistent, [ReviewNext]_reviewVars PROVE ReviewConsistent'
    OBVIOUS
  <2>1. CASE BeginReview
    BY <2>1, BeginReviewSound
  <2>2. CASE LookUpBrief
    BY <2>2, LookUpBriefSound
  <2>3. CASE AskModel
    BY <2>3, AskModelSound
  <2>4. CASE FailModel
    <3>1. review.calls \in 0..2 /\ review' = [review EXCEPT !.calls = review.calls, !.pc = "fall"]
      BY <2>4 DEF FailModel, ReviewConsistent, ReviewTypeOK
    <3>. QED  BY <2>4, <3>1, AskingOn DEF FailModel
  <2>5. CASE FallBack
    BY <2>5, UngradedIsSound DEF FallBack, Unavailable, Given
  <2>6. CASE ReviseBrief
    BY <2>6 DEF ReviseBrief, ReviewConsistent, ReviewTypeOK, GradesGrounded, ReviewAt, Maybe
  <2>7. CASE UNCHANGED reviewVars
    BY <2>7 DEF reviewVars, ReviewConsistent, ReviewTypeOK, GradesGrounded, ReviewAt
  <2>. QED  BY <2>1, <2>2, <2>3, <2>4, <2>5, <2>6, <2>7 DEF ReviewNext, Assess
<1>3. ReviewConsistent => GradesGrounded
  BY DEF ReviewConsistent
<1>. QED  BY <1>1, <1>2, <1>3, PTL DEF ReviewSpec

=============================================================================
