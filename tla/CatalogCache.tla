---------------------------- MODULE CatalogCache ----------------------------
(***************************************************************************)
(* The cache-aside of the public problem catalogue                         *)
(* (services/problem_catalog_cache.py), as GET /all-problems uses it: the  *)
(* page of one filter is cached under a lock in Redis, and the loader of a *)
(* page asks the same cache for the count, which has a lock of its own.    *)
(*                                                                         *)
(* A page is the edition of the catalogue that its rows come from, with    *)
(* that of its count; the rows of a failed scan are an empty page.         *)
(***************************************************************************)
EXTENDS Servers, Naturals, FiniteSets

CONSTANTS
  MaxEditions,   \* bound: editions of the catalogue
  MaxReads,      \* bound: requests
  MaxPolls,      \* looks at the cache that fit into a wait: 5 s, one every 50 ms
  MaxOutages     \* bound: failures

ASSUME CacheAssumption ==
  MaxEditions \in Nat \ {0} /\ MaxReads \in Nat /\ MaxPolls \in Nat
  /\ MaxOutages \in Nat /\ None \notin Nat \cup Handlers

Keys == {"page", "count"}

Editions == 1..MaxEditions

\* Rows of a scan that failed, for which the table answers an empty page.
Nothing == 0

VARIABLES
  edition,       \* what the problems table holds now
  count,         \* cached count
  page,          \* cached page
  cacheLock,     \* the lock of each key: its owner
  reader,        \* the request of each handler
  reads,         \* requests that have arrived
  outages,       \* failures that have happened
  overtaken,     \* history: requests whose lock expired under them
  late           \* history: keys whose lock expired under a request

cacheVars == <<edition, count, page, cacheLock, reader, reads, outages,
               overtaken, late>>

Page == [rows : Editions \cup {Nothing}, total : Maybe(Editions)]

Reader == [pc : {"idle", "read", "lock", "wait", "relock", "reread", "load", "write",
                 "release"},
           key : Keys,                 \* the key it is at
           holds : SUBSET Keys,        \* locks it has taken
           polls : Nat,
           rows : Maybe(Editions \cup {Nothing}),
           total : Maybe(Editions)]

Resting == [pc |-> "idle", key |-> "page", holds |-> {}, polls |-> 0,
            rows |-> None, total |-> None]

CacheTypeOK ==
  /\ edition \in Editions
  /\ count \in Maybe(Editions)
  /\ page \in Maybe(Page)
  /\ cacheLock \in [Keys -> Maybe(Handlers)]
  /\ reader \in [Handlers -> Reader]
  /\ reads \in Nat /\ outages \in Nat
  /\ overtaken \subseteq Handlers \X Keys /\ late \subseteq Keys

-----------------------------------------------------------------------------
(* Steps of a request *)

ReaderAt(h, pc) == reader[h].pc = pc

Continue(h, r) == reader' = [reader EXCEPT ![h] = r]

GoOn(h, pc) == Continue(h, [reader[h] EXCEPT !.pc = pc])

OnlyReader == UNCHANGED <<edition, count, page, cacheLock, reads, overtaken, late>>

Cached(k) == IF k = "page" THEN page ELSE count

\* A call to Redis may fail, and a scan of the table too.
Fails(f) == f \in Faults /\ outages < MaxOutages /\ outages' = outages + 1

Works == UNCHANGED outages

\* _cache_aside returns: a page is the answer, and a count completes the page, which is
\* written where its lock was taken and the count is known.
Returned(r, total) ==
  IF r.key = "page" THEN Resting
  ELSE [r EXCEPT !.key = "page", !.total = total, !.holds = @ \ {"count"},
                 !.pc = IF "page" \notin r.holds THEN "idle"
                        ELSE IF total = None THEN "release" ELSE "write"]

\* A request that ends keeps nothing.
Reply(h, r) == Continue(h, IF r.pc = "idle" THEN Resting ELSE r)

Arrive(h) ==
  /\ ReaderAt(h, "idle")
  /\ reads < MaxReads
  /\ reads' = reads + 1
  /\ GoOn(h, "read") /\ Works
  /\ overtaken' = {o \in overtaken : o[1] # h}
  /\ UNCHANGED <<edition, count, page, cacheLock, late>>

Missed(k) == (Cached(k) = None /\ Works) \/ Fails("abort")

\* The cached value, or the next step; a failed read is a miss.
Lookup(h, k, miss) ==
  \/ Cached(k) # None /\ Works /\ Reply(h, Returned(reader[h], count))
  \/ Missed(k) /\ Continue(h, miss)

ReadEntry(h) ==
  /\ ReaderAt(h, "read")
  /\ Lookup(h, reader[h].key, [reader[h] EXCEPT !.pc = "lock", !.polls = 0])
  /\ OnlyReader

\* SET NX EX: without Redis the request loads, and where another has the lock it waits.
TakeLock(h) ==
  LET k == reader[h].key IN
  /\ reader[h].pc \in {"lock", "relock"}
  /\ \/ /\ cacheLock[k] = None /\ Works
        /\ cacheLock' = [cacheLock EXCEPT ![k] = h]
        /\ Continue(h, [reader[h] EXCEPT !.pc = "reread", !.holds = @ \cup {k}])
     \/ cacheLock[k] # None /\ Works /\ GoOn(h, "wait") /\ UNCHANGED cacheLock
     \/ Fails("abort") /\ GoOn(h, "load") /\ UNCHANGED cacheLock
  /\ UNCHANGED <<edition, count, page, reads, overtaken, late>>

\* _wait_for_cache_or_lock: every 50 milliseconds it reads, and tries the lock again.
Poll(h) ==
  /\ ReaderAt(h, "wait") /\ reader[h].polls < MaxPolls
  /\ Lookup(h, reader[h].key, [reader[h] EXCEPT !.pc = "relock", !.polls = @ + 1])
  /\ OnlyReader

\* Mutant: it waits for as long as the lock is held.
WaitForever(h) ==
  /\ ReaderAt(h, "wait")
  /\ cacheLock[reader[h].key] = None
  /\ GoOn(h, "load") /\ Works
  /\ OnlyReader

\* After five seconds, or fewer looks that were slow, it loads without the lock.
GiveUp(h) ==
  /\ ReaderAt(h, "wait")
  /\ GoOn(h, "load") /\ Works
  /\ OnlyReader

\* _load_under_lock: a value that has come meanwhile is returned once the lock is free.
Reread(h) ==
  LET k == reader[h].key IN
  /\ ReaderAt(h, "reread")
  /\ \/ /\ Cached(k) # None /\ Works
        /\ Continue(h, [reader[h] EXCEPT !.pc = "release",
                                         !.total = IF k = "count" THEN count ELSE @])
     \/ Missed(k) /\ GoOn(h, "load")
  /\ OnlyReader

\* load_page scans the table, get_problems_page making no rows of a failure, and asks the
\* cache for the count.
LoadPage(h) ==
  /\ ReaderAt(h, "load") /\ reader[h].key = "page"
  /\ \E rows \in {edition, Nothing} :
       /\ IF rows = edition THEN Works ELSE Fails("abort")
       /\ Continue(h, [reader[h] EXCEPT !.pc = "read", !.key = "count", !.rows = rows])
  /\ OnlyReader

\* Mutant: what was loaded without the lock is written too.
LoadCountToWrite(h) ==
  /\ ReaderAt(h, "load") /\ reader[h].key = "count"
  /\ Continue(h, [reader[h] EXCEPT !.total = edition, !.pc = "write"]) /\ Works
  /\ OnlyReader

\* count_problems, which answers None of a failure.
LoadCount(h) ==
  /\ ReaderAt(h, "load") /\ reader[h].key = "count"
  /\ \E total \in {edition, None} :
       /\ IF total = edition THEN Works ELSE Fails("abort")
       /\ IF "count" \in reader[h].holds
          THEN Continue(h, [reader[h] EXCEPT
                 !.total = total, !.pc = IF total = None THEN "release" ELSE "write"])
          ELSE Reply(h, Returned(reader[h], total))
  /\ OnlyReader

\* set_page and write_count: a write that fails is only logged.
WriteEntry(h) ==
  LET k == reader[h].key IN
  /\ ReaderAt(h, "write")
  /\ \/ /\ k = "page" /\ Works
        /\ page' = [rows |-> reader[h].rows, total |-> reader[h].total]
        /\ UNCHANGED count
     \/ k = "count" /\ Works /\ count' = reader[h].total /\ UNCHANGED page
     \/ Fails("abort") /\ UNCHANGED <<page, count>>
  /\ GoOn(h, "release")
  /\ UNCHANGED <<edition, cacheLock, reads, overtaken, late>>

\* Only the owner releases; a failure leaves the lock to expire.
ReleaseLock(h) ==
  LET k == reader[h].key IN
  /\ ReaderAt(h, "release")
  /\ \/ /\ cacheLock' = IF cacheLock[k] = h THEN [cacheLock EXCEPT ![k] = None]
                        ELSE cacheLock
        /\ Works
     \/ Fails("abort") /\ UNCHANGED cacheLock
  /\ Reply(h, Returned(reader[h], reader[h].total))
  /\ overtaken' = overtaken \ {<<h, k>>}
  /\ UNCHANGED <<edition, count, page, reads, late>>

Read(h) ==
  \/ ReadEntry(h)
  \/ TakeLock(h)
  \/ Poll(h)
  \/ GiveUp(h)
  \/ Reread(h)
  \/ LoadPage(h)
  \/ LoadCount(h)
  \/ WriteEntry(h)
  \/ ReleaseLock(h)

\* The process stops: its locks stay.
StopRead(h) ==
  /\ Fails("abort")
  /\ ~ReaderAt(h, "idle")
  /\ Continue(h, Resting)
  /\ OnlyReader

-----------------------------------------------------------------------------
(* Time and the table *)

Edit ==
  /\ edition < MaxEditions
  /\ edition' = edition + 1
  /\ UNCHANGED <<count, page, cacheLock, reader, reads, outages, overtaken, late>>

\* After a day.
ExpireEntry ==
  /\ \/ page # None /\ page' = None /\ UNCHANGED count
     \/ count # None /\ count' = None /\ UNCHANGED page
  /\ UNCHANGED <<edition, cacheLock, reader, reads, outages, overtaken, late>>

\* After a minute: the lock of a request that has gone, or of one that is slow.
ExpireLock(k) ==
  /\ cacheLock[k] # None
  /\ cacheLock' = [cacheLock EXCEPT ![k] = None]
  /\ \/ /\ k \notin reader[cacheLock[k]].holds
        /\ UNCHANGED <<outages, overtaken, late>>
     \/ /\ k \in reader[cacheLock[k]].holds
        /\ Fails("slow")
        /\ overtaken' = overtaken \cup {<<cacheLock[k], k>>}
        /\ late' = late \cup {k}
  /\ UNCHANGED <<edition, count, page, reader, reads>>

CacheRest ==
  /\ reads = MaxReads
  /\ \A h \in Handlers : ReaderAt(h, "idle")
  /\ UNCHANGED cacheVars

CacheInit ==
  /\ edition = 1
  /\ count = None /\ page = None
  /\ cacheLock = [k \in Keys |-> None]
  /\ reader = [h \in Handlers |-> Resting]
  /\ reads = 0 /\ outages = 0
  /\ overtaken = {} /\ late = {}

CacheNext ==
  \/ \E h \in Handlers : Arrive(h) \/ Read(h) \/ StopRead(h)
  \/ Edit
  \/ ExpireEntry
  \/ \E k \in Keys : ExpireLock(k)
  \/ CacheRest

CacheSpec == CacheInit /\ [][CacheNext]_cacheVars

\* Requests go on; nothing is assumed of locks, which may outlive every wait.
CacheFairness == \A h \in Handlers : WF_cacheVars(Read(h))

-----------------------------------------------------------------------------
(* Safety *)

\* The edition that a cached value was loaded from.
Loaded(k) == IF k = "page" THEN page.rows ELSE count

\* Until a lock expires under its holder, a cached page or count never gives way to one of
\* an older edition: all loads under the lock come one after the other
\* (_load_under_lock), and what is loaded without it is not written
\* (_wait_for_cache_or_lock).
NewestKept ==
  [][\A k \in Keys :
       /\ k \notin late
       /\ Cached(k) # None /\ Cached(k)' # None
       /\ Loaded(k)' # Nothing
       => Loaded(k)' >= Loaded(k)]_cacheVars

\* Every request ends, whatever becomes of the locks it waits for
\* (_wait_for_cache_or_lock).
Answered == \A h \in Handlers : ~ReaderAt(h, "idle") ~> ReaderAt(h, "idle")

\* What is cached has come from the table.  The code does not keep to it: a page without
\* rows, made of a failed scan, is cached where the count is known.
CachedFromTable == page # None => page.rows \in Editions

-----------------------------------------------------------------------------
(* The inductive invariant *)

\* What a request loads, it loads after it took the lock: the lock of a key is its own
\* until that expires under it, and what it is about to write under the lock is as new as
\* what is cached.
ReaderSound(h, r) ==
  /\ r.rows # None => r.rows <= edition
  /\ r.total # None => r.total <= edition
  /\ r.key = "page" /\ r.pc \notin {"write", "release"} => r.rows = None
  /\ r.key = "count" => r.rows # None
  /\ r.pc = "write" => r.key \in r.holds /\ r.rows # None /\ r.total # None
  /\ \A k \in r.holds : k \in late \/ cacheLock[k] = h
  /\ "page" \in r.holds \ late /\ page # None /\ r.rows # None =>
       r.rows = Nothing \/ r.rows >= page.rows
  /\ "count" \in r.holds \ late /\ count # None /\ r.pc = "write" /\ r.key = "count" =>
       r.total >= count

CacheConsistent ==
  /\ CacheTypeOK
  /\ count # None => count <= edition
  /\ page # None => page.rows <= edition
  /\ \A h \in Handlers : ReaderSound(h, reader[h])

=============================================================================
