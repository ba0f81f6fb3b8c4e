--------------------------- MODULE AnalyticsFlush ---------------------------
(***************************************************************************)
(* Counters of one day on their way from Redis to S3                       *)
(* (services/s3_analytics_aggregator.py, and the loop of main.py that runs *)
(* it in every server process).  Counting goes to a Redis hash; a flush    *)
(* renames the hash, merges it into the day's S3 object if the object is   *)
(* still the one it read, and deletes it.                                  *)
(*                                                                         *)
(* A batch of observations is a model value, and a hash is the set of the  *)
(* batches it has counted; the object says how often each was merged.      *)
(***************************************************************************)
EXTENDS Servers, Naturals, FiniteSets

CONSTANTS
  Batches,       \* observations, each counted at once
  MaxMerges,     \* tries of a merge (range(4) in the code)
  MaxFaults      \* bound: failures


\* The two hashes of a day, which go to the same object.
Kinds == {"events", "latency"}

VARIABLES
  hot,           \* what each hash of the day has counted
  rotated,       \* renamed hashes: [kind, batches]; the batches tell them apart
  object,        \* the day's object in S3: how often it counts each batch
  revision,      \* its ETag
  lock,          \* the flush lock: its owner
  flusher,       \* the flush of each process
  report,        \* a latency report that is being made
  faults,        \* failures that have happened
  recorded,      \* history: batches that were counted
  excused        \* history: batches that may be merged twice

flushVars == <<hot, rotated, object, revision, lock, flusher, report, faults,
               recorded, excused>>

Rotated == [kind : Kinds, batches : SUBSET Batches]

ASSUME FlushAssumption ==
  /\ MaxMerges \in Nat \ {0} /\ MaxFaults \in Nat
  /\ None \notin Rotated \cup Handlers

Totals == [Batches -> Nat]

Flusher == [pc : {"idle", "scan", "rotate", "load", "get", "put", "drop", "rescan",
                  "retry", "release"},
            kinds : SUBSET Kinds,          \* hashes it still has to rename
            left : SUBSET Rotated,         \* renamed hashes it still has to merge
            snap : Maybe(Rotated),         \* the one it merges
            again : BOOLEAN,               \* it retries what an earlier flush left
            seen : Totals, tag : Nat,      \* the object as it read it
            tries : Nat]

Zero == [b \in Batches |-> 0]

IdleFlusher == [pc |-> "idle", kinds |-> {}, left |-> {}, snap |-> None, again |-> FALSE,
                seen |-> Zero, tag |-> 0, tries |-> 0]

NoReport == [begun |-> FALSE, object |-> Zero]

FlushTypeOK ==
  /\ hot \in [Kinds -> SUBSET Batches]
  /\ rotated \subseteq Rotated
  /\ object \in Totals /\ revision \in Nat
  /\ lock \in Maybe(Handlers)
  /\ flusher \in [Handlers -> Flusher]
  /\ report \in [begun : BOOLEAN, object : Totals]
  /\ faults \in Nat
  /\ recorded \subseteq Batches /\ excused \subseteq Batches

-----------------------------------------------------------------------------
(* Counting *)

\* aggregate_events and record_api_latency: one transaction on today's hash.
Record(b, k) ==
  /\ b \notin recorded
  /\ recorded' = recorded \cup {b}
  /\ hot' = [hot EXCEPT ![k] = @ \cup {b}]
  /\ UNCHANGED <<rotated, object, revision, lock, flusher, report, faults, excused>>

-----------------------------------------------------------------------------
(* flush_pending, one call a step *)

FlusherAt(h, pc) == flusher[h].pc = pc

\* After the last hash of a pass the next pass begins.
Pass(t) ==
  IF t.pc = "rotate" /\ t.kinds = {} THEN [t EXCEPT !.pc = "rescan"]
  ELSE IF t.pc = "retry" /\ t.left = {} THEN [t EXCEPT !.pc = "release"] ELSE t

Proceed(h, t) == flusher' = [flusher EXCEPT ![h] = Pass(t)]

OnlyFlusher ==
  UNCHANGED <<hot, rotated, object, revision, lock, report, faults, recorded, excused>>

\* The loop wakes up and takes the lock; when it is taken, it sleeps again.
AcquireFlush(h) ==
  /\ FlusherAt(h, "idle")
  /\ lock = None
  /\ lock' = h
  /\ Proceed(h, [IdleFlusher EXCEPT !.pc = "scan"])
  /\ UNCHANGED <<hot, rotated, object, revision, report, faults, recorded, excused>>

ScanHashes(h) ==
  /\ FlusherAt(h, "scan")
  /\ Proceed(h, [flusher[h] EXCEPT !.pc = "rotate", !.kinds = {k \in Kinds : hot[k] # {}}])
  /\ OnlyFlusher

\* Latency comes after events; a hash that another flush renamed makes it stop.
RotateHash(h) ==
  /\ FlusherAt(h, "rotate")
  /\ \E k \in flusher[h].kinds :
       /\ k = "latency" => "events" \notin flusher[h].kinds
       /\ IF hot[k] = {}
          THEN /\ Proceed(h, [flusher[h] EXCEPT !.pc = "release"])
               /\ UNCHANGED <<hot, rotated>>
          ELSE LET snap == [kind |-> k, batches |-> hot[k]] IN
               /\ hot' = [hot EXCEPT ![k] = {}]
               /\ rotated' = rotated \cup {snap}
               /\ Proceed(h, [flusher[h] EXCEPT !.pc = "load", !.snap = snap,
                                                !.kinds = @ \ {k}])
  /\ UNCHANGED <<object, revision, lock, report, faults, recorded, excused>>

\* Mutant: hashes that were renamed earlier are not looked for.
ScanNothing(h) ==
  /\ FlusherAt(h, "rescan")
  /\ Proceed(h, [flusher[h] EXCEPT !.pc = "release"])
  /\ OnlyFlusher

\* What a flush that failed or stopped has left behind.
ScanRotated(h) ==
  /\ FlusherAt(h, "rescan")
  /\ Proceed(h, [flusher[h] EXCEPT !.pc = "retry", !.left = rotated, !.again = TRUE])
  /\ OnlyFlusher

\* _flush_snapshot is done with this one.
Done(t) == [t EXCEPT !.pc = IF t.again THEN "retry" ELSE "rotate", !.snap = None,
                     !.tries = 0, !.seen = Zero, !.tag = 0]

\* Another flush may be at the same hash, or have deleted it.
Load(h, t) ==
  LET snap == t.snap IN
  /\ Proceed(h, IF snap \in rotated THEN [t EXCEPT !.pc = "get"] ELSE Done(t))
  /\ excused' = IF \E k \in Handlers \ {h} : flusher[k].snap = snap
                THEN excused \cup snap.batches ELSE excused
  /\ UNCHANGED <<hot, rotated, object, revision, lock, report, faults, recorded>>

LoadRenamed(h) ==
  /\ FlusherAt(h, "load")
  /\ Load(h, flusher[h])

LoadRotated(h) ==
  /\ FlusherAt(h, "retry")
  /\ \E s \in flusher[h].left : Load(h, [flusher[h] EXCEPT !.snap = s, !.left = @ \ {s}])

GetObject(h) ==
  /\ FlusherAt(h, "get")
  /\ Proceed(h, [flusher[h] EXCEPT !.pc = "put", !.seen = object, !.tag = revision])
  /\ OnlyFlusher

\* _merge_snapshot
MergedTotals(h) ==
  [b \in Batches |->
     IF b \in flusher[h].snap.batches THEN flusher[h].seen[b] + 1 ELSE flusher[h].seen[b]]

Store(h) ==
  /\ object' = MergedTotals(h)
  /\ revision' = revision + 1

\* Mutant: a put without condition.
PutObjectAnyway(h) ==
  /\ FlusherAt(h, "put")
  /\ Store(h)
  /\ Proceed(h, [flusher[h] EXCEPT !.pc = "drop", !.seen = Zero, !.tag = 0])
  /\ UNCHANGED <<hot, rotated, lock, report, faults, recorded, excused>>

\* IfMatch or IfNoneMatch.
PutObject(h) ==
  /\ FlusherAt(h, "put")
  /\ flusher[h].tag = revision
  /\ Store(h)
  /\ Proceed(h, [flusher[h] EXCEPT !.pc = "drop", !.seen = Zero, !.tag = 0])
  /\ UNCHANGED <<hot, rotated, lock, report, faults, recorded, excused>>

\* The object has changed: read it again, a few times.
Refused(h) ==
  LET tries == flusher[h].tries + 1 IN
  Proceed(h, IF tries = MaxMerges THEN Done(flusher[h])
             ELSE [flusher[h] EXCEPT !.pc = "get", !.tries = tries, !.seen = Zero,
                                     !.tag = 0])

ConflictedPut(h) ==
  /\ FlusherAt(h, "put")
  /\ flusher[h].tag # revision
  /\ Refused(h)
  /\ OnlyFlusher

DropRotated(h) ==
  /\ FlusherAt(h, "drop")
  /\ rotated' = rotated \ {flusher[h].snap}
  /\ Proceed(h, Done(flusher[h]))
  /\ UNCHANGED <<hot, object, revision, lock, report, faults, recorded, excused>>

\* The lock is deleted, whoever holds it by now.
ReleaseFlush(h) ==
  /\ FlusherAt(h, "release")
  /\ lock' = None
  /\ Proceed(h, IdleFlusher)
  /\ UNCHANGED <<hot, rotated, object, revision, report, faults, recorded, excused>>

Flush(h) ==
  \/ AcquireFlush(h)
  \/ ScanHashes(h)
  \/ RotateHash(h)
  \/ ScanRotated(h)
  \/ LoadRenamed(h)
  \/ LoadRotated(h)
  \/ GetObject(h)
  \/ PutObject(h)
  \/ ConflictedPut(h)
  \/ DropRotated(h)
  \/ ReleaseFlush(h)

-----------------------------------------------------------------------------
(* Failures *)

Fault(f) == f \in Faults /\ faults < MaxFaults /\ faults' = faults + 1

\* A hash that was merged and not deleted will be merged again.
Undeleted(h) ==
  excused' = IF FlusherAt(h, "drop") THEN excused \cup flusher[h].snap.batches ELSE excused

\* A call raises: the lock is deleted on the way out.
FailFlush(h) ==
  /\ Fault("abort")
  /\ flusher[h].pc \notin {"idle", "release"}
  /\ Undeleted(h)
  /\ Proceed(h, [IdleFlusher EXCEPT !.pc = "release"])
  /\ UNCHANGED <<hot, rotated, object, revision, lock, report, recorded>>

\* The process stops and starts again: the lock stays.
StopFlush(h) ==
  /\ Fault("abort")
  /\ ~FlusherAt(h, "idle")
  /\ Undeleted(h)
  /\ Proceed(h, IdleFlusher)
  /\ UNCHANGED <<hot, rotated, object, revision, lock, report, recorded>>

\* The answer to the put is lost, and the repeated put meets its own ETag.
RepeatPut(h) ==
  /\ Fault("resend")
  /\ FlusherAt(h, "put")
  /\ flusher[h].tag = revision
  /\ Store(h)
  /\ excused' = excused \cup flusher[h].snap.batches
  /\ Refused(h)
  /\ UNCHANGED <<hot, rotated, lock, report, recorded>>

Expire ==
  /\ lock' = None
  /\ UNCHANGED <<hot, rotated, object, revision, flusher, report, recorded, excused>>

\* After 55 seconds: when its process has stopped,
ExpireFlush == lock # None /\ FlusherAt(lock, "idle") /\ Expire /\ UNCHANGED faults

\* or in the middle of a flush that is slow.
ExpireEarly == lock # None /\ ~FlusherAt(lock, "idle") /\ Fault("slow") /\ Expire

-----------------------------------------------------------------------------
(* summarize_api_latency: the object, and then what is hot *)

ReadObject ==
  /\ ~report.begun
  /\ report' = [begun |-> TRUE, object |-> object]
  /\ UNCHANGED <<hot, rotated, object, revision, lock, flusher, faults, recorded, excused>>

\* Mutant: renamed hashes are counted too.
ShownWithRotated(b) ==
  report.object[b] + (IF b \in hot["latency"] \/ \E s \in rotated : b \in s.batches
                      THEN 1 ELSE 0)

Shown(b) == report.object[b] + (IF b \in hot["latency"] THEN 1 ELSE 0)

\* The report shows every batch as often as Shown says.
ReadHot ==
  /\ report.begun
  /\ report' = NoReport
  /\ UNCHANGED <<hot, rotated, object, revision, lock, flusher, faults, recorded, excused>>

-----------------------------------------------------------------------------

FlushInit ==
  /\ hot = [k \in Kinds |-> {}]
  /\ rotated = {}
  /\ object = Zero /\ revision = 0
  /\ lock = None
  /\ flusher = [h \in Handlers |-> IdleFlusher]
  /\ report = NoReport
  /\ faults = 0
  /\ recorded = {} /\ excused = {}

FlushNext ==
  \/ \E b \in Batches, k \in Kinds : Record(b, k)
  \/ \E h \in Handlers : Flush(h) \/ FailFlush(h) \/ StopFlush(h) \/ RepeatPut(h)
  \/ ExpireFlush
  \/ ExpireEarly
  \/ ReadObject
  \/ ReadHot

FlushSpec == FlushInit /\ [][FlushNext]_flushVars

\* The loop of each process goes on, and Redis lets locks expire.
FlushFairness ==
  /\ \A h \in Handlers : WF_flushVars(Flush(h))
  /\ WF_flushVars(ExpireFlush)

-----------------------------------------------------------------------------
(* Safety *)

Held(b) == (\E k \in Kinds : b \in hot[k]) \/ (\E s \in rotated : b \in s.batches)

NothingLost == \A b \in recorded : object[b] > 0 \/ Held(b)

OnlyExcusedTwice == \A b \in Batches : object[b] <= 1 \/ b \in excused

\* Whatever is counted stays in Redis until the object counts it, in spite of flushes
\* that overlap, fail or stop, and of locks that expire; and it is counted twice only when
\* a flush ended between its put and its delete, when the answer of a put was lost, or
\* when two flushes were at the same hash (flush_pending's renames and conditional puts).
CountedOnce == NothingLost /\ OnlyExcusedTwice

\* A report that is made while counters move shows none of them twice, unless it may have
\* been merged twice (_collect_latency_counts reads the object first, and no renamed hash).
ReportNeverOver ==
  report.begun => \A b \in Batches : Shown(b) <= 1 \/ b \in excused

\* Everything that is counted reaches the object (flush_pending's second pass).
Exported == \A b \in Batches : b \in recorded ~> object[b] > 0

-----------------------------------------------------------------------------
(* The inductive invariant *)

\* A flush is at a renamed hash, which is there until it deletes it, or its batches are
\* excused; it has read the object that it may overwrite, and deletes what the object
\* counts.
FlusherSound(t) ==
  /\ t.snap # None <=> t.pc \in {"load", "get", "put", "drop"}
  /\ t.snap # None =>
       /\ t.snap.batches \subseteq recorded
       /\ t.snap \in rotated \/ t.snap.batches \subseteq excused
  /\ t.pc = "put" => t.tag <= revision /\ (t.tag = revision => t.seen = object)
  /\ t.pc = "drop" => \A b \in t.snap.batches : object[b] > 0

\* A batch that is hot is in one hash, and nowhere else.
HotFresh ==
  \A k \in Kinds : \A b \in hot[k] :
    /\ b \in recorded /\ object[b] = 0
    /\ \A j \in Kinds \ {k} : b \notin hot[j]
    /\ \A s \in rotated : b \notin s.batches
    /\ \A h \in Handlers : flusher[h].snap # None => b \notin flusher[h].snap.batches

\* Renamed hashes share no batch, and the object does not count theirs, until one is about
\* to be deleted.
RotatedApart ==
  \A s \in rotated :
    /\ s.batches \subseteq recorded
    /\ \A r \in rotated \ {s} : s.batches \cap r.batches = {}
    /\ \A b \in s.batches \ excused :
         object[b] = 0 \/ \E h \in Handlers : FlusherAt(h, "drop") /\ flusher[h].snap = s

\* Flushes at the same hash are excused.
SharedExcused ==
  \A g, h \in Handlers :
    g # h /\ flusher[g].snap # None /\ flusher[g].snap = flusher[h].snap =>
      flusher[g].snap.batches \subseteq excused

\* Reports lag behind the object.
ReportBehind == report.begun => \A b \in Batches : report.object[b] <= object[b]

FlushConsistent ==
  /\ FlushTypeOK
  /\ HotFresh
  /\ RotatedApart
  /\ \A h \in Handlers : FlusherSound(flusher[h])
  /\ SharedExcused
  /\ \A b \in Batches : object[b] > 0 => b \in recorded
  /\ CountedOnce
  /\ ReportBehind

=============================================================================
