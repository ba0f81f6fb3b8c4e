--------------------------- MODULE RecordsProofs ---------------------------
(***************************************************************************)
(* Proofs about DiagramPublishing, QueryBackfill and DiagramLists, for any *)
(* number of processes, records, requests and runs, and whichever faults   *)
(* happen.                                                                 *)
(***************************************************************************)
EXTENDS DiagramPublishing, QueryBackfill, DiagramLists, FiniteSetTheorems,
        WellFoundedInduction, TLAPS

-----------------------------------------------------------------------------
(* Publishing: one step of a request *)

\* The request of h goes on as t.
Pursues(h, t) ==
  /\ t \in Task /\ task' = [task EXCEPT ![h] = t]
  /\ t.op \in {"none", task[h].op}
  /\ t.alone => task[h].alone

\* Nothing is shown or linked anew where no publication runs.
ShowsNothing ==
  (\A k \in Handlers : ~Publishing(k)) =>
    source'.link \in {None, source.link} /\ (source'.public => source.public)

\* What the others know of the design and of the views stays true.
LeavesOthers(h) ==
  \/ Publishing(h)
  \/ task[h].op = "delete" /\ source'.status # "stored"
  \/ /\ source'.link = source.link
     /\ source'.status = "stored" => source.status = "stored"
     /\ \A s \in Snaps : snapshot'[s].views <= snapshot[s].views

LEMMA TaskAfter ==
  ASSUME PublishingTypeOK, NEW h \in Handlers, NEW t, Pursues(h, t)
  PROVE  /\ task' \in [Handlers -> Task]
         /\ task'[h] = t /\ \A k \in Handlers : k # h => task'[k] = task[k]
         /\ \A k \in Handlers : Publishing(k)' => Publishing(k)
         /\ \A k \in Handlers : Writing(k)' => Writing(k)
  BY DEF PublishingTypeOK, Pursues, Publishing, Writing

LEMMA OthersHide ==
  ASSUME PublishingConsistent, NEW h \in Handlers, NEW t, Pursues(h, t), ShowsNothing,
         NEW k \in Handlers, k # h
  PROVE  TaskShape(k)' /\ HideSound(k)'
<1>1. PublishingTypeOK /\ TaskShape(k) /\ HideSound(k)
  BY DEF PublishingConsistent
<1>2. task'[k] = task[k] /\ \A i \in Handlers : Publishing(i)' => Publishing(i)
  BY <1>1, TaskAfter
<1>3. TaskShape(k)'
  BY <1>1, <1>2 DEF TaskShape, Publishing
<1>4. HideSound(k)'
  BY <1>1, <1>2 DEF HideSound, ShowsNothing
<1>. QED  BY <1>3, <1>4

LEMMA OthersWrite ==
  ASSUME PublishingConsistent, ~excused, NEW h \in Handlers, NEW t, Pursues(h, t),
         LeavesOthers(h), snapshot' \in [Snaps -> Snapshot], NEW k \in Handlers, k # h
  PROVE  WriteSound(k)'
<1>1. PublishingTypeOK /\ TaskShape(k) /\ WriteSound(k) /\ WriteSound(h)
  BY DEF PublishingConsistent
<1>2. task'[k] = task[k] /\ \A i \in Handlers : Writing(i)' => Writing(i)
  BY <1>1, TaskAfter
<1>3. \A i \in Handlers : (Publishing(k) /\ Writing(i) => k = i)'
  BY <1>1, <1>2 DEF WriteSound, Publishing
<1>4. CASE Publishing(h)
  <2>1. ~Writing(k)
    BY <1>1, <1>4 DEF WriteSound
  <2>2. task[k].pc \in {"idle", "target", "hide", "hideSnapshot"}
    BY <1>1, <2>1 DEF PublishingTypeOK, Task, TaskShape, Writing
  <2>. QED  BY <1>2, <1>3, <2>2 DEF WriteSound
<1>5. CASE task[h].op = "delete" /\ source'.status # "stored"
  <2>1. ~Publishing(k)
    BY <1>1, <1>5 DEF WriteSound, Writing
  <2>2. task[k].pc \in {"idle", "target", "hide", "hideSnapshot", "read", "transact",
                        "rows"}
    BY <1>1, <2>1 DEF PublishingTypeOK, Task, TaskShape
  <2>. QED  BY <1>2, <1>3, <1>5, <2>2 DEF WriteSound
<1>6. CASE /\ source'.link = source.link
           /\ source'.status = "stored" => source.status = "stored"
           /\ \A s \in Snaps : snapshot'[s].views <= snapshot[s].views
  <2>1. task[k].pc = "snapshot" =>
          task[k].views + task[k].since >= snapshot'[task[k].snap].views
    <3>. SUFFICES ASSUME task[k].pc = "snapshot"
                  PROVE  task[k].views + task[k].since >= snapshot'[task[k].snap].views
      OBVIOUS
    <3>1. PICK s \in Snaps : s = task[k].snap
      BY <1>1 DEF TaskShape
    <3>2. snapshot'[s].views <= snapshot[s].views
          /\ task[k].views + task[k].since >= snapshot[s].views
      BY <1>1, <1>6, <3>1 DEF WriteSound
    <3>3. task[k].views \in Nat /\ task[k].since \in Nat /\ snapshot[s].views \in Nat
          /\ snapshot'[s].views \in Nat
      BY <1>1 DEF PublishingTypeOK, Task, Snapshot
    <3>. QED  BY <3>1, <3>2, <3>3
  <2>. QED  BY <1>1, <1>2, <1>3, <1>6, <2>1 DEF WriteSound
<1>. QED  BY <1>4, <1>5, <1>6 DEF LeavesOthers

\* A step of a request keeps the invariant if what it leaves is sound.
LEMMA PursueKeeps ==
  ASSUME PublishingConsistent, NEW h \in Handlers, NEW t, Pursues(h, t),
         source' \in Item, canvas' \in Maybe(Contents), minted' \subseteq Snaps,
         snapshot' \in [Snaps -> Snapshot], tasks' \in Nat, hidden' \in BOOLEAN,
         excused' \in BOOLEAN, answers' \subseteq Snaps,
         source'.status = "none" => source'.link = None,
         ShowsNothing, LeavesOthers(h), TaskShape(h)', HideSound(h)', UnpublishHides',
         hidden' => \A k \in Handlers : ~Publishing(k),
         excused => excused',
         ~excused' => /\ WriteSound(h)'
                      /\ answers' \subseteq {source'.link}
                      /\ \A s \in Snaps : snapshot'[s].public => Addressed(s)'
  PROVE  PublishingConsistent'
<1>1. PublishingTypeOK
  BY DEF PublishingConsistent
<1>2. PublishingTypeOK'
  BY <1>1, TaskAfter DEF PublishingTypeOK
<1>3. \A k \in Handlers : TaskShape(k)' /\ HideSound(k)'
  BY OthersHide
<1>4. ~excused' => \A k \in Handlers : WriteSound(k)'
  BY OthersWrite
<1>5. hidden' => \A k \in Handlers : ~Publishing(k)'
  BY <1>1, TaskAfter
<1>. QED  BY <1>2, <1>3, <1>4, <1>5 DEF PublishingConsistent

\* A step that writes no item.
LEMMA ReadKeeps ==
  ASSUME PublishingConsistent, NEW h \in Handlers, NEW t, Pursues(h, t),
         UNCHANGED <<source, canvas, snapshot, tasks, hidden>>,
         minted' \subseteq Snaps, excused' \in BOOLEAN, answers' \subseteq Snaps,
         TaskShape(h)', HideSound(h)', excused => excused',
         ~excused' => /\ WriteSound(h)'
                      /\ answers' \subseteq {source.link}
                      /\ task[h].pc # "link"
  PROVE  PublishingConsistent'
<1>1. PublishingTypeOK /\ UnpublishHides
  BY DEF PublishingConsistent
<1>2. task'[h] = t /\ \A k \in Handlers : k # h => task'[k] = task[k]
  BY <1>1, TaskAfter
<1>3. LeavesOthers(h)
  BY <1>1 DEF LeavesOthers, PublishingTypeOK, Snapshot
<1>4. ShowsNothing /\ UnpublishHides'
  BY <1>1 DEF ShowsNothing, UnpublishHides
<1>5. ~excused' => \A s \in Snaps : snapshot'[s].public => Addressed(s)'
  BY <1>2 DEF PublishingConsistent, Addressed, TaskAt
<1>6. hidden' => \A k \in Handlers : ~Publishing(k)
  BY DEF PublishingConsistent
<1>7. source.status = "none" => source.link = None
  BY DEF PublishingConsistent
<1>. QED  BY <1>1, <1>3, <1>4, <1>5, <1>6, <1>7, PursueKeeps DEF PublishingTypeOK

\* The request of a process after its step, when it is the one that writes.
LEMMA WritesSoundly ==
  ASSUME PublishingConsistent, ~excused, NEW h \in Handlers, NEW t, Pursues(h, t),
         t.pc = "put" => source'.link = None,
         t.pc \in {"compare", "canvases"} => t.read.link = source'.link,
         t.pc \in {"previous", "snapshot", "link"} => source'.link \in {None, t.snap},
         t.pc = "snapshot" => t.views + t.since >= snapshot'[t.snap].views,
         t.pc = "transact" => source'.status # "stored" \/ source'.link = t.read.link
  PROVE  WriteSound(h)'
<1>1. PublishingTypeOK /\ WriteSound(h)
  BY DEF PublishingConsistent
<1>2. /\ task'[h] = t
      /\ Publishing(h)' => Publishing(h)
      /\ \A k \in Handlers : Writing(k)' => Writing(k)
  BY <1>1, TaskAfter
<1>3. \A k \in Handlers : (Publishing(h) /\ Writing(k) => h = k)'
  BY <1>1, <1>2, TaskAfter DEF WriteSound
<1>. QED  BY <1>2, <1>3 DEF WriteSound

\* The steps of a publication: nothing is hidden while it runs.
LEMMA PublicationKeeps ==
  ASSUME PublishingConsistent, NEW h \in Handlers, NEW t, Pursues(h, t), Publishing(h),
         UNCHANGED <<canvas, tasks, hidden>>,
         source' \in Item, minted' \subseteq Snaps, snapshot' \in [Snaps -> Snapshot],
         excused' \in BOOLEAN, answers' \subseteq Snaps,
         source'.status = "none" => source'.link = None,
         TaskShape(h)', excused => excused',
         ~excused' => /\ WriteSound(h)'
                      /\ answers' \subseteq {source'.link}
                      /\ \A s \in Snaps : snapshot'[s].public => Addressed(s)'
  PROVE  PublishingConsistent'
<1>1. PublishingTypeOK /\ ~hidden
  BY DEF PublishingConsistent
<1>2. task'[h] = t /\ t.op \in {"publish", "create", "none"}
  BY <1>1, TaskAfter DEF Publishing, Pursues
<1>3. HideSound(h)'
  BY <1>2 DEF HideSound
<1>4. UnpublishHides' /\ ~hidden'
  BY <1>1 DEF UnpublishHides
<1>5. ShowsNothing /\ LeavesOthers(h)
  BY DEF ShowsNothing, LeavesOthers
<1>. QED  BY <1>1, <1>3, <1>4, <1>5, PursueKeeps DEF PublishingTypeOK

\* A request that ends without having written.
LEMMA NoTaskIs ==
  /\ NoTask \in Task /\ NoTask.op = "none" /\ NoTask.pc = "idle" /\ ~NoTask.alone
  /\ NoTask.read = NoItem /\ NoItem \in Item /\ NoItem.status = "none"
  /\ NoItem.link = None /\ ~NoItem.public
  BY DEF NoTask, NoItem, Task, Item, Maybe

LEMMA CloseIs ==
  ASSUME PublishingConsistent, NEW h \in Handlers, Close(h)
  PROVE  /\ Pursues(h, NoTask) /\ TaskShape(h)' /\ HideSound(h)'
         /\ ~excused => WriteSound(h)'
<1>1. PublishingTypeOK
  BY DEF PublishingConsistent
<1>2. Pursues(h, NoTask)
  BY NoTaskIs DEF Close, Pursue, Pursues
<1>3. task'[h] = NoTask
  BY <1>1, <1>2, TaskAfter
<1>4. TaskShape(h)' /\ HideSound(h)'
  BY <1>3, NoTaskIs DEF TaskShape, HideSound
<1>5. ~excused => WriteSound(h)'
  BY <1>2, NoTaskIs, WritesSoundly
<1>. QED  BY <1>2, <1>4, <1>5

LEMMA CloseKeeps ==
  ASSUME PublishingConsistent, NEW h \in Handlers, Close(h),
         UNCHANGED <<source, canvas, snapshot, minted, tasks, hidden>>,
         excused' \in BOOLEAN, answers' \subseteq Snaps, excused => excused',
         ~excused' => answers' \subseteq {source.link} /\ task[h].pc # "link"
  PROVE  PublishingConsistent'
<1>1. PublishingTypeOK
  BY DEF PublishingConsistent
<1>. QED  BY <1>1, CloseIs, ReadKeeps DEF PublishingTypeOK

\* A request that goes on, with the fields it changes.
LEMMA EnterIs ==
  ASSUME PublishingTypeOK, NEW h \in Handlers,
         NEW pc \in {"put", "source", "snapshot", "link", "hide", "hideSnapshot", "rows"},
         Enter(h, pc)
  PROVE  \E t \in Task :
           /\ Pursues(h, t) /\ task'[h] = t /\ t.pc = pc
           /\ t.op = task[h].op /\ t.read = task[h].read /\ t.snap = task[h].snap
           /\ t.views = task[h].views /\ t.since = task[h].since /\ t.alone = task[h].alone
<1>. DEFINE t == [task[h] EXCEPT !.pc = pc]
<1>1. task[h] \in Task
  BY DEF PublishingTypeOK
<1>2. /\ t \in Task /\ t.pc = pc
      /\ t.op = task[h].op /\ t.read = task[h].read /\ t.snap = task[h].snap
      /\ t.views = task[h].views /\ t.since = task[h].since /\ t.alone = task[h].alone
  BY <1>1 DEF Task
<1>3. task' = [task EXCEPT ![h] = t]
  BY DEF Enter, Pursue
<1>. HIDE DEF t
<1>4. Pursues(h, t)
  BY <1>2, <1>3 DEF Pursues
<1>. QED  BY <1>2, <1>4, TaskAfter

-----------------------------------------------------------------------------
(* The steps of a publication *)

LEMMA LookUpKeyStep ==
  ASSUME PublishingConsistent, NEW h \in Handlers, LookUpKey(h)
  PROVE  PublishingConsistent'
<1>1. PublishingTypeOK /\ TaskShape(h) /\ task[h].pc = "lookup" /\ Publishing(h)
  BY DEF PublishingConsistent, LookUpKey, TaskAt, TaskShape
<1>2. PICK seen \in Found :
        /\ CASE seen.status = "none" -> Enter(h, "put")
             [] seen.status = "stub" -> Close(h)
             [] OTHER -> Pursue(h, [task[h] EXCEPT !.pc = "compare", !.read = seen])
        /\ excused' = (excused \/ seen # source)
  BY DEF LookUpKey
<1>3. UNCHANGED <<source, canvas, snapshot, minted, tasks, hidden, answers>>
  BY DEF LookUpKey
<1>4. seen \in Item /\ excused' \in BOOLEAN /\ (excused => excused')
      /\ (~excused' => ~excused /\ seen = source)
  BY <1>1, <1>2, NoTaskIs DEF Found, PublishingTypeOK
<1>5. answers \subseteq Snaps /\ (~excused => answers \subseteq {source.link})
      /\ minted \subseteq Snaps
  BY DEF PublishingConsistent, PublishingTypeOK
<1>6. CASE seen.status = "none"
  <2>1. PICK t \in Task :
          /\ Pursues(h, t) /\ task'[h] = t /\ t.pc = "put" /\ t.op = task[h].op
    BY <1>1, <1>2, <1>6, EnterIs
  <2>2. TaskShape(h)' /\ HideSound(h)'
    BY <1>1, <2>1 DEF TaskShape, HideSound, Publishing
  <2>3. ~excused' => WriteSound(h)'
    BY <1>3, <1>4, <1>6, <2>1, WritesSoundly DEF PublishingConsistent
  <2>. QED  BY <1>1, <1>3, <1>4, <1>5, <2>1, <2>2, <2>3, ReadKeeps
<1>7. CASE seen.status = "stub"
  BY <1>1, <1>2, <1>3, <1>4, <1>5, <1>7, CloseKeeps
<1>8. CASE seen.status = "stored"
  <2>. DEFINE t == [task[h] EXCEPT !.pc = "compare", !.read = seen]
  <2>1. t \in Task /\ t.pc = "compare" /\ t.read = seen /\ t.op = task[h].op
        /\ t.alone = task[h].alone
    BY <1>1, <1>4 DEF PublishingTypeOK, Task
  <2>2. task' = [task EXCEPT ![h] = t]
    BY <1>2, <1>8 DEF Pursue
  <2>. HIDE DEF t
  <2>3. Pursues(h, t)
    BY <2>1, <2>2 DEF Pursues
  <2>4. task'[h] = t
    BY <1>1, <2>3, TaskAfter
  <2>5. TaskShape(h)' /\ HideSound(h)'
    BY <1>1, <2>1, <2>4 DEF TaskShape, HideSound, Publishing
  <2>6. ~excused' => WriteSound(h)'
    BY <1>3, <1>4, <2>1, <2>3, WritesSoundly
  <2>. QED  BY <1>1, <1>3, <1>4, <1>5, <2>3, <2>5, <2>6, ReadKeeps
<1>. QED  BY <1>4, <1>6, <1>7, <1>8 DEF Item

LEMMA CompareKeyStep ==
  ASSUME PublishingConsistent, NEW h \in Handlers, CompareKey(h)
  PROVE  PublishingConsistent'
<1>1. /\ PublishingTypeOK /\ TaskShape(h) /\ task[h].pc = "compare" /\ Publishing(h)
      /\ UNCHANGED <<source, canvas, snapshot, minted, tasks, hidden, excused>>
  BY DEF PublishingConsistent, CompareKey, TaskAt, TaskShape
<1>2. /\ answers \subseteq Snaps /\ (~excused => answers \subseteq {source.link})
      /\ minted \subseteq Snaps /\ task[h].read.link \in Maybe(Snaps)
      /\ (~excused => task[h].read.link = source.link)
  BY <1>1 DEF PublishingConsistent, PublishingTypeOK, WriteSound, Task, Item
<1>3. CASE Close(h) /\ UNCHANGED answers
  BY <1>1, <1>2, <1>3, CloseKeeps DEF PublishingTypeOK
<1>4. CASE Close(h) /\ Named(task[h].read.link)
  <2>1. answers' \subseteq Snaps /\ (~excused => answers' \subseteq {source.link})
    BY <1>2, <1>4 DEF Named, Maybe
  <2>. QED  BY <1>1, <1>2, <1>4, <2>1, CloseKeeps DEF PublishingTypeOK
<1>5. CASE Enter(h, "source") /\ UNCHANGED answers
  <2>1. PICK t \in Task :
          /\ Pursues(h, t) /\ task'[h] = t /\ t.pc = "source" /\ t.op = task[h].op
    BY <1>1, <1>5, EnterIs
  <2>2. TaskShape(h)' /\ HideSound(h)'
    BY <1>1, <2>1 DEF TaskShape, HideSound, Publishing
  <2>3. ~excused => WriteSound(h)'
    BY <2>1, WritesSoundly
  <2>. QED  BY <1>1, <1>2, <1>5, <2>1, <2>2, <2>3, ReadKeeps DEF PublishingTypeOK
<1>. QED  BY <1>3, <1>4, <1>5 DEF CompareKey

LEMMA PutSourceStep ==
  ASSUME PublishingConsistent, NEW h \in Handlers, PutSource(h)
  PROVE  PublishingConsistent'
<1>1. /\ PublishingTypeOK /\ TaskShape(h) /\ task[h].pc = "put" /\ Publishing(h)
      /\ UNCHANGED <<canvas, snapshot, minted, tasks, hidden, excused, answers>>
  BY DEF PublishingConsistent, PutSource, TaskAt, TaskShape, Unmarked
<1>2. source' \in Item /\ source'.status = "stored" /\ source'.link = None
  <2>1. task[h].asked \in Maybe(Contents) /\ tasks \in Nat
    BY <1>1 DEF PublishingTypeOK, Task
  <2>. QED  BY <2>1, NoTaskIs DEF PutSource, Item
<1>3. PICK t \in Task :
        /\ Pursues(h, t) /\ task'[h] = t /\ t.pc = "source" /\ t.op = task[h].op
  BY <1>1, EnterIs DEF PutSource
<1>4. TaskShape(h)'
  BY <1>1, <1>3 DEF TaskShape, Publishing
<1>5. ~excused => WriteSound(h)'
  BY <1>3, WritesSoundly
<1>6. ~excused => source.link = None
  BY <1>1 DEF PublishingConsistent, WriteSound
<1>7. ~excused => \A s \in Snaps : snapshot'[s].public => Addressed(s)'
  BY <1>1, <1>2, <1>3, <1>6, TaskAfter DEF PublishingConsistent, Addressed, TaskAt
<1>8. ~excused => answers \subseteq {None}
  BY <1>6 DEF PublishingConsistent
<1>. QED
  BY <1>1, <1>2, <1>3, <1>4, <1>5, <1>7, <1>8, PublicationKeeps DEF PublishingTypeOK

LEMMA ReadSourceStep ==
  ASSUME PublishingConsistent, NEW h \in Handlers, ReadSource(h)
  PROVE  PublishingConsistent'
<1>1. /\ PublishingTypeOK /\ TaskShape(h) /\ task[h].pc = "source" /\ Publishing(h)
      /\ UNCHANGED <<source, canvas, snapshot, minted, tasks, hidden, excused, answers>>
      /\ (~excused => answers \subseteq {source.link})
  BY DEF PublishingConsistent, ReadSource, TaskAt, TaskShape, OnlyTask, Unmarked
<1>2. CASE Close(h)
  BY <1>1, <1>2, CloseKeeps DEF PublishingTypeOK
<1>3. ASSUME NEW seen \in Found, seen.status = "stored",
             Pursue(h, [task[h] EXCEPT !.pc = "canvases", !.read = seen])
      PROVE  PublishingConsistent'
  <2>. DEFINE t == [task[h] EXCEPT !.pc = "canvases", !.read = seen]
  <2>1. seen = source /\ seen \in Item
    BY <1>1, <1>3, NoTaskIs DEF Found, PublishingTypeOK
  <2>2. t \in Task /\ t.pc = "canvases" /\ t.read = seen /\ t.op = task[h].op
        /\ t.alone = task[h].alone
    <3>1. task[h] \in Task
      BY <1>1 DEF PublishingTypeOK
    <3>. QED  BY <2>1, <3>1 DEF Task
  <2>3. task' = [task EXCEPT ![h] = t]
    BY <1>3 DEF Pursue
  <2>. HIDE DEF t
  <2>4. Pursues(h, t)
    BY <2>2, <2>3 DEF Pursues
  <2>5. task'[h] = t
    BY <1>1, <2>4, TaskAfter
  <2>6. TaskShape(h)' /\ HideSound(h)'
    BY <1>1, <2>2, <2>5 DEF TaskShape, HideSound, Publishing
  <2>7. ~excused => WriteSound(h)'
    BY <1>1, <2>1, <2>2, <2>4, WritesSoundly
  <2>. QED  BY <1>1, <2>4, <2>6, <2>7, ReadKeeps DEF PublishingTypeOK
<1>. QED  BY <1>2, <1>3 DEF ReadSource

LEMMA ReadCanvasesStep ==
  ASSUME PublishingConsistent, NEW h \in Handlers, ReadCanvases(h)
  PROVE  PublishingConsistent'
<1>1. /\ PublishingTypeOK /\ TaskShape(h) /\ task[h].pc = "canvases" /\ Publishing(h)
      /\ UNCHANGED <<source, canvas, snapshot, tasks, hidden, excused, answers>>
      /\ (~excused => answers \subseteq {source.link} /\ WriteSound(h))
  BY DEF PublishingConsistent, ReadCanvases, TaskAt, TaskShape, Unmarked
<1>2. PICK s \in IF task[h].read.link # None THEN {task[h].read.link} ELSE Snaps \ minted :
        /\ minted' = minted \cup {s}
        /\ Pursue(h, [task[h] EXCEPT !.pc = "previous", !.snap = s,
                                     !.content = Shown(task[h].read)])
  BY DEF ReadCanvases
<1>3. /\ task[h] \in Task /\ task[h].read \in Item /\ task[h].read.link \in Maybe(Snaps)
      /\ task[h].read.content \in Maybe(Contents)
  BY <1>1 DEF PublishingTypeOK, Task, Item
<1>4. s \in Snaps /\ task[h].read.link \in {None, s}
  BY <1>2, <1>3 DEF Maybe
<1>5. PICK c \in Maybe(Contents) : c = Shown(task[h].read)
  BY <1>1, <1>3 DEF Shown, PublishingTypeOK
<1>. DEFINE t == [task[h] EXCEPT !.pc = "previous", !.snap = s, !.content = c]
<1>6. t \in Task /\ t.pc = "previous" /\ t.snap = s /\ t.op = task[h].op
      /\ t.alone = task[h].alone
  BY <1>3, <1>4 DEF Task, Maybe
<1>7. task' = [task EXCEPT ![h] = t]
  BY <1>2, <1>5 DEF Pursue
<1>. HIDE DEF t
<1>8. Pursues(h, t)
  BY <1>6, <1>7 DEF Pursues
<1>9. task'[h] = t
  BY <1>1, <1>8, TaskAfter
<1>10. TaskShape(h)' /\ HideSound(h)'
  BY <1>1, <1>4, <1>6, <1>9 DEF TaskShape, HideSound, Publishing
<1>11. ~excused => WriteSound(h)'
  BY <1>1, <1>4, <1>6, <1>8, WritesSoundly DEF WriteSound
<1>12. minted' \subseteq Snaps
  BY <1>1, <1>2, <1>4 DEF PublishingTypeOK
<1>. QED  BY <1>1, <1>8, <1>10, <1>11, <1>12, ReadKeeps DEF PublishingTypeOK

LEMMA ReadPreviousStep ==
  ASSUME PublishingConsistent, NEW h \in Handlers, ReadPrevious(h)
  PROVE  PublishingConsistent'
<1>1. /\ PublishingTypeOK /\ TaskShape(h) /\ task[h].pc = "previous" /\ Publishing(h)
      /\ UNCHANGED <<source, canvas, snapshot, minted, tasks, hidden, excused, answers>>
      /\ (~excused => answers \subseteq {source.link} /\ WriteSound(h))
  BY DEF PublishingConsistent, ReadPrevious, TaskAt, TaskShape, OnlyTask, Unmarked
<1>2. CASE Close(h)
  BY <1>1, <1>2, CloseKeeps DEF PublishingTypeOK
<1>3. CASE Pursue(h, [task[h] EXCEPT !.pc = "snapshot", !.since = 0,
                                     !.views = snapshot[task[h].snap].views])
  <2>1. PICK s \in Snaps : s = task[h].snap
    BY <1>1 DEF TaskShape
  <2>2. PICK n \in Nat : n = snapshot[s].views
    BY <1>1 DEF PublishingTypeOK, Snapshot
  <2>. DEFINE t == [task[h] EXCEPT !.pc = "snapshot", !.since = 0, !.views = n]
  <2>3. t \in Task /\ t.pc = "snapshot" /\ t.snap = s /\ t.op = task[h].op
        /\ t.alone = task[h].alone /\ t.since = 0 /\ t.views = n
    <3>1. task[h] \in Task
      BY <1>1 DEF PublishingTypeOK
    <3>. QED  BY <2>1, <3>1 DEF Task
  <2>4. task' = [task EXCEPT ![h] = t]
    BY <1>3, <2>1, <2>2 DEF Pursue
  <2>. HIDE DEF t
  <2>5. Pursues(h, t)
    BY <2>3, <2>4 DEF Pursues
  <2>6. task'[h] = t
    BY <1>1, <2>5, TaskAfter
  <2>7. TaskShape(h)' /\ HideSound(h)'
    BY <1>1, <2>3, <2>6 DEF TaskShape, HideSound, Publishing
  <2>8. t.views + t.since >= snapshot'[t.snap].views
    BY <1>1, <2>2, <2>3
  <2>9. ~excused => WriteSound(h)'
    BY <1>1, <2>1, <2>3, <2>5, <2>8, WritesSoundly DEF WriteSound
  <2>. QED  BY <1>1, <2>5, <2>7, <2>9, ReadKeeps DEF PublishingTypeOK
<1>. QED  BY <1>2, <1>3 DEF ReadPrevious

LEMMA PutSnapshotStep ==
  ASSUME PublishingConsistent, NEW h \in Handlers, PutSnapshot(h)
  PROVE  PublishingConsistent'
<1>1. /\ PublishingTypeOK /\ TaskShape(h) /\ task[h].pc = "snapshot" /\ Publishing(h)
      /\ UNCHANGED <<source, canvas, minted, tasks, hidden, excused, answers>>
      /\ (~excused => answers \subseteq {source.link} /\ WriteSound(h))
  BY DEF PublishingConsistent, PutSnapshot, TaskAt, TaskShape, Unmarked
<1>2. PICK s \in Snaps : s = task[h].snap
  BY <1>1 DEF TaskShape
<1>. DEFINE q == [status |-> "stored", public |-> TRUE,
                  content |-> task[h].content, views |-> task[h].views]
<1>3. q \in Snapshot
  BY <1>1 DEF PublishingTypeOK, Task, Snapshot
<1>4. snapshot' = [snapshot EXCEPT ![s] = q]
  BY <1>2 DEF PutSnapshot
<1>. HIDE DEF q
<1>5. snapshot' \in [Snaps -> Snapshot] /\ \A i \in Snaps : i # s => snapshot'[i] = snapshot[i]
  BY <1>1, <1>3, <1>4 DEF PublishingTypeOK
<1>6. PICK t \in Task :
        /\ Pursues(h, t) /\ task'[h] = t /\ t.pc = "link" /\ t.op = task[h].op
        /\ t.snap = task[h].snap
  BY <1>1, EnterIs DEF PutSnapshot
<1>7. TaskShape(h)'
  BY <1>1, <1>6 DEF TaskShape, Publishing
<1>8. ~excused => WriteSound(h)'
  BY <1>1, <1>6, WritesSoundly DEF WriteSound
<1>9. ~excused => \A i \in Snaps : snapshot'[i].public => Addressed(i)'
  <2>. SUFFICES ASSUME ~excused, NEW i \in Snaps, snapshot'[i].public, i # s
                PROVE  Addressed(i)'
    BY <1>2, <1>6 DEF Addressed, TaskAt
  <2>1. Addressed(i)
    BY <1>5 DEF PublishingConsistent
  <2>. QED  BY <1>1, <1>6, <2>1, TaskAfter DEF Addressed, TaskAt
<1>10. source.status = "none" => source.link = None
  BY DEF PublishingConsistent
<1>. QED
  BY <1>1, <1>5, <1>6, <1>7, <1>8, <1>9, <1>10, PublicationKeeps DEF PublishingTypeOK

\* An update keeps what it does not set.
LEMMA UpdatedIs ==
  ASSUME NEW item \in Item
  PROVE  /\ Updated(item) \in Item /\ Updated(item).link = item.link
         /\ Updated(item).status # "none"
         /\ Updated(item).status = "stored" => item.status = "stored"
  BY DEF Updated, Item

LEMMA LinkSourceStep ==
  ASSUME PublishingConsistent, NEW h \in Handlers, LinkSource(h)
  PROVE  PublishingConsistent'
<1>1. /\ PublishingTypeOK /\ TaskShape(h) /\ task[h].pc = "link" /\ Publishing(h)
      /\ UNCHANGED <<canvas, snapshot, minted, tasks, hidden, excused>> /\ Close(h)
      /\ (~excused => answers \subseteq {source.link} /\ WriteSound(h))
  BY DEF PublishingConsistent, LinkSource, TaskAt, TaskShape
<1>2. PICK s \in Snaps : s = task[h].snap
  BY <1>1 DEF TaskShape
<1>. DEFINE u == Updated(source)
            q == [u EXCEPT !.public = TRUE, !.link = s]
<1>3. u \in Item /\ u.status # "none"
  BY <1>1, UpdatedIs DEF PublishingTypeOK
<1>. HIDE DEF u
<1>4. q \in Item /\ q.link = s /\ q.status # "none"
  BY <1>3 DEF Item, Maybe
<1>5. source' = q
  BY <1>2 DEF LinkSource, u
<1>. HIDE DEF q
<1>6. ~excused => source.link \in {None, s}
  BY <1>1, <1>2 DEF WriteSound
<1>7. answers' \subseteq answers \cup {s}
  BY <1>2 DEF LinkSource, Named
<1>8. Pursues(h, NoTask) /\ TaskShape(h)' /\ task'[h] = NoTask
      /\ (~excused => WriteSound(h)')
  BY <1>1, CloseIs, TaskAfter
<1>9. ~excused => answers' \subseteq {s}
  BY <1>1, <1>6, <1>7, PublishingAssumption DEF PublishingTypeOK
<1>10. ~excused => \A i \in Snaps : snapshot'[i].public => Addressed(i)'
  <2>. SUFFICES ASSUME ~excused, NEW i \in Snaps, snapshot[i].public
                PROVE  i = s
    BY <1>1, <1>4, <1>5 DEF Addressed
  <2>1. Addressed(i)
    BY DEF PublishingConsistent
  <2>2. CASE i = source.link
    BY <1>6, <2>2, PublishingAssumption
  <2>3. ASSUME NEW k \in Handlers, TaskAt(k, "link"), task[k].snap = i PROVE i = s
    <3>1. Publishing(k)
      BY <2>3 DEF PublishingConsistent, TaskShape, TaskAt
    <3>2. k = h
      BY <1>1, <3>1 DEF WriteSound, Writing
    <3>. QED  BY <1>2, <2>3, <3>2
  <2>. QED  BY <2>1, <2>2, <2>3 DEF Addressed
<1>11. answers' \subseteq Snaps
  BY <1>1, <1>7 DEF PublishingTypeOK
<1>. QED
  BY <1>1, <1>4, <1>5, <1>8, <1>9, <1>10, <1>11, PublicationKeeps DEF PublishingTypeOK

-----------------------------------------------------------------------------
(* The steps of an unpublication and of a delete *)

LEMMA ReadTargetStep ==
  ASSUME PublishingConsistent, NEW h \in Handlers, ReadTarget(h)
  PROVE  PublishingConsistent'
<1>1. /\ PublishingTypeOK /\ TaskShape(h) /\ HideSound(h) /\ task[h].pc = "target"
      /\ task[h].op = "unpublish" /\ task[h].read.status = "none"
      /\ UNCHANGED <<source, canvas, snapshot, minted, tasks, hidden, excused, answers>>
      /\ (~excused => answers \subseteq {source.link})
  BY NoTaskIs DEF PublishingConsistent, ReadTarget, TaskAt, TaskShape, OnlyTask, Unmarked
<1>2. CASE Close(h)
  BY <1>1, <1>2, CloseKeeps DEF PublishingTypeOK
<1>3. ASSUME NEW t \in Task, Pursues(h, t), t.op = "unpublish", t.pc = "hide",
             t.read.status = "stored" => t.snap = source.link
      PROVE  PublishingConsistent'
  <2>1. task'[h] = t /\ \A k \in Handlers : Publishing(k)' => Publishing(k)
    BY <1>1, <1>3, TaskAfter
  <2>2. TaskShape(h)'
    BY <1>3, <2>1 DEF TaskShape
  <2>3. HideSound(h)'
    BY <1>1, <1>3, <2>1 DEF HideSound, Pursues
  <2>4. ~excused => WriteSound(h)'
    BY <1>3, WritesSoundly
  <2>. QED  BY <1>1, <1>3, <2>2, <2>3, <2>4, ReadKeeps DEF PublishingTypeOK
<1>4. CASE /\ source.status = "stored"
           /\ Pursue(h, [task[h] EXCEPT !.pc = "hide", !.snap = source.link,
                                        !.read = source])
  <2>. DEFINE t == [task[h] EXCEPT !.pc = "hide", !.snap = source.link, !.read = source]
  <2>1. source \in Item /\ source.link \in Maybe(Snaps)
    BY <1>1 DEF PublishingTypeOK, Item
  <2>2. t \in Task /\ t.pc = "hide" /\ t.snap = source.link /\ t.op = task[h].op
        /\ t.alone = task[h].alone
    <3>1. task[h] \in Task
      BY <1>1 DEF PublishingTypeOK
    <3>. QED  BY <2>1, <3>1 DEF Task
  <2>3. task' = [task EXCEPT ![h] = t]
    BY <1>4 DEF Pursue
  <2>. HIDE DEF t
  <2>4. Pursues(h, t)
    BY <2>2, <2>3 DEF Pursues
  <2>. QED  BY <1>1, <1>3, <2>2, <2>4
<1>5. CASE Enter(h, "hide")
  <2>1. PICK t \in Task :
          Pursues(h, t) /\ t.pc = "hide" /\ t.op = task[h].op /\ t.read = task[h].read
    BY <1>1, <1>5, EnterIs
  <2>. QED  BY <1>1, <1>3, <2>1
<1>. QED  BY <1>2, <1>4, <1>5 DEF ReadTarget

\* An unpublication that ends has hidden what it says.
LEMMA HidKeeps ==
  ASSUME PublishingConsistent, NEW h \in Handlers, Hid(h), task[h].op = "unpublish",
         UNCHANGED <<canvas, minted, tasks, excused, answers>>,
         source' \in Item, snapshot' \in [Snaps -> Snapshot], ~source'.public,
         source'.link = source.link, source'.status = "none" => source'.link = None,
         source'.status = "stored" => source.status = "stored",
         \A s \in Snaps : /\ snapshot'[s].public => snapshot[s].public
                          /\ snapshot'[s].views <= snapshot[s].views
                          /\ s = task[h].snap => ~snapshot'[s].public
  PROVE  PublishingConsistent'
<1>1. /\ PublishingTypeOK /\ TaskShape(h) /\ HideSound(h) /\ Close(h)
      /\ hidden' = (hidden \/ (task[h].alone /\ task[h].read.status = "stored"))
      /\ (~excused => answers \subseteq {source.link})
  BY DEF PublishingConsistent, Hid
<1>2. /\ Pursues(h, NoTask) /\ TaskShape(h)' /\ HideSound(h)' /\ task'[h] = NoTask
      /\ (~excused => WriteSound(h)')
  BY <1>1, CloseIs, TaskAfter
<1>3. task[h].pc # "link"
  BY <1>1 DEF TaskShape, Publishing
<1>4. ASSUME hidden' PROVE \A k \in Handlers : ~Publishing(k)
  <2>1. CASE hidden
    BY <2>1 DEF PublishingConsistent
  <2>2. CASE task[h].alone /\ task[h].read.status = "stored"
    BY <1>1, <2>2 DEF HideSound
  <2>. QED  BY <1>1, <1>4, <2>1, <2>2
<1>5. UnpublishHides'
  <2>. SUFFICES ASSUME hidden', source.link # None
                PROVE  ~snapshot'[source.link].public
    BY DEF UnpublishHides
  <2>1. source.link \in Snaps
    BY <1>1 DEF PublishingTypeOK, Item, Maybe
  <2>2. CASE hidden
    BY <2>1, <2>2 DEF PublishingConsistent, UnpublishHides
  <2>3. CASE task[h].alone /\ task[h].read.status = "stored"
    BY <1>1, <2>1, <2>3 DEF HideSound
  <2>. QED  BY <1>1, <2>2, <2>3
<1>6. ~excused => \A s \in Snaps : snapshot'[s].public => Addressed(s)'
  BY <1>1, <1>2, <1>3, TaskAfter DEF PublishingConsistent, Addressed, TaskAt
<1>7. ShowsNothing /\ LeavesOthers(h) /\ hidden' \in BOOLEAN
  BY <1>1 DEF ShowsNothing, LeavesOthers, PublishingTypeOK
<1>. HIDE DEF PublishingConsistent
<1>. QED
  BY <1>1, <1>2, <1>4, <1>5, <1>6, <1>7, PursueKeeps DEF PublishingTypeOK

LEMMA HideSourceStep ==
  ASSUME PublishingConsistent, NEW h \in Handlers, HideSource(h)
  PROVE  PublishingConsistent'
<1>1. /\ PublishingTypeOK /\ TaskShape(h) /\ HideSound(h) /\ task[h].pc = "hide"
      /\ task[h].op = "unpublish"
      /\ UNCHANGED <<canvas, snapshot, minted, tasks, excused, answers>>
      /\ (~excused => answers \subseteq {source.link})
  BY DEF PublishingConsistent, HideSource, TaskAt, TaskShape
<1>. DEFINE u == Updated(source)
            q == [u EXCEPT !.public = FALSE]
<1>2. /\ u \in Item /\ u.link = source.link /\ u.status # "none"
      /\ u.status = "stored" => source.status = "stored"
  BY <1>1, UpdatedIs DEF PublishingTypeOK
<1>. HIDE DEF u
<1>3. q \in Item /\ q.link = u.link /\ q.status = u.status /\ ~q.public
  BY <1>2 DEF Item
<1>4. source' = q
  BY DEF HideSource, u
<1>. HIDE DEF q
<1>5. /\ source' \in Item /\ source'.link = source.link /\ ~source'.public
      /\ source'.status # "none"
      /\ source'.status = "stored" => source.status = "stored"
  BY <1>2, <1>3, <1>4
<1>6. \A s \in Snaps : snapshot'[s].views <= snapshot[s].views
  BY <1>1 DEF PublishingTypeOK, Snapshot
<1>7. CASE task[h].snap = None /\ Hid(h)
  BY <1>1, <1>5, <1>6, <1>7, PublishingAssumption, HidKeeps DEF PublishingTypeOK
<1>8. CASE task[h].snap # None /\ Enter(h, "hideSnapshot") /\ UNCHANGED hidden
  <2>1. PICK t \in Task :
          /\ Pursues(h, t) /\ task'[h] = t /\ t.pc = "hideSnapshot" /\ t.op = task[h].op
          /\ t.snap = task[h].snap /\ t.read = task[h].read /\ t.alone = task[h].alone
    BY <1>1, <1>8, EnterIs
  <2>2. t.snap \in Snaps
    BY <1>1, <1>8, <2>1 DEF PublishingTypeOK, Task, Maybe
  <2>3. TaskShape(h)'
    BY <1>1, <2>1, <2>2 DEF TaskShape
  <2>4. \A k \in Handlers : Publishing(k)' => Publishing(k)
    BY <1>1, <2>1, TaskAfter
  <2>5. HideSound(h)'
    BY <1>1, <1>5, <2>1, <2>4 DEF HideSound
  <2>6. ~excused => WriteSound(h)'
    BY <2>1, WritesSoundly
  <2>7. ShowsNothing /\ LeavesOthers(h)
    BY <1>5, <1>6 DEF ShowsNothing, LeavesOthers
  <2>8. UnpublishHides'
    BY <1>1, <1>5, <1>8 DEF PublishingConsistent, UnpublishHides
  <2>9. ~excused => \A s \in Snaps : snapshot'[s].public => Addressed(s)'
    BY <1>1, <1>5, <2>1, TaskAfter DEF PublishingConsistent, Addressed, TaskAt
  <2>10. hidden' => \A k \in Handlers : ~Publishing(k)
    BY <1>8 DEF PublishingConsistent
  <2>. QED
    BY <1>1, <1>5, <1>8, <2>1, <2>3, <2>5, <2>6, <2>7, <2>8, <2>9, <2>10, PursueKeeps
       DEF PublishingTypeOK
<1>. QED  BY <1>7, <1>8 DEF HideSource

LEMMA HideSnapshotStep ==
  ASSUME PublishingConsistent, NEW h \in Handlers, HideSnapshot(h)
  PROVE  PublishingConsistent'
<1>1. /\ PublishingTypeOK /\ TaskShape(h) /\ HideSound(h) /\ task[h].pc = "hideSnapshot"
      /\ task[h].op = "unpublish" /\ Hid(h)
      /\ UNCHANGED <<source, canvas, minted, tasks, excused, answers>>
      /\ (source.status = "none" => source.link = None)
  BY DEF PublishingConsistent, HideSnapshot, TaskAt, TaskShape
<1>2. PICK s \in Snaps : s = task[h].snap
  BY <1>1 DEF TaskShape
<1>. DEFINE u == Updated(snapshot[s])
            q == [u EXCEPT !.public = FALSE]
<1>3. u \in Snapshot /\ u.views = snapshot[s].views
  <2>1. snapshot[s] \in Snapshot
    BY <1>1 DEF PublishingTypeOK
  <2>. QED  BY <2>1 DEF Updated, Snapshot
<1>. HIDE DEF u
<1>4. q \in Snapshot /\ q.views = u.views /\ ~q.public
  BY <1>3 DEF Snapshot
<1>5. snapshot' = [snapshot EXCEPT ![s] = q]
  BY <1>2 DEF HideSnapshot, u
<1>. HIDE DEF q
<1>6. snapshot' \in [Snaps -> Snapshot]
      /\ \A i \in Snaps : snapshot'[i] = IF i = s THEN q ELSE snapshot[i]
  BY <1>1, <1>4, <1>5 DEF PublishingTypeOK
<1>7. \A i \in Snaps : snapshot[i].views \in Nat /\ snapshot'[i].views <= snapshot[i].views
  BY <1>1, <1>3, <1>4, <1>6 DEF PublishingTypeOK, Snapshot
<1>8. CASE source.public /\ (task[h].alone => task[h].read.status # "stored")
  <2>1. hidden' = hidden /\ Close(h)
    BY <1>1, <1>8 DEF Hid, PublishingTypeOK
  <2>2. ~hidden
    BY <1>8 DEF PublishingConsistent, UnpublishHides
  <2>3. /\ Pursues(h, NoTask) /\ TaskShape(h)' /\ HideSound(h)' /\ task'[h] = NoTask
        /\ (~excused => WriteSound(h)')
    BY <1>1, <2>1, CloseIs, TaskAfter
  <2>4. ShowsNothing /\ LeavesOthers(h) /\ UnpublishHides'
    BY <1>1, <1>7, <2>1, <2>2 DEF ShowsNothing, LeavesOthers, UnpublishHides
  <2>5. ~excused => \A i \in Snaps : snapshot'[i].public => Addressed(i)'
    BY <1>1, <1>4, <1>6, <2>3, TaskAfter DEF PublishingConsistent, Addressed, TaskAt
  <2>6. ~excused => answers \subseteq {source.link}
    BY DEF PublishingConsistent
  <2>. QED
    BY <1>1, <1>6, <2>1, <2>2, <2>3, <2>4, <2>5, <2>6, PursueKeeps DEF PublishingTypeOK
<1>9. CASE ~source.public
  BY <1>1, <1>2, <1>4, <1>6, <1>7, <1>9, HidKeeps DEF PublishingTypeOK
<1>10. source.public => (task[h].alone => task[h].read.status # "stored")
  BY <1>1 DEF HideSound
<1>. QED  BY <1>8, <1>9, <1>10

LEMMA ReadDoomedStep ==
  ASSUME PublishingConsistent, NEW h \in Handlers, ReadDoomed(h)
  PROVE  PublishingConsistent'
<1>1. /\ PublishingTypeOK /\ TaskShape(h) /\ task[h].pc = "read"
      /\ task[h].op = "delete"
      /\ UNCHANGED <<source, canvas, snapshot, minted, tasks, hidden, excused, answers>>
      /\ (~excused => answers \subseteq {source.link})
  BY DEF PublishingConsistent, ReadDoomed, TaskAt, TaskShape, OnlyTask, Unmarked
<1>2. CASE Close(h)
  BY <1>1, <1>2, CloseKeeps DEF PublishingTypeOK
<1>3. CASE Pursue(h, [task[h] EXCEPT !.pc = "transact", !.read = source])
  <2>. DEFINE t == [task[h] EXCEPT !.pc = "transact", !.read = source]
  <2>1. t \in Task /\ t.pc = "transact" /\ t.read = source /\ t.op = task[h].op
        /\ t.alone = task[h].alone
    <3>1. task[h] \in Task /\ source \in Item
      BY <1>1 DEF PublishingTypeOK
    <3>. QED  BY <3>1 DEF Task
  <2>2. task' = [task EXCEPT ![h] = t]
    BY <1>3 DEF Pursue
  <2>. HIDE DEF t
  <2>3. Pursues(h, t)
    BY <2>1, <2>2 DEF Pursues
  <2>4. task'[h] = t
    BY <1>1, <2>3, TaskAfter
  <2>5. TaskShape(h)' /\ HideSound(h)'
    BY <1>1, <2>1, <2>4 DEF TaskShape, HideSound
  <2>6. ~excused => WriteSound(h)'
    BY <1>1, <2>1, <2>3, WritesSoundly
  <2>. QED  BY <1>1, <2>3, <2>5, <2>6, ReadKeeps DEF PublishingTypeOK
<1>. QED  BY <1>2, <1>3 DEF ReadDoomed

LEMMA DeleteItemsStep ==
  ASSUME PublishingConsistent, NEW h \in Handlers, DeleteItems(h)
  PROVE  PublishingConsistent'
<1>1. /\ PublishingTypeOK /\ TaskShape(h) /\ task[h].pc = "transact"
      /\ task[h].op = "delete"
      /\ UNCHANGED <<canvas, minted, tasks, hidden, excused>>
      /\ (~excused => answers \subseteq {source.link} /\ WriteSound(h))
  BY DEF PublishingConsistent, DeleteItems, TaskAt, TaskShape
<1>2. CASE Close(h) /\ UNCHANGED <<source, snapshot, answers>>
  BY <1>1, <1>2, CloseKeeps DEF PublishingTypeOK
<1>3. CASE /\ source.status = "stored" /\ source' = NoItem /\ answers' = {}
           /\ snapshot' = [s \in Snaps |->
                             IF s = task[h].read.link THEN NoSnapshot ELSE snapshot[s]]
           /\ Enter(h, "rows")
  <2>1. PICK t \in Task :
          /\ Pursues(h, t) /\ task'[h] = t /\ t.pc = "rows" /\ t.op = task[h].op
    BY <1>1, <1>3, EnterIs
  <2>2. NoSnapshot \in Snapshot /\ ~NoSnapshot.public
    BY DEF NoSnapshot, Snapshot, Maybe
  <2>3. snapshot' \in [Snaps -> Snapshot]
    BY <1>1, <1>3, <2>2 DEF PublishingTypeOK
  <2>4. TaskShape(h)' /\ HideSound(h)'
    BY <1>1, <2>1 DEF TaskShape, HideSound
  <2>5. ~excused => WriteSound(h)'
    BY <2>1, WritesSoundly
  <2>6. ShowsNothing /\ LeavesOthers(h) /\ UnpublishHides'
    BY <1>1, <1>3, NoTaskIs DEF ShowsNothing, LeavesOthers, UnpublishHides
  <2>7. ~excused => \A s \in Snaps : snapshot'[s].public => Addressed(s)'
    <3>. SUFFICES ASSUME ~excused, NEW s \in Snaps, snapshot'[s].public PROVE FALSE
      OBVIOUS
    <3>1. s # task[h].read.link /\ snapshot[s].public
      BY <1>3, <2>2
    <3>2. s # source.link
      BY <1>1, <1>3, <3>1 DEF WriteSound
    <3>3. PICK k \in Handlers : TaskAt(k, "link")
      BY <3>1, <3>2 DEF PublishingConsistent, Addressed
    <3>4. Publishing(k) /\ WriteSound(k)
      BY <3>3 DEF PublishingConsistent, TaskShape, TaskAt
    <3>5. k = h
      BY <1>1, <3>4 DEF WriteSound, Writing
    <3>. QED  BY <1>1, <3>3, <3>5 DEF TaskAt
  <2>8. hidden' => \A k \in Handlers : ~Publishing(k)
    BY <1>1 DEF PublishingConsistent
  <2>9. answers' \subseteq Snaps /\ answers' \subseteq {source'.link}
    BY <1>3
  <2>. QED
    BY <1>1, <1>3, <2>1, <2>3, <2>4, <2>5, <2>6, <2>7, <2>8, <2>9, NoTaskIs, PursueKeeps
       DEF PublishingTypeOK
<1>. QED  BY <1>2, <1>3 DEF DeleteItems

LEMMA DeleteCanvasesStep ==
  ASSUME PublishingConsistent, NEW h \in Handlers, DeleteCanvases(h)
  PROVE  PublishingConsistent'
<1>1. /\ PublishingTypeOK /\ TaskShape(h) /\ task[h].pc = "rows" /\ Close(h)
      /\ canvas' = None
      /\ UNCHANGED <<source, snapshot, minted, tasks, hidden, excused, answers>>
      /\ (~excused => answers \subseteq {source.link})
      /\ (source.status = "none" => source.link = None)
      /\ (hidden => \A k \in Handlers : ~Publishing(k)) /\ UnpublishHides
  BY DEF PublishingConsistent, DeleteCanvases, TaskAt, Unmarked
<1>2. /\ Pursues(h, NoTask) /\ TaskShape(h)' /\ HideSound(h)' /\ task'[h] = NoTask
      /\ (~excused => WriteSound(h)')
  BY <1>1, CloseIs, TaskAfter
<1>3. ~excused => \A s \in Snaps : snapshot'[s].public => Addressed(s)'
  BY <1>1, <1>2, TaskAfter DEF PublishingConsistent, Addressed, TaskAt
<1>4. ShowsNothing /\ LeavesOthers(h) /\ UnpublishHides'
  BY <1>1 DEF ShowsNothing, LeavesOthers, UnpublishHides, PublishingTypeOK, Snapshot
<1>5. canvas' \in Maybe(Contents)
  BY <1>1 DEF Maybe
<1>. QED
  BY <1>1, <1>2, <1>3, <1>4, <1>5, PursueKeeps DEF PublishingTypeOK

LEMMA CutStep ==
  ASSUME PublishingConsistent, NEW h \in Handlers, Cut(h)
  PROVE  PublishingConsistent'
<1>1. /\ PublishingTypeOK /\ Close(h) /\ excused' = (excused \/ TaskAt(h, "link"))
      /\ UNCHANGED <<source, canvas, snapshot, minted, tasks, hidden, answers>>
      /\ (~excused => answers \subseteq {source.link})
  BY DEF PublishingConsistent, Cut
<1>2. excused' \in BOOLEAN /\ (excused => excused')
      /\ (~excused' => ~excused /\ task[h].pc # "link")
  BY <1>1 DEF PublishingTypeOK, TaskAt
<1>. QED  BY <1>1, <1>2, CloseKeeps DEF PublishingTypeOK

-----------------------------------------------------------------------------
(* The beginning of a request *)

\* What a request that begins leaves of the requests.
LEMMA BeginIs ==
  ASSUME PublishingTypeOK, NEW h \in Handlers, NEW t \in Task, Begin(h, t)
  PROVE  /\ task' \in [Handlers -> Task]
         /\ task'[h].op = t.op /\ task'[h].pc = t.pc /\ task'[h].read = t.read
         /\ task'[h].snap = t.snap
         /\ task'[h].alone => \A i \in Handlers : ~Publishing(i)
         /\ \A k \in Handlers \ {h} :
              /\ task'[k].op = task[k].op /\ task'[k].pc = task[k].pc
              /\ task'[k].read = task[k].read /\ task'[k].snap = task[k].snap
              /\ task'[k].views = task[k].views /\ task'[k].since = task[k].since
              /\ task'[k].alone => task[k].alone /\ t.op \notin {"publish", "create"}
<1>. DEFINE b == \A i \in Handlers : ~Publishing(i)
            publication == t.op \in {"publish", "create"}
            c(k) == task[k].alone /\ ~publication
            u == [t EXCEPT !.alone = b]
            v(k) == [task[k] EXCEPT !.alone = c(k)]
<1>1. u \in Task /\ u.op = t.op /\ u.pc = t.pc /\ u.read = t.read /\ u.snap = t.snap
      /\ u.alone = b
  <2>1. b \in BOOLEAN
    OBVIOUS
  <2>. HIDE DEF b
  <2>. QED  BY <2>1 DEF Task
<1>2. ASSUME NEW k \in Handlers
      PROVE  /\ v(k) \in Task /\ v(k).op = task[k].op /\ v(k).pc = task[k].pc
             /\ v(k).read = task[k].read /\ v(k).snap = task[k].snap
             /\ v(k).views = task[k].views /\ v(k).since = task[k].since
             /\ v(k).alone = c(k)
  <2>1. c(k) \in BOOLEAN /\ task[k] \in Task
    BY DEF PublishingTypeOK
  <2>. HIDE DEF c
  <2>. QED  BY <2>1 DEF Task
<1>3. task' = [k \in Handlers |-> IF k = h THEN u ELSE v(k)]
  BY DEF Begin
<1>. HIDE DEF u, v
<1>4. task' \in [Handlers -> Task]
  BY <1>1, <1>2, <1>3
<1>5. task'[h] = u /\ \A k \in Handlers \ {h} : task'[k] = v(k)
  BY <1>3
<1>6. /\ task'[h].op = t.op /\ task'[h].pc = t.pc /\ task'[h].read = t.read
      /\ task'[h].snap = t.snap
      /\ task'[h].alone => b
  BY <1>1, <1>5
<1>7. ASSUME NEW k \in Handlers \ {h}
      PROVE  /\ task'[k].op = task[k].op /\ task'[k].pc = task[k].pc
             /\ task'[k].read = task[k].read /\ task'[k].snap = task[k].snap
             /\ task'[k].views = task[k].views /\ task'[k].since = task[k].since
             /\ task'[k].alone => task[k].alone /\ ~publication
  <2>. HIDE DEF publication
  <2>. QED  BY <1>2, <1>5
<1>. QED  BY <1>4, <1>6, <1>7

LEMMA BeginKeeps ==
  ASSUME PublishingConsistent, NEW h \in Handlers, NEW t \in Task, Begin(h, t),
         \/ t.op = "publish" /\ t.pc = "source"
         \/ t.op = "create" /\ t.pc = "lookup"
         \/ t.op = "unpublish" /\ t.pc = "target" /\ t.read = NoItem
         \/ t.op = "delete" /\ t.pc = "read"
  PROVE  PublishingConsistent'
<1>. DEFINE publication == t.op \in {"publish", "create"}
<1>1. /\ PublishingTypeOK /\ task[h].pc = "idle" /\ task[h].op = "none"
      /\ tasks' = tasks + 1 /\ hidden' = (hidden /\ ~publication)
      /\ excused' = (\/ excused
                     \/ publication /\ \E k \in Handlers : Writing(k)
                     \/ t.op = "delete" /\ \E k \in Handlers : Publishing(k))
      /\ UNCHANGED <<source, canvas, snapshot, minted, answers>>
  BY DEF PublishingConsistent, Begin, TaskAt, Counted, TaskShape
<1>2. /\ task' \in [Handlers -> Task]
      /\ task'[h].op = t.op /\ task'[h].pc = t.pc /\ task'[h].read = t.read
      /\ task'[h].alone => \A i \in Handlers : ~Publishing(i)
      /\ \A k \in Handlers \ {h} :
           /\ task'[k].op = task[k].op /\ task'[k].pc = task[k].pc
           /\ task'[k].read = task[k].read /\ task'[k].snap = task[k].snap
           /\ task'[k].views = task[k].views /\ task'[k].since = task[k].since
           /\ task'[k].alone => task[k].alone /\ ~publication
  BY <1>1, BeginIs
<1>3. \A k \in Handlers \ {h} : /\ Publishing(k)' <=> Publishing(k)
                                /\ Writing(k)' <=> Writing(k)
  BY <1>2 DEF Publishing, Writing
<1>4. (Publishing(h)' <=> publication) /\ (Writing(h)' <=> publication \/ t.op = "delete")
  BY <1>2 DEF Publishing, Writing
<1>5. PublishingTypeOK'
  <2>1. tasks' \in Nat /\ hidden' \in BOOLEAN /\ excused' \in BOOLEAN
    BY <1>1 DEF PublishingTypeOK
  <2>. QED  BY <1>1, <1>2, <2>1 DEF PublishingTypeOK
<1>6. ASSUME NEW k \in Handlers PROVE TaskShape(k)'
  <2>1. CASE k = h
    BY <1>2, <1>4, <2>1 DEF TaskShape
  <2>2. CASE k # h
    BY <1>2, <1>3, <2>2 DEF PublishingConsistent, TaskShape
  <2>. QED  BY <2>1, <2>2
<1>7. ASSUME NEW k \in Handlers PROVE HideSound(k)'
  <2>1. CASE k = h
    BY <1>1, <1>2, <1>3, <1>4, <2>1, NoTaskIs DEF HideSound
  <2>2. CASE k # h
    <3>1. HideSound(k)
      BY DEF PublishingConsistent
    <3>. QED  BY <1>1, <1>2, <1>3, <1>4, <2>2, <3>1 DEF HideSound
  <2>. QED  BY <2>1, <2>2
<1>8. hidden' => \A k \in Handlers : ~Publishing(k)'
  BY <1>1, <1>3, <1>4 DEF PublishingConsistent
<1>9. UnpublishHides'
  BY <1>1 DEF PublishingConsistent, UnpublishHides
<1>10. ASSUME ~excused', NEW k \in Handlers PROVE WriteSound(k)'
  <2>1. ~excused /\ \A i \in Handlers : WriteSound(i)
    BY <1>1, <1>10 DEF PublishingConsistent
  <2>2. publication => \A i \in Handlers : ~Writing(i)
    BY <1>1, <1>10
  <2>3. t.op = "delete" => \A i \in Handlers : ~Publishing(i)
    BY <1>1, <1>10
  <2>4. \A i \in Handlers : Publishing(k)' /\ Writing(i)' => k = i
    BY <1>3, <1>4, <2>1, <2>2, <2>3 DEF WriteSound, Writing
  <2>5. CASE k = h
    BY <1>2, <2>4, <2>5 DEF WriteSound
  <2>6. CASE k # h
    <3>1. task'[k].op = task[k].op /\ task'[k].pc = task[k].pc
          /\ task'[k].read = task[k].read /\ task'[k].snap = task[k].snap
          /\ task'[k].views = task[k].views /\ task'[k].since = task[k].since
      BY <1>2, <2>6
    <3>. QED  BY <1>1, <2>1, <2>4, <3>1 DEF WriteSound
  <2>. QED  BY <2>5, <2>6
<1>11. ~excused' => answers' \subseteq {source'.link}
  BY <1>1 DEF PublishingConsistent
<1>12. ASSUME ~excused', NEW s \in Snaps, snapshot'[s].public PROVE Addressed(s)'
  <2>1. Addressed(s)
    BY <1>1, <1>12 DEF PublishingConsistent
  <2>. QED  BY <1>1, <1>2, <2>1 DEF Addressed, TaskAt
<1>13. source'.status = "none" => source'.link = None
  BY <1>1 DEF PublishingConsistent
<1>. QED
  BY <1>5, <1>6, <1>7, <1>8, <1>9, <1>10, <1>11, <1>12, <1>13 DEF PublishingConsistent

LEMMA BeginSteps ==
  ASSUME PublishingConsistent, NEW h \in Handlers,
         BeginPublish(h) \/ BeginCreate(h) \/ BeginUnpublish(h) \/ BeginDelete(h)
  PROVE  PublishingConsistent'
<1>1. CASE BeginPublish(h)
  <2>. DEFINE t == [NoTask EXCEPT !.op = "publish", !.pc = "source"]
  <2>1. t \in Task /\ t.op = "publish" /\ t.pc = "source"
    BY NoTaskIs DEF Task
  <2>2. Begin(h, t)
    BY <1>1 DEF BeginPublish
  <2>. HIDE DEF t
  <2>. QED  BY <2>1, <2>2, BeginKeeps
<1>2. CASE BeginCreate(h)
  <2>1. PICK c \in Contents :
          Begin(h, [NoTask EXCEPT !.op = "create", !.pc = "lookup", !.asked = c])
    BY <1>2 DEF BeginCreate
  <2>. DEFINE t == [NoTask EXCEPT !.op = "create", !.pc = "lookup", !.asked = c]
  <2>2. t \in Task /\ t.op = "create" /\ t.pc = "lookup"
    BY NoTaskIs DEF Task, Maybe
  <2>. HIDE DEF t
  <2>. QED  BY <2>1, <2>2, BeginKeeps DEF t
<1>3. CASE BeginUnpublish(h)
  <2>1. PICK s \in Maybe(minted) :
          Begin(h, [NoTask EXCEPT !.op = "unpublish", !.pc = "target", !.snap = s])
    BY <1>3 DEF BeginUnpublish
  <2>. DEFINE t == [NoTask EXCEPT !.op = "unpublish", !.pc = "target", !.snap = s]
  <2>2. s \in Maybe(Snaps)
    BY DEF Maybe, PublishingConsistent, PublishingTypeOK
  <2>3. t \in Task /\ t.op = "unpublish" /\ t.pc = "target" /\ t.read = NoItem
    BY <2>2, NoTaskIs DEF Task
  <2>. HIDE DEF t
  <2>. QED  BY <2>1, <2>3, BeginKeeps DEF t
<1>4. CASE BeginDelete(h)
  <2>. DEFINE t == [NoTask EXCEPT !.op = "delete", !.pc = "read"]
  <2>1. t \in Task /\ t.op = "delete" /\ t.pc = "read"
    BY NoTaskIs DEF Task
  <2>2. Begin(h, t)
    BY <1>4 DEF BeginDelete
  <2>. HIDE DEF t
  <2>. QED  BY <2>1, <2>2, BeginKeeps
<1>. QED  BY <1>1, <1>2, <1>3, <1>4

-----------------------------------------------------------------------------
(* Views and edits *)

\* What a view leaves of the requests: one that has read the views counts it as missed.
LEMMA ViewIs ==
  ASSUME PublishingTypeOK, NEW s \in Snaps, View(s)
  PROVE  /\ task' \in [Handlers -> Task]
         /\ \A k \in Handlers :
              /\ task'[k].op = task[k].op /\ task'[k].pc = task[k].pc
              /\ task'[k].read = task[k].read /\ task'[k].snap = task[k].snap
              /\ task'[k].views = task[k].views /\ task'[k].alone = task[k].alone
              /\ task'[k].since \in Nat /\ task'[k].since >= task[k].since
              /\ task[k].pc = "snapshot" /\ task[k].snap = s =>
                   task'[k].since = task[k].since + 1
         /\ snapshot' \in [Snaps -> Snapshot]
         /\ \A i \in Snaps :
              /\ snapshot'[i].public = snapshot[i].public
              /\ snapshot'[i].views =
                   IF i = s THEN snapshot[i].views + 1 ELSE snapshot[i].views
<1>. DEFINE u(k) == [task[k] EXCEPT !.since = task[k].since + 1]
<1>1. ASSUME NEW k \in Handlers
      PROVE  /\ u(k) \in Task /\ u(k).op = task[k].op /\ u(k).pc = task[k].pc
             /\ u(k).read = task[k].read /\ u(k).snap = task[k].snap
             /\ u(k).views = task[k].views /\ u(k).alone = task[k].alone
             /\ u(k).since = task[k].since + 1
             /\ task[k] \in Task /\ task[k].since \in Nat
  <2>1. task[k] \in Task
    BY DEF PublishingTypeOK
  <2>2. PICK n \in Nat : n = task[k].since + 1
    BY <2>1 DEF Task
  <2>. DEFINE w == [task[k] EXCEPT !.since = n]
  <2>3. w = u(k)
    BY <2>2
  <2>4. /\ w \in Task /\ w.op = task[k].op /\ w.pc = task[k].pc
        /\ w.read = task[k].read /\ w.snap = task[k].snap
        /\ w.views = task[k].views /\ w.alone = task[k].alone /\ w.since = n
    BY <2>1 DEF Task
  <2>5. task[k].since \in Nat
    BY <2>1 DEF Task
  <2>. HIDE DEF u, w
  <2>. QED  BY <2>1, <2>2, <2>3, <2>4, <2>5
<1>2. task' = [k \in Handlers |->
                 IF task[k].pc = "snapshot" /\ task[k].snap = s THEN u(k) ELSE task[k]]
  BY DEF View, TaskAt
<1>. HIDE DEF u
<1>3. task' \in [Handlers -> Task]
  BY <1>1, <1>2
<1>4. PICK n \in Nat : n = snapshot[s].views + 1
  BY DEF PublishingTypeOK, Snapshot
<1>. DEFINE q == [snapshot[s] EXCEPT !.views = n]
<1>5. q \in Snapshot /\ q.public = snapshot[s].public /\ q.views = n
  BY DEF PublishingTypeOK, Snapshot
<1>6. snapshot' = [snapshot EXCEPT ![s] = q]
  BY <1>4 DEF View
<1>. HIDE DEF q
<1>7. snapshot' \in [Snaps -> Snapshot]
      /\ \A i \in Snaps : snapshot'[i] = IF i = s THEN q ELSE snapshot[i]
  BY <1>5, <1>6 DEF PublishingTypeOK
<1>8. \A k \in Handlers :
        task'[k] = IF task[k].pc = "snapshot" /\ task[k].snap = s THEN u(k) ELSE task[k]
  BY <1>2
<1>9. \A k \in Handlers :
        /\ task'[k].op = task[k].op /\ task'[k].pc = task[k].pc
        /\ task'[k].read = task[k].read /\ task'[k].snap = task[k].snap
        /\ task'[k].views = task[k].views /\ task'[k].alone = task[k].alone
        /\ task'[k].since \in Nat /\ task'[k].since >= task[k].since
        /\ task[k].pc = "snapshot" /\ task[k].snap = s =>
             task'[k].since = task[k].since + 1
  BY <1>1, <1>8
<1>. QED  BY <1>3, <1>4, <1>5, <1>7, <1>9

LEMMA ViewStep ==
  ASSUME PublishingConsistent, NEW s \in Snaps, View(s)
  PROVE  PublishingConsistent'
<1>1. /\ PublishingTypeOK /\ tasks' = tasks + 1
      /\ UNCHANGED <<source, canvas, minted, hidden, excused, answers>>
  BY DEF PublishingConsistent, View, Counted, Unmarked
<1>2. /\ task' \in [Handlers -> Task]
      /\ \A k \in Handlers :
           /\ task'[k].op = task[k].op /\ task'[k].pc = task[k].pc
           /\ task'[k].read = task[k].read /\ task'[k].snap = task[k].snap
           /\ task'[k].views = task[k].views /\ task'[k].alone = task[k].alone
           /\ task'[k].since \in Nat /\ task'[k].since >= task[k].since
           /\ task[k].pc = "snapshot" /\ task[k].snap = s =>
                task'[k].since = task[k].since + 1
      /\ snapshot' \in [Snaps -> Snapshot]
      /\ \A i \in Snaps :
           /\ snapshot'[i].public = snapshot[i].public
           /\ snapshot'[i].views =
                IF i = s THEN snapshot[i].views + 1 ELSE snapshot[i].views
  BY <1>1, ViewIs
<1>3. PublishingTypeOK'
  BY <1>1, <1>2 DEF PublishingTypeOK
<1>4. \A k \in Handlers : Publishing(k)' = Publishing(k) /\ Writing(k)' = Writing(k)
  BY <1>2 DEF Publishing, Writing
<1>5. ASSUME NEW k \in Handlers PROVE TaskShape(k)' /\ HideSound(k)'
  <2>1. TaskShape(k) /\ HideSound(k)
    BY DEF PublishingConsistent
  <2>2. TaskShape(k)'
    BY <1>2, <1>4, <2>1 DEF TaskShape
  <2>3. HideSound(k)'
    BY <1>1, <1>2, <1>4, <2>1 DEF HideSound
  <2>. QED  BY <2>2, <2>3
<1>6. UnpublishHides'
  BY <1>1, <1>2 DEF PublishingConsistent, UnpublishHides, PublishingTypeOK, Item, Maybe
<1>7. ASSUME ~excused, NEW k \in Handlers PROVE WriteSound(k)'
  <2>1. WriteSound(k) /\ TaskShape(k) /\ task[k] \in Task
    BY <1>7 DEF PublishingConsistent, PublishingTypeOK
  <2>2. task[k].pc = "snapshot" =>
          task'[k].views + task'[k].since >= snapshot'[task'[k].snap].views
    <3>. SUFFICES ASSUME task[k].pc = "snapshot"
                  PROVE  task[k].views + task'[k].since >= snapshot'[task[k].snap].views
      BY <1>2
    <3>1. PICK i \in Snaps : i = task[k].snap
      BY <2>1 DEF TaskShape
    <3>2. task[k].views + task[k].since >= snapshot[i].views
      BY <2>1, <3>1 DEF WriteSound
    <3>3. task[k].views \in Nat /\ task[k].since \in Nat /\ snapshot[i].views \in Nat
      BY <1>1, <2>1 DEF PublishingTypeOK, Task, Snapshot
    <3>4. task'[k].since \in Nat /\ task'[k].since >= task[k].since
          /\ (i = s => task'[k].since = task[k].since + 1)
      BY <1>2, <3>1
    <3>5. snapshot'[i].views = IF i = s THEN snapshot[i].views + 1 ELSE snapshot[i].views
      BY <1>2
    <3>. QED  BY <3>1, <3>2, <3>3, <3>4, <3>5
  <2>3. \A i \in Handlers : (Publishing(k) /\ Writing(i) => k = i)'
    BY <1>4, <2>1 DEF WriteSound
  <2>4. /\ task'[k].pc = task[k].pc /\ task'[k].read = task[k].read
        /\ task'[k].snap = task[k].snap
    BY <1>2
  <2>. QED  BY <1>1, <2>1, <2>2, <2>3, <2>4 DEF WriteSound
<1>8. ASSUME ~excused, NEW i \in Snaps, snapshot'[i].public PROVE Addressed(i)'
  <2>1. Addressed(i)
    BY <1>2, <1>8 DEF PublishingConsistent
  <2>. QED  BY <1>1, <1>2, <2>1 DEF Addressed, TaskAt
<1>. QED
  BY <1>1, <1>3, <1>4, <1>5, <1>6, <1>7, <1>8 DEF PublishingConsistent

LEMMA EditCanvasStep ==
  ASSUME PublishingConsistent, EditCanvas
  PROVE  PublishingConsistent'
<1>1. /\ PublishingTypeOK /\ tasks' = tasks + 1 /\ tasks' \in Nat
      /\ canvas' \in Contents
      /\ UNCHANGED <<snapshot, minted, task, hidden, excused, answers>>
  BY DEF PublishingConsistent, PublishingTypeOK, EditCanvas, Counted, Unmarked
<1>2. /\ source' \in Item /\ source'.link = source.link
      /\ source'.public = source.public /\ source'.status = source.status
  <2>1. PICK n \in Nat : n = tasks'
    BY <1>1
  <2>2. source' = [source EXCEPT !.at = n]
    BY <2>1 DEF EditCanvas
  <2>. QED  BY <1>1, <2>2 DEF PublishingTypeOK, Item
<1>3. PublishingTypeOK'
  BY <1>1, <1>2 DEF PublishingTypeOK, Maybe
<1>4. \A k \in Handlers : Publishing(k)' = Publishing(k) /\ Writing(k)' = Writing(k)
  BY <1>1 DEF Publishing, Writing
<1>5. ASSUME NEW k \in Handlers PROVE TaskShape(k)' /\ HideSound(k)'
  <2>1. TaskShape(k) /\ HideSound(k)
    BY DEF PublishingConsistent
  <2>2. TaskShape(k)'
    BY <1>1, <1>4, <2>1 DEF TaskShape
  <2>3. HideSound(k)'
    BY <1>1, <1>2, <1>4, <2>1 DEF HideSound
  <2>. QED  BY <2>2, <2>3
<1>6. UnpublishHides'
  BY <1>1, <1>2 DEF PublishingConsistent, UnpublishHides
<1>7. ASSUME ~excused, NEW k \in Handlers PROVE WriteSound(k)'
  <2>1. WriteSound(k)
    BY <1>7 DEF PublishingConsistent
  <2>2. \A i \in Handlers : (Publishing(k) /\ Writing(i) => k = i)'
    BY <1>4, <2>1 DEF WriteSound
  <2>. QED  BY <1>1, <1>2, <2>1, <2>2 DEF WriteSound
<1>8. ASSUME ~excused, NEW i \in Snaps, snapshot'[i].public PROVE Addressed(i)'
  <2>1. Addressed(i)
    BY <1>1, <1>8 DEF PublishingConsistent
  <2>. QED  BY <1>1, <1>2, <2>1 DEF Addressed, TaskAt
<1>. QED
  BY <1>1, <1>2, <1>3, <1>4, <1>5, <1>6, <1>7, <1>8 DEF PublishingConsistent

LEMMA PublishingStutters ==
  ASSUME PublishingConsistent, UNCHANGED publishingVars
  PROVE  PublishingConsistent'
<1>1. /\ PublishingTypeOK' /\ UnpublishHides'
      /\ UNCHANGED <<source, snapshot, task, hidden, excused, answers>>
  BY DEF PublishingConsistent, publishingVars, PublishingTypeOK, UnpublishHides
<1>2. \A k \in Handlers : TaskShape(k)' /\ HideSound(k)'
  BY <1>1 DEF PublishingConsistent, TaskShape, HideSound, Publishing
<1>3. ~excused => \A k \in Handlers : WriteSound(k)'
  BY <1>1 DEF PublishingConsistent, WriteSound, Publishing, Writing
<1>4. ~excused => \A s \in Snaps : snapshot[s].public => Addressed(s)'
  BY <1>1 DEF PublishingConsistent, Addressed, TaskAt
<1>. QED  BY <1>1, <1>2, <1>3, <1>4 DEF PublishingConsistent, Publishing

LEMMA PublishingSteps ==
  ASSUME PublishingConsistent, [PublishingNext]_publishingVars
  PROVE  PublishingConsistent'
<1>1. ASSUME NEW h \in Handlers, Step(h) PROVE PublishingConsistent'
  <2>1. CASE BeginPublish(h) \/ BeginCreate(h) \/ BeginUnpublish(h) \/ BeginDelete(h)
    BY <2>1, BeginSteps
  <2>2. CASE LookUpKey(h)
    BY <2>2, LookUpKeyStep
  <2>3. CASE CompareKey(h)
    BY <2>3, CompareKeyStep
  <2>4. CASE PutSource(h)
    BY <2>4, PutSourceStep
  <2>5. CASE ReadSource(h)
    BY <2>5, ReadSourceStep
  <2>6. CASE ReadCanvases(h)
    BY <2>6, ReadCanvasesStep
  <2>7. CASE ReadPrevious(h)
    BY <2>7, ReadPreviousStep
  <2>8. CASE PutSnapshot(h)
    BY <2>8, PutSnapshotStep
  <2>9. CASE LinkSource(h)
    BY <2>9, LinkSourceStep
  <2>10. CASE ReadTarget(h)
    BY <2>10, ReadTargetStep
  <2>11. CASE HideSource(h)
    BY <2>11, HideSourceStep
  <2>12. CASE HideSnapshot(h)
    BY <2>12, HideSnapshotStep
  <2>13. CASE ReadDoomed(h)
    BY <2>13, ReadDoomedStep
  <2>14. CASE DeleteItems(h)
    BY <2>14, DeleteItemsStep
  <2>15. CASE DeleteCanvases(h)
    BY <2>15, DeleteCanvasesStep
  <2>16. CASE Cut(h)
    BY <2>16, CutStep
  <2>. QED
    BY <1>1, <2>1, <2>2, <2>3, <2>4, <2>5, <2>6, <2>7, <2>8, <2>9, <2>10, <2>11, <2>12,
       <2>13, <2>14, <2>15, <2>16 DEF Step
<1>2. CASE \E s \in Snaps : View(s)
  BY <1>2, ViewStep
<1>3. CASE EditCanvas
  BY <1>3, EditCanvasStep
<1>4. CASE PublishingRest \/ UNCHANGED publishingVars
  BY <1>4, PublishingStutters DEF PublishingRest
<1>. QED  BY <1>1, <1>2, <1>3, <1>4 DEF PublishingNext

LEMMA PublishingStarts ==
  ASSUME PublishingInit
  PROVE  PublishingConsistent
<1>1. \A h \in Handlers : task[h] = NoTask
  BY DEF PublishingInit
<1>2. ASSUME NEW h \in Handlers PROVE TaskShape(h) /\ HideSound(h) /\ WriteSound(h)
  BY <1>1, NoTaskIs DEF TaskShape, HideSound, WriteSound, Publishing, Writing
<1>. DEFINE Begun == /\ source \in Item /\ minted \subseteq Snaps
                     /\ source.status = "none" => source.link = None
                     /\ \A s \in minted : s = source.link
<1>3. Begun
  <2>1. CASE source = NoItem /\ minted = {}
    BY <2>1, NoTaskIs
  <2>2. ASSUME NEW c \in Contents, minted = {},
               source = [NoItem EXCEPT !.status = "stored", !.content = c]
        PROVE  Begun
    BY <2>2, NoTaskIs DEF Item, Maybe
  <2>3. ASSUME NEW c \in Contents, NEW s \in Snaps, minted = {s},
               source = [NoItem EXCEPT !.status = "stored", !.content = c,
                                       !.public = TRUE, !.link = s]
        PROVE  Begun
    BY <2>3, NoTaskIs DEF Item, Maybe
  <2>. QED  BY <2>1, <2>2, <2>3 DEF PublishingInit
<1>4. NoSnapshot \in Snapshot /\ ~NoSnapshot.public
  BY DEF NoSnapshot, Snapshot, Maybe
<1>. DEFINE q == [NoSnapshot EXCEPT !.status = "stored", !.public = TRUE,
                                    !.content = source.content]
<1>5. q \in Snapshot
  BY <1>3, <1>4 DEF Snapshot, Item
<1>6. snapshot = [s \in Snaps |-> IF s \in minted THEN q ELSE NoSnapshot]
  BY DEF PublishingInit
<1>. HIDE DEF q
<1>7. snapshot \in [Snaps -> Snapshot] /\ \A s \in Snaps : snapshot[s].public => s \in minted
  BY <1>4, <1>5, <1>6
<1>8. PublishingTypeOK
  BY <1>3, <1>7, NoTaskIs DEF PublishingInit, PublishingTypeOK, Maybe
<1>9. \A s \in Snaps : snapshot[s].public => Addressed(s)
  BY <1>3, <1>7 DEF Addressed
<1>10. ~hidden /\ answers = {}
  BY DEF PublishingInit
<1>. QED
  BY <1>2, <1>3, <1>8, <1>9, <1>10 DEF PublishingConsistent, UnpublishHides

\* What a step may do to the views of a snapshot.
LEMMA ViewsStep ==
  ASSUME PublishingConsistent, [PublishingNext]_publishingVars, ~excused, NEW s \in Snaps,
         snapshot'[s].status = "stored"
  PROVE  \/ snapshot'[s].views >= snapshot[s].views
         \/ \E h \in Handlers :
              /\ TaskAt(h, "snapshot") /\ task[h].snap = s
              /\ snapshot'[s].views + task[h].since >= snapshot[s].views
<1>1. PublishingTypeOK /\ snapshot[s] \in Snapshot /\ snapshot[s].views \in Nat
  BY DEF PublishingConsistent, PublishingTypeOK, Snapshot
<1>2. CASE UNCHANGED snapshot
  BY <1>1, <1>2
<1>3. ASSUME NEW h \in Handlers, PutSnapshot(h)
      PROVE  \/ snapshot'[s].views >= snapshot[s].views
             \/ /\ TaskAt(h, "snapshot") /\ task[h].snap = s
                /\ snapshot'[s].views + task[h].since >= snapshot[s].views
  <2>1. WriteSound(h) /\ task[h].pc = "snapshot"
    BY <1>3 DEF PublishingConsistent, PutSnapshot, TaskAt
  <2>2. CASE task[h].snap = s
    <3>. DEFINE q == [status |-> "stored", public |-> TRUE,
                      content |-> task[h].content, views |-> task[h].views]
    <3>1. q.views = task[h].views
      OBVIOUS
    <3>2. snapshot' = [snapshot EXCEPT ![s] = q]
      BY <1>3, <2>2 DEF PutSnapshot
    <3>. HIDE DEF q
    <3>3. snapshot'[s].views = task[h].views
      BY <1>1, <3>1, <3>2 DEF PublishingTypeOK
    <3>. QED  BY <2>1, <2>2, <3>3 DEF WriteSound, TaskAt
  <2>3. CASE task[h].snap # s
    <3>1. snapshot'[s] = snapshot[s]
      BY <1>1, <1>3, <2>3 DEF PutSnapshot, PublishingTypeOK
    <3>. QED  BY <1>1, <3>1
  <2>. QED  BY <2>2, <2>3
<1>4. ASSUME NEW h \in Handlers, HideSnapshot(h)
      PROVE  snapshot'[s].views >= snapshot[s].views
  <2>. DEFINE u == Updated(snapshot[s])
              q == [u EXCEPT !.public = FALSE]
  <2>1. u \in Snapshot /\ u.views = snapshot[s].views
    BY <1>1 DEF Updated, Snapshot
  <2>. HIDE DEF u
  <2>2. q.views = u.views
    BY <2>1 DEF Snapshot
  <2>3. CASE task[h].snap = s
    <3>1. snapshot' = [snapshot EXCEPT ![s] = q]
      BY <1>4, <2>3 DEF HideSnapshot, u
    <3>. HIDE DEF q
    <3>2. snapshot'[s] = q
      BY <1>1, <3>1 DEF PublishingTypeOK
    <3>. QED  BY <1>1, <2>1, <2>2, <3>2
  <2>4. CASE task[h].snap # s
    <3>1. snapshot'[s] = snapshot[s]
      BY <1>1, <1>4, <2>4 DEF HideSnapshot, PublishingTypeOK
    <3>. QED  BY <1>1, <3>1
  <2>. QED  BY <2>3, <2>4
<1>5. ASSUME NEW h \in Handlers, DeleteItems(h)
      PROVE  snapshot'[s].views >= snapshot[s].views
  <2>1. snapshot'[s] \in {NoSnapshot, snapshot[s]}
    BY <1>1, <1>5 DEF DeleteItems, PublishingTypeOK
  <2>2. NoSnapshot.status # "stored"
    BY DEF NoSnapshot
  <2>. QED  BY <1>1, <2>1, <2>2
<1>6. ASSUME NEW i \in Snaps, View(i) PROVE snapshot'[s].views >= snapshot[s].views
  BY <1>1, <1>6, ViewIs
<1>7. ASSUME NEW h \in Handlers, Step(h), ~PutSnapshot(h), ~HideSnapshot(h), ~DeleteItems(h)
      PROVE  UNCHANGED snapshot
  BY <1>7 DEF Step, BeginPublish, BeginCreate, BeginUnpublish, BeginDelete, Begin,
              LookUpKey, CompareKey, PutSource, ReadSource, ReadCanvases, ReadPrevious,
              LinkSource, ReadTarget, HideSource, ReadDoomed, DeleteCanvases, Cut, OnlyTask
<1>8. CASE EditCanvas \/ PublishingRest \/ UNCHANGED publishingVars
  BY <1>2, <1>8 DEF EditCanvas, PublishingRest, publishingVars
<1>. QED
  BY <1>2, <1>3, <1>4, <1>5, <1>6, <1>7, <1>8 DEF PublishingNext

\* The invariant of publishing: who writes is alone unless excused, and knows the link of
\* the design; what an unpublication beside no publication has hidden stays hidden.
THEOREM PublishingConsistentCorrect == PublishingSpec => []PublishingConsistent
  BY PublishingStarts, PublishingSteps, PTL DEF PublishingSpec

\* An unpublished design shows neither itself nor its snapshot until it is published anew.
THEOREM UnpublishHidesCorrect == PublishingSpec => []UnpublishHides
<1>1. PublishingConsistent => UnpublishHides
  BY DEF PublishingConsistent
<1>. QED  BY <1>1, PublishingConsistentCorrect, PTL

\* A design has one public address, and MCP clients that use its key are told no other.
THEOREM OneAddressCorrect == PublishingSpec => []OneAddress
<1>1. PublishingConsistent => OneAddress
  <2>. SUFFICES ASSUME PublishingConsistent, ~excused
                PROVE  /\ Cardinality(answers) <= 1
                       /\ \A s \in Snaps : snapshot[s].public => Addressed(s)
    BY DEF OneAddress, Addressed
  <2>1. IsFiniteSet({source.link}) /\ Cardinality({source.link}) = 1
    BY FS_Singleton
  <2>2. answers \subseteq {source.link}
    BY DEF PublishingConsistent
  <2>3. Cardinality(answers) <= 1
    BY <2>1, <2>2, FS_Subset
  <2>. QED  BY <2>3 DEF PublishingConsistent
<1>. QED  BY <1>1, PublishingConsistentCorrect, PTL

\* No publication loses views but those counted between its read and its write.
THEOREM ViewsAreKept == PublishingSpec => ViewsKept
<1>1. PublishingConsistent /\ [PublishingNext]_publishingVars =>
        [\A s \in Snaps :
           ~excused /\ snapshot[s].status = "stored" /\ snapshot'[s].status = "stored" =>
             \/ snapshot'[s].views >= snapshot[s].views
             \/ \E h \in Handlers :
                  /\ TaskAt(h, "snapshot") /\ task[h].snap = s
                  /\ snapshot'[s].views + task[h].since >= snapshot[s].views]_publishingVars
  BY ViewsStep
<1>. QED  BY <1>1, PublishingConsistentCorrect, PTL DEF PublishingSpec, ViewsKept

-----------------------------------------------------------------------------
(* The backfill: its stages *)

\* Which stage follows which, and what it has to scan.
LEMMA NextStage ==
  /\ After["table"] = "scan" /\ After["scan"] = "fill" /\ After["fill"] = "board"
  /\ After["board"] = "shares" /\ After["shares"] = "slugIndex"
  /\ After["slugIndex"] = "boardIndex" /\ After["boardIndex"] = "rest"
  /\ Keys["scan"] = Problems /\ Keys["board"] = Attempts /\ Keys["shares"] = Designs
  /\ Keys["fill"] = {} /\ Keys["slugIndex"] = {} /\ Keys["boardIndex"] = {}
  /\ Keys["rest"] = {}
  BY DEF After, Keys

LEMMA StagesAre ==
  Stages = {"table", "scan", "fill", "board", "shares", "slugIndex", "boardIndex"}
  BY DEF Stages, After

\* The stage that follows begins with these rows and all of its keys.
LEMMA ProceedIs ==
  ASSUME NEW stage \in Stages, job.stage = stage, NEW rows, Proceed(rows),
         rows \subseteq ProblemRead \cup AttemptRead \cup Put
  PROVE  /\ job' \in Job /\ job'.stage = After[stage] /\ job'.todo = Keys[After[stage]]
         /\ job'.page = rows /\ done' = done \cup {stage}
<1>1. /\ After[stage] \in Stages \cup {"rest"}
      /\ Keys[After[stage]] \subseteq Problems \cup Attempts \cup Designs
  BY NextStage, StagesAre
<1>2. job' = [stage |-> After[stage], todo |-> Keys[After[stage]], page |-> rows]
      /\ done' = done \cup {stage}
  BY DEF Proceed
<1>. QED  BY <1>1, <1>2 DEF Job

\* The end of a run.
LEMMA FailIs ==
  ASSUME Fail
  PROVE  job' \in Job /\ job'.stage = "rest" /\ done' = done
  BY DEF Fail, Waiting, Job

\* What is left of a page, of the same stage.
LEMMA PageIs ==
  ASSUME job \in Job, NEW todo \in SUBSET (Problems \cup Attempts \cup Designs),
         NEW page \in SUBSET (ProblemRead \cup AttemptRead \cup Put),
         job' = [job EXCEPT !.todo = todo, !.page = page]
  PROVE  job' \in Job /\ job'.stage = job.stage /\ job'.todo = todo /\ job'.page = page
  BY DEF Job

LEMMA SamePageIs ==
  ASSUME job \in Job, NEW page \in SUBSET (ProblemRead \cup AttemptRead \cup Put),
         job' = [job EXCEPT !.page = page]
  PROVE  /\ job' \in Job /\ job'.stage = job.stage /\ job'.todo = job.todo
         /\ job'.page = page
  BY DEF Job

\* A step that leaves the attempts leaves what is known of them; so for problems and
\* designs.
LEMMA BoardStays ==
  ASSUME BackfillConsistent, UNCHANGED attempt, writes' \in Nat, writes' >= writes,
         "board" \in done' => "board" \in done, job' = job \/ job'.stage # "board"
  PROVE  BoardTrue' /\ BoardSound' /\ \A a \in Attempts : attempt'[a].at <= writes'
<1>1. /\ BackfillTypeOK /\ BoardTrue /\ BoardSound
      /\ \A a \in Attempts : attempt[a].at <= writes
  BY DEF BackfillConsistent
<1>2. BoardTrue'
  BY <1>1 DEF BoardTrue, OnBoard
<1>3. \A a \in Attempts : attempt'[a].at <= writes'
  BY <1>1 DEF BackfillTypeOK, AttemptItem
<1>4. ASSUME job' = job, job.stage = "board", NEW read \in job.page
      PROVE  read.row.at <= writes'
  <2>1. read.row.at \in Nat /\ read.row.at <= writes
    BY <1>1, <1>4 DEF BoardSound, AttemptRead, AttemptItem
  <2>. QED  BY <1>1, <2>1 DEF BackfillTypeOK
<1>5. BoardSound'
  BY <1>1, <1>4 DEF BoardSound, OnBoard
<1>. QED  BY <1>2, <1>3, <1>5

LEMMA SlugsStay ==
  ASSUME BackfillConsistent, UNCHANGED problem, touched \subseteq touched',
         "fill" \in done' => "fill" \in done,
         job' = job \/ job'.stage \notin {"scan", "fill"}
  PROVE  SlugsTrue' /\ ScanSound' /\ FillSound'
<1>1. SlugsTrue /\ ScanSound /\ FillSound
  BY DEF BackfillConsistent
<1>2. OwnSlugs => OwnSlugs'
  BY DEF OwnSlugs, Slug
<1>3. SlugsTrue'
  BY <1>1, <1>2 DEF SlugsTrue
<1>4. ScanSound' /\ FillSound'
  BY <1>1, <1>2 DEF ScanSound, FillSound, AsRead
<1>. QED  BY <1>3, <1>4

LEMMA SharesStay ==
  ASSUME BackfillConsistent, UNCHANGED <<design, member>>, touched \subseteq touched',
         "shares" \in done' => "shares" \in done, job' = job \/ job'.stage # "shares"
  PROVE  SharesTrue' /\ SharesSound'
<1>1. SharesTrue /\ SharesSound
  BY DEF BackfillConsistent
<1>2. SharesTrue'
  BY <1>1 DEF SharesTrue, HasRow
<1>3. SharesSound'
  BY <1>1 DEF SharesSound, HasRow
<1>. QED  BY <1>2, <1>3

\* A step of the script that changes no record and ends or goes on elsewhere.
LEMMA ElsewhereKeeps ==
  ASSUME BackfillConsistent, UNCHANGED <<Data, starts, writes, touched>>,
         job' \in Job, job' = job \/ job'.stage \in {"rest", "table", "slugIndex", "boardIndex"},
         done' \subseteq Stages, done' \cap {"fill", "board", "shares"} \subseteq done,
         resource' \in [{"shares", "slug", "leaderboard"} ->
                          {"none", "building", "active", "other"}]
  PROVE  BackfillConsistent'
<1>1. BackfillTypeOK'
  BY DEF BackfillConsistent, BackfillTypeOK, Data
<1>2. writes' \in Nat /\ writes' >= writes
  BY DEF BackfillConsistent, BackfillTypeOK
<1>3. /\ BoardTrue' /\ BoardSound' /\ \A a \in Attempts : attempt'[a].at <= writes'
  BY <1>2, BoardStays DEF Data
<1>4. SlugsTrue' /\ ScanSound' /\ FillSound'
  BY SlugsStay DEF Data
<1>5. SharesTrue' /\ SharesSound'
  BY SharesStay DEF Data
<1>. QED  BY <1>1, <1>3, <1>4, <1>5 DEF BackfillConsistent

LEMMA FailKeeps ==
  ASSUME BackfillConsistent, Fail, UNCHANGED <<Data, resource, starts, writes, touched>>
  PROVE  BackfillConsistent'
<1>1. BackfillTypeOK
  BY DEF BackfillConsistent
<1>. QED  BY <1>1, FailIs, ElsewhereKeeps DEF BackfillTypeOK

-----------------------------------------------------------------------------
(* The steps of the script *)

LEMMA StartStep ==
  ASSUME BackfillConsistent, Start
  PROVE  BackfillConsistent'
<1>1. BackfillTypeOK /\ starts' = starts + 1 /\ touched' = {} /\ done' = {}
      /\ UNCHANGED <<Data, resource, writes>>
  BY DEF BackfillConsistent, Start
<1>2. job' \in Job /\ job'.stage = "table"
  BY StagesAre DEF Start, Waiting, Job
<1>3. BackfillTypeOK'
  BY <1>1, <1>2 DEF BackfillTypeOK, Data
<1>4. writes' \in Nat /\ writes' >= writes
  BY <1>1 DEF BackfillTypeOK
<1>5. /\ BoardTrue' /\ BoardSound' /\ \A a \in Attempts : attempt'[a].at <= writes'
  BY <1>1, <1>2, <1>4, BoardStays DEF Data
<1>6. SlugsTrue' /\ SharesTrue' /\ ScanSound' /\ FillSound' /\ SharesSound'
  BY <1>1, <1>2 DEF SlugsTrue, SharesTrue, ScanSound, FillSound, SharesSound
<1>. QED  BY <1>3, <1>5, <1>6 DEF BackfillConsistent

LEMMA ProvideStep ==
  ASSUME BackfillConsistent, Provide
  PROVE  BackfillConsistent'
<1>1. /\ BackfillTypeOK /\ job.stage \in {"table", "slugIndex", "boardIndex"}
      /\ UNCHANGED <<Data, starts, writes, touched>>
  BY DEF BackfillConsistent, Provide, Provides, At
<1>2. CASE UNCHANGED <<job, done>> /\ \E r \in {"shares", "slug", "leaderboard"} :
             resource' = [resource EXCEPT ![r] = "building"]
  BY <1>1, <1>2, ElsewhereKeeps DEF BackfillTypeOK
<1>3. CASE Fail /\ UNCHANGED resource
  BY <1>1, <1>3, FailKeeps
<1>4. CASE Proceed({}) /\ UNCHANGED resource
  <2>1. /\ job' \in Job /\ job'.stage = After[job.stage] /\ job'.todo = Keys[After[job.stage]]
        /\ job'.page = {} /\ done' = done \cup {job.stage}
    BY <1>1, <1>4, StagesAre, ProceedIs
  <2>2. done' \subseteq Stages /\ done' \cap {"fill", "board", "shares"} \subseteq done
    BY <1>1, <2>1, StagesAre DEF BackfillTypeOK
  <2>3. CASE job.stage # "table"
    <3>1. job'.stage \in {"rest", "table", "slugIndex", "boardIndex"}
      BY <1>1, <2>1, <2>3, NextStage
    <3>. QED  BY <1>1, <1>4, <2>1, <2>2, <3>1, ElsewhereKeeps DEF BackfillTypeOK
  <2>4. CASE job.stage = "table"
    <3>1. job'.stage = "scan" /\ job'.todo = Problems
      BY <2>1, <2>4, NextStage
    <3>2. ScanSound'
      BY <2>1, <3>1 DEF ScanSound
    <3>3. BackfillTypeOK'
      BY <1>1, <1>4, <2>1, <2>2 DEF BackfillTypeOK, Data
    <3>4. writes' \in Nat /\ writes' >= writes
      BY <1>1 DEF BackfillTypeOK
    <3>5. BoardTrue' /\ BoardSound' /\ \A a \in Attempts : attempt'[a].at <= writes'
      BY <1>1, <2>2, <3>1, <3>4, BoardStays DEF Data
    <3>6. SharesTrue' /\ SharesSound'
      BY <1>1, <2>2, <3>1, SharesStay DEF Data
    <3>7. SlugsTrue' /\ FillSound'
      BY <1>1, <2>2, <3>1 DEF Data, BackfillConsistent, SlugsTrue, OwnSlugs, Slug, FillSound
    <3>. QED  BY <3>2, <3>3, <3>5, <3>6, <3>7 DEF BackfillConsistent
  <2>. QED  BY <2>3, <2>4
<1>5. Provides[job.stage] \in {"shares", "slug", "leaderboard"}
  BY <1>1 DEF Provides
<1>. QED  BY <1>2, <1>3, <1>4, <1>5 DEF Provide

LEMMA BuiltStep ==
  ASSUME BackfillConsistent, Built
  PROVE  BackfillConsistent'
<1>1. BackfillTypeOK
  BY DEF BackfillConsistent
<1>2. PICK r \in DOMAIN resource : resource' = [resource EXCEPT ![r] = "active"]
  BY DEF Built
<1>. QED  BY <1>1, <1>2, ElsewhereKeeps DEF Built, BackfillTypeOK

LEMMA ScanProblemsStep ==
  ASSUME BackfillConsistent, ScanProblems
  PROVE  BackfillConsistent'
<1>1. /\ BackfillTypeOK /\ ScanSound /\ job.stage = "scan"
      /\ UNCHANGED <<Data, resource, starts, writes, touched, done>>
  BY DEF BackfillConsistent, ScanProblems, At
<1>2. PICK keys \in SUBSET job.todo :
        job' = [job EXCEPT !.todo = @ \ keys,
                  !.page = @ \cup {[id |-> k, row |-> problem[k]] : k \in keys}]
  BY DEF ScanProblems, ReadPage
<1>. DEFINE todo == job.todo \ keys
            page == job.page \cup {AsRead(k) : k \in keys \cap Problems}
<1>3. job \in Job /\ job.todo \subseteq Problems \cup Attempts \cup Designs
  BY <1>1 DEF BackfillTypeOK, Job
<1>. QED
  <2>1. CASE job.todo \subseteq Problems
    <3>1. job' = [job EXCEPT !.todo = todo, !.page = page]
      <4>1. keys \cap Problems = keys
        BY <2>1
      <4>. QED  BY <1>2, <4>1 DEF AsRead
    <3>2. \A k \in Problems : AsRead(k) \in ProblemRead
      BY <1>1 DEF AsRead, ProblemRead, BackfillTypeOK
    <3>3. page \subseteq ProblemRead /\ todo \subseteq Problems
      BY <1>1, <2>1, <3>2 DEF ScanSound
    <3>4. \A p \in Problems \ touched : p \in todo \/ AsRead(p) \in page
      BY <1>1, <2>1 DEF ScanSound
    <3>. HIDE DEF todo, page
    <3>5. job' \in Job /\ job'.stage = "scan" /\ job'.todo = todo /\ job'.page = page
      BY <1>1, <1>3, <3>1, <3>3, PageIs
    <3>6. ScanSound'
      BY <1>1, <3>3, <3>4, <3>5 DEF ScanSound, AsRead, Data
    <3>7. BackfillTypeOK'
      BY <1>1, <3>5 DEF BackfillTypeOK, Data
    <3>8. writes' \in Nat /\ writes' >= writes
      BY <1>1 DEF BackfillTypeOK
    <3>9. BoardTrue' /\ BoardSound' /\ \A a \in Attempts : attempt'[a].at <= writes'
      BY <1>1, <3>5, <3>8, BoardStays DEF Data
    <3>10. SharesTrue' /\ SharesSound'
      BY <1>1, <3>5, SharesStay DEF Data
    <3>11. SlugsTrue' /\ FillSound'
      BY <1>1, <3>5 DEF Data, BackfillConsistent, SlugsTrue, OwnSlugs, Slug, FillSound
    <3>. QED  BY <3>6, <3>7, <3>9, <3>10, <3>11 DEF BackfillConsistent
  <2>. QED  BY <1>1, <2>1 DEF ScanSound

\* Every problem that nobody edited is in what was read, as it is, and what was read has
\* slugs that differ.
LEMMA CheckSlugsStep ==
  ASSUME BackfillConsistent, CheckSlugs
  PROVE  BackfillConsistent'
<1>1. /\ BackfillTypeOK /\ ScanSound /\ job.stage = "scan" /\ job.todo = {}
      /\ UNCHANGED <<Data, resource, starts, writes, touched>>
  BY DEF BackfillConsistent, CheckSlugs, At
<1>2. CASE Fail
  BY <1>1, <1>2, FailKeeps
<1>3. CASE /\ ~ \E read \in job.page :
                   \/ Effective(read) = None
                   \/ \E other \in job.page :
                        other.id # read.id /\ Effective(other) = Effective(read)
           /\ Proceed({read \in job.page : Missing(read)})
  <2>. DEFINE rows == {read \in job.page : Missing(read)}
  <2>1. /\ \A read \in job.page : Effective(read) # None
        /\ \A read, other \in job.page :
             other.id # read.id => Effective(other) # Effective(read)
    BY <1>3
  <2>2. \A p \in Problems \ touched : AsRead(p) \in job.page
    BY <1>1 DEF ScanSound
  <2>3. \A p \in Problems : AsRead(p).id = p /\ Effective(AsRead(p)) = Slug(p)
    BY DEF AsRead, Effective, Missing, Slug
  <2>4. OwnSlugs
    BY <2>1, <2>2, <2>3 DEF OwnSlugs
  <2>5. \A p \in Problems \ touched : problem[p].slug # None \/ AsRead(p) \in rows
    BY <2>2 DEF AsRead, Missing
  <2>6. rows \subseteq ProblemRead
    BY <1>1 DEF ScanSound
  <2>7. Proceed(rows)
    BY <1>3
  <2>. HIDE DEF rows
  <2>8. /\ job' \in Job /\ job'.stage = "fill" /\ job'.page = rows
        /\ done' = done \cup {"scan"}
    BY <1>1, <2>6, <2>7, ProceedIs, NextStage, StagesAre
  <2>9. BackfillTypeOK'
    BY <1>1, <2>8, StagesAre DEF BackfillTypeOK, Data
  <2>10. writes' \in Nat /\ writes' >= writes
    BY <1>1 DEF BackfillTypeOK
  <2>11. BoardTrue' /\ BoardSound' /\ \A a \in Attempts : attempt'[a].at <= writes'
    BY <1>1, <2>8, <2>10, BoardStays DEF Data
  <2>12. SharesTrue' /\ SharesSound'
    BY <1>1, <2>8, SharesStay DEF Data
  <2>13. SlugsTrue' /\ FillSound' /\ ScanSound'
    <3>1. OwnSlugs'
      BY <1>1, <2>4 DEF OwnSlugs, Slug, Data
    <3>2. SlugsTrue'
      BY <1>1, <2>8, <3>1 DEF Data, BackfillConsistent, SlugsTrue
    <3>. QED  BY <1>1, <2>5, <2>6, <2>8, <3>1, <3>2 DEF FillSound, ScanSound, AsRead, Data
  <2>. QED  BY <2>9, <2>11, <2>12, <2>13 DEF BackfillConsistent
<1>. QED  BY <1>2, <1>3 DEF CheckSlugs

\* The slug that is written is the one that the problem was going to have.
LEMMA FillSlugStep ==
  ASSUME BackfillConsistent, FillSlug
  PROVE  BackfillConsistent'
<1>1. /\ BackfillTypeOK /\ FillSound /\ SlugsTrue /\ job.stage = "fill"
      /\ UNCHANGED <<attempt, design, member, resource, starts, writes, touched>>
  BY DEF BackfillConsistent, FillSlug, At
<1>2. PICK read \in job.page :
        IF problem[read.id] = read.row
        THEN /\ problem' = [problem EXCEPT ![read.id].slug = Effective(read)]
             /\ job' = [job EXCEPT !.page = @ \ {read}]
             /\ UNCHANGED done
        ELSE Fail /\ UNCHANGED problem
  BY DEF FillSlug
<1>3. CASE problem[read.id] # read.row
  <2>1. Fail /\ UNCHANGED problem
    BY <1>2, <1>3
  <2>. QED  BY <1>1, <2>1, FailKeeps DEF Data
<1>4. CASE problem[read.id] = read.row
  <2>1. PICK i \in Problems : i = read.id
    BY <1>1 DEF FillSound, ProblemRead
  <2>. DEFINE slug == Effective(read)
              page == job.page \ {read}
  <2>2. slug = Slug(i)
    BY <1>4, <2>1 DEF Effective, Missing, Slug
  <2>3. problem[i] \in ProblemRow /\ slug \in Maybe(Slugs)
    BY <1>1, <2>2, BackfillAssumption DEF BackfillTypeOK, ProblemRow, Slug, Maybe
  <2>4. /\ problem' = [problem EXCEPT ![i].slug = slug]
        /\ job' = [job EXCEPT !.page = page] /\ done' = done
    BY <1>2, <1>4, <2>1
  <2>5. /\ problem' \in [Problems -> ProblemRow]
        /\ problem'[i].slug = slug /\ problem'[i].title = problem[i].title
        /\ \A p \in Problems \ {i} : problem'[p] = problem[p]
    <3>. HIDE DEF slug
    <3>. QED  BY <1>1, <2>3, <2>4 DEF BackfillTypeOK, ProblemRow
  <2>6. /\ page \subseteq ProblemRead
        /\ \A p \in Problems \ {i} : AsRead(p) \in job.page => AsRead(p) \in page
    BY <1>1, <2>1 DEF FillSound, AsRead
  <2>. HIDE DEF slug, page
  <2>7. Slug(i)' = Slug(i) /\ \A p \in Problems \ {i} : Slug(p)' = Slug(p)
    BY <2>2, <2>5 DEF Slug
  <2>8. OwnSlugs /\ OwnSlugs'
    <3>1. OwnSlugs
      BY <1>1 DEF FillSound
    <3>2. \A p \in Problems : Slug(p)' = Slug(p)
      BY <2>7
    <3>. QED  BY <1>1, <3>1, <3>2 DEF OwnSlugs
  <2>9. i \notin touched => problem'[i].slug # None
    BY <2>2, <2>5, <2>8 DEF OwnSlugs
  <2>10. job' \in Job /\ job'.stage = "fill" /\ job'.page = page
    BY <1>1, <2>4, <2>6, SamePageIs DEF BackfillTypeOK
  <2>11. SlugsTrue'
    BY <1>1, <2>4, <2>5, <2>8, <2>9 DEF SlugsTrue
  <2>12. FillSound' /\ ScanSound'
    <3>1. \A p \in Problems \ {i} : AsRead(p)' = AsRead(p)
      BY <2>5 DEF AsRead
    <3>2. \A p \in Problems \ touched : problem'[p].slug # None \/ AsRead(p)' \in page
      BY <1>1, <2>5, <2>6, <2>9, <3>1 DEF FillSound
    <3>. QED  BY <1>1, <2>6, <2>8, <2>10, <3>2 DEF FillSound, ScanSound
  <2>13. BackfillTypeOK'
    BY <1>1, <2>4, <2>5, <2>10 DEF BackfillTypeOK
  <2>14. writes' \in Nat /\ writes' >= writes
    BY <1>1 DEF BackfillTypeOK
  <2>15. BoardTrue' /\ BoardSound' /\ \A a \in Attempts : attempt'[a].at <= writes'
    BY <1>1, <2>4, <2>10, <2>14, BoardStays
  <2>16. SharesTrue' /\ SharesSound'
    BY <1>1, <2>4, <2>10, SharesStay
  <2>. QED  BY <2>11, <2>12, <2>13, <2>15, <2>16 DEF BackfillConsistent
<1>. QED  BY <1>3, <1>4

\* The attempts are read as they are; nothing is left of the page before.
LEMMA ScanAttemptsStep ==
  ASSUME BackfillConsistent, ScanAttempts
  PROVE  BackfillConsistent'
<1>1. /\ BackfillTypeOK /\ BoardSound /\ job.stage = "board" /\ job.page = {}
      /\ \A a \in Attempts : attempt[a].at <= writes
      /\ UNCHANGED <<Data, resource, starts, writes, touched, done>>
  BY DEF BackfillConsistent, ScanAttempts, At
<1>2. PICK keys \in SUBSET job.todo :
        job' = [job EXCEPT !.todo = @ \ keys,
                  !.page = @ \cup {[id |-> k, row |-> attempt[k]] : k \in keys}]
  BY DEF ScanAttempts, ReadPage
<1>. DEFINE todo == job.todo \ keys
            page == {[id |-> k, row |-> attempt[k]] : k \in keys}
<1>3. keys \subseteq Attempts /\ todo \subseteq Attempts
  BY <1>1 DEF BoardSound
<1>4. page \subseteq AttemptRead
  BY <1>1, <1>3 DEF AttemptRead, BackfillTypeOK
<1>5. /\ \A read \in page : read.id \in keys /\ read.row = attempt[read.id]
      /\ \A k \in keys : \E read \in page : read.id = k
  <2>1. \A read \in page : \E k \in keys : read = [id |-> k, row |-> attempt[k]]
    OBVIOUS
  <2>2. \A k \in keys : [id |-> k, row |-> attempt[k]] \in page
    OBVIOUS
  <2>. HIDE DEF page
  <2>3. ASSUME NEW read \in page
        PROVE  read.id \in keys /\ read.row = attempt[read.id]
    <3>1. PICK k \in keys : read = [id |-> k, row |-> attempt[k]]
      BY <2>1
    <3>2. read.id = k /\ read.row = attempt[k]
      BY <3>1
    <3>. QED  BY <3>2
  <2>4. ASSUME NEW k \in keys
        PROVE  \E read \in page : read.id = k
    <3>. DEFINE r == [id |-> k, row |-> attempt[k]]
    <3>1. r \in page /\ r.id = k
      BY <2>2
    <3>. QED  BY <3>1
  <2>. QED  BY <2>3, <2>4
<1>6. job' = [job EXCEPT !.todo = todo, !.page = page]
  BY <1>1, <1>2
<1>7. \A a \in job.todo \ todo : a \in keys
  OBVIOUS
<1>. HIDE DEF todo, page
<1>8. job' \in Job /\ job'.stage = "board" /\ job'.todo = todo /\ job'.page = page
  BY <1>1, <1>3, <1>4, <1>6, PageIs DEF BackfillTypeOK
<1>9. BoardSound'
  <2>1. UNCHANGED <<attempt, writes>>
    BY <1>1 DEF Data
  <2>2. ASSUME NEW read \in page
        PROVE  LET item == attempt'[read.id] IN
               /\ read.row.at <= writes'
               /\ item.at = read.row.at => item.score = read.row.score
               /\ item = read.row \/ OnBoard(read.id)'
    BY <1>1, <1>3, <1>5, <2>1
  <2>3. ASSUME NEW a \in Attempts
        PROVE  a \in todo \/ OnBoard(a)' \/ \E read \in page : read.id = a
    BY <1>1, <1>5, <1>7, <2>1 DEF BoardSound, OnBoard
  <2>. QED  BY <1>3, <1>4, <1>8, <2>2, <2>3 DEF BoardSound
<1>10. BackfillTypeOK'
  BY <1>1, <1>8 DEF BackfillTypeOK, Data
<1>11. BoardTrue' /\ \A a \in Attempts : attempt'[a].at <= writes'
  BY <1>1 DEF Data, BackfillConsistent, BoardTrue, OnBoard
<1>12. SlugsTrue' /\ ScanSound' /\ FillSound'
  BY <1>1, <1>8, SlugsStay DEF Data
<1>13. SharesTrue' /\ SharesSound'
  BY <1>1, <1>8, SharesStay DEF Data
<1>. QED  BY <1>9, <1>10, <1>11, <1>12, <1>13 DEF BackfillConsistent

\* An attempt that was not saved since it was read is listed with its score; one that was
\* not to be listed needs nothing, unless it was saved since, and then it is on the board.
LEMMA ListAttemptStep ==
  ASSUME BackfillConsistent, ListAttempt
  PROVE  BackfillConsistent'
<1>. DEFINE wanted(read) == /\ read.row.public /\ read.row.score # None
                            /\ read.row.listed # read.row.score
<1>1. /\ BackfillTypeOK /\ BoardSound /\ BoardTrue /\ job.stage = "board"
      /\ \A a \in Attempts : attempt[a].at <= writes
      /\ UNCHANGED <<problem, design, member, resource, starts, writes, touched>>
  BY DEF BackfillConsistent, ListAttempt, At
<1>2. PICK read \in job.page :
        /\ IF wanted(read) /\ ~UnchangedSince(read)
           THEN Fail
           ELSE job' = [job EXCEPT !.page = @ \ {read}] /\ UNCHANGED done
        /\ attempt' = IF wanted(read) /\ UnchangedSince(read)
                      THEN [attempt EXCEPT ![read.id].listed = read.row.score]
                      ELSE attempt
  BY DEF ListAttempt
<1>3. /\ read \in AttemptRead /\ read.id \in Attempts
      /\ attempt[read.id] = read.row \/ OnBoard(read.id)
      /\ attempt[read.id].at = read.row.at => attempt[read.id].score = read.row.score
  BY <1>1 DEF BoardSound, AttemptRead
<1>4. CASE wanted(read) /\ ~UnchangedSince(read)
  BY <1>1, <1>2, <1>4, FailKeeps DEF Data
<1>5. CASE ~(wanted(read) /\ ~UnchangedSince(read))
  <2>1. PICK i \in Attempts : i = read.id
    BY <1>3
  <2>. DEFINE page == job.page \ {read}
  <2>2. /\ job' = [job EXCEPT !.page = page] /\ done' = done
        /\ page \subseteq job.page /\ \A other \in job.page : other = read \/ other \in page
        /\ job.page \subseteq AttemptRead
    BY <1>1, <1>2, <1>5 DEF BoardSound
  <2>. HIDE DEF page
  <2>3. job' \in Job /\ job'.stage = "board" /\ job'.todo = job.todo /\ job'.page = page
    BY <1>1, <2>2, SamePageIs DEF BackfillTypeOK
  <2>4. /\ attempt' \in [Attempts -> AttemptItem]
        /\ OnBoard(i)'
        /\ attempt'[i].listed # None => attempt'[i].public
        /\ attempt'[i].score = attempt[i].score /\ attempt'[i].at = attempt[i].at
        /\ \A a \in Attempts \ {i} : attempt'[a] = attempt[a]
    <3>1. CASE wanted(read) /\ UnchangedSince(read)
      <4>. DEFINE score == read.row.score
                  t == [attempt[i] EXCEPT !.listed = score]
      <4>1. /\ score \in Maybe(Scores) /\ score = attempt[i].score /\ attempt[i].public
            /\ attempt[i] \in AttemptItem
        BY <1>1, <1>3, <2>1, <3>1
        DEF UnchangedSince, AttemptRead, AttemptItem, BackfillTypeOK
      <4>2. attempt' = [attempt EXCEPT ![i] = t]
        BY <1>2, <2>1, <3>1
      <4>3. /\ t \in AttemptItem /\ t.listed = score /\ t.public /\ t.score = score
            /\ t.at = attempt[i].at
        <5>. HIDE DEF score
        <5>. QED  BY <4>1 DEF AttemptItem
      <4>. HIDE DEF t, score
      <4>4. /\ attempt' \in [Attempts -> AttemptItem] /\ attempt'[i] = t
            /\ \A a \in Attempts \ {i} : attempt'[a] = attempt[a]
        BY <1>1, <4>2, <4>3 DEF BackfillTypeOK
      <4>. QED  BY <4>1, <4>3, <4>4 DEF OnBoard
    <3>2. CASE ~wanted(read)
      <4>1. attempt' = attempt
        BY <1>2, <3>2
      <4>2. OnBoard(i)
        BY <1>1, <1>3, <2>1, <3>2 DEF OnBoard, BoardTrue
      <4>. QED  BY <1>1, <4>1, <4>2 DEF BackfillTypeOK, BoardTrue, OnBoard
    <3>. QED  BY <1>5, <3>1, <3>2
  <2>5. \A a \in Attempts \ {i} : OnBoard(a)' <=> OnBoard(a)
    BY <2>4 DEF OnBoard
  <2>6. BoardTrue'
    <3>1. \A a \in Attempts : attempt'[a].listed # None => attempt'[a].public /\ OnBoard(a)'
      BY <1>1, <2>4, <2>5 DEF BoardTrue
    <3>2. "board" \in done' => \A a \in Attempts : OnBoard(a)'
      BY <1>1, <2>2, <2>4, <2>5 DEF BoardTrue
    <3>. QED  BY <3>1, <3>2 DEF BoardTrue
  <2>7. \A a \in Attempts : attempt'[a].at <= writes'
    BY <1>1, <2>4
  <2>8. BoardSound'
    <3>1. ASSUME NEW r \in page
          PROVE  LET item == attempt'[r.id] IN
                 /\ r.row.at <= writes'
                 /\ item.at = r.row.at => item.score = r.row.score
                 /\ item = r.row \/ OnBoard(r.id)'
      <4>1. /\ r.id \in Attempts /\ r.row.at <= writes
            /\ attempt[r.id].at = r.row.at => attempt[r.id].score = r.row.score
            /\ attempt[r.id] = r.row \/ OnBoard(r.id)
        BY <1>1, <2>2 DEF BoardSound, AttemptRead
      <4>2. CASE r.id = i
        BY <1>1, <2>4, <4>1, <4>2
      <4>3. CASE r.id # i
        BY <1>1, <2>4, <2>5, <4>1, <4>3
      <4>. QED  BY <4>2, <4>3
    <3>2. ASSUME NEW a \in Attempts
          PROVE  a \in job.todo \/ OnBoard(a)' \/ \E r \in page : r.id = a
      <4>1. CASE a = i
        BY <2>4, <4>1
      <4>2. CASE a # i
        BY <1>1, <2>1, <2>2, <2>5, <4>2 DEF BoardSound
      <4>. QED  BY <4>1, <4>2
    <3>3. page \subseteq AttemptRead /\ job.todo \subseteq Attempts
      BY <1>1, <2>2 DEF BoardSound
    <3>. QED  BY <2>3, <3>1, <3>2, <3>3 DEF BoardSound
  <2>9. BackfillTypeOK'
    BY <1>1, <2>2, <2>3, <2>4 DEF BackfillTypeOK
  <2>10. SlugsTrue' /\ ScanSound' /\ FillSound'
    BY <1>1, <2>2, <2>3, SlugsStay
  <2>11. SharesTrue' /\ SharesSound'
    BY <1>1, <2>2, <2>3, SharesStay
  <2>. QED  BY <2>6, <2>7, <2>8, <2>9, <2>10, <2>11 DEF BackfillConsistent
<1>. QED  BY <1>4, <1>5

\* The rows of a design are those of its collaborators.
LEMMA ShareItemsAre ==
  ASSUME BackfillTypeOK, NEW d \in Designs
  PROVE  /\ \A put \in ShareItems(d) :
              /\ put \in Put /\ put.id = d /\ design[d] # None
              /\ design[d][put.who] = put.right
         /\ \A u \in People :
              HasRow(d, u) \/ \E put \in ShareItems(d) : put.id = d /\ put.who = u
<1>1. CASE design[d] = None
  BY <1>1 DEF ShareItems, HasRow
<1>2. CASE design[d] # None
  <2>1. design[d] \in [People -> Maybe(Rights)]
    BY <1>2 DEF BackfillTypeOK, Maybe, Collaborators
  <2>. DEFINE row(u) == [id |-> d, who |-> u, right |-> design[d][u]]
  <2>2. ShareItems(d) = {row(u) : u \in {v \in People : design[d][v] # None}}
    BY <1>2 DEF ShareItems
  <2>3. \A u \in People : row(u).id = d /\ row(u).who = u /\ row(u).right = design[d][u]
    OBVIOUS
  <2>4. \A u \in People : design[d][u] # None => row(u) \in Put
    BY <2>1 DEF Put, Maybe
  <2>. HIDE DEF row
  <2>5. ASSUME NEW put \in ShareItems(d)
        PROVE  put \in Put /\ put.id = d /\ design[d][put.who] = put.right
    BY <2>2, <2>3, <2>4
  <2>6. ASSUME NEW u \in People, design[d][u] # None
        PROVE  \E put \in ShareItems(d) : put.id = d /\ put.who = u
    BY <2>2, <2>3, <2>6
  <2>. QED  BY <1>2, <2>5, <2>6 DEF HasRow
<1>. QED  BY <1>1, <1>2

LEMMA ScanDesignsStep ==
  ASSUME BackfillConsistent, ScanDesigns
  PROVE  BackfillConsistent'
<1>1. /\ BackfillTypeOK /\ SharesSound /\ job.stage = "shares" /\ job.page = {}
      /\ UNCHANGED <<Data, resource, starts, writes, touched, done>>
  BY DEF BackfillConsistent, ScanDesigns, At
<1>2. PICK keys \in SUBSET job.todo :
        job' = [job EXCEPT !.todo = @ \ keys, !.page = UNION {ShareItems(d) : d \in keys}]
  BY DEF ScanDesigns
<1>. DEFINE todo == job.todo \ keys
            page == UNION {ShareItems(d) : d \in keys}
<1>3. keys \subseteq Designs /\ todo \subseteq Designs
  BY <1>1 DEF SharesSound
<1>4. job' = [job EXCEPT !.todo = todo, !.page = page]
  BY <1>2
<1>5. /\ \A put \in page : \E d \in keys : put \in ShareItems(d)
      /\ \A d \in keys : ShareItems(d) \subseteq page
      /\ \A d \in job.todo \ todo : d \in keys
  OBVIOUS
<1>. HIDE DEF todo, page
<1>6. \A put \in page :
        put \in Put /\ design[put.id] # None /\ design[put.id][put.who] = put.right
  BY <1>1, <1>3, <1>5, ShareItemsAre
<1>7. ASSUME NEW d \in keys, NEW u \in People
      PROVE  HasRow(d, u) \/ \E put \in page : put.id = d /\ put.who = u
  <2>1. d \in Designs /\ ShareItems(d) \subseteq page
    BY <1>3, <1>5
  <2>. QED  BY <1>1, <2>1, ShareItemsAre
<1>8. job' \in Job /\ job'.stage = "shares" /\ job'.todo = todo /\ job'.page = page
  BY <1>1, <1>3, <1>4, <1>6, PageIs DEF BackfillTypeOK
<1>9. SharesSound'
  <2>1. \A d \in Designs, u \in People : HasRow(d, u)' <=> HasRow(d, u)
    BY <1>1 DEF HasRow, Data
  <2>2. \A d \in Designs \ touched, u \in People :
          d \in todo \/ HasRow(d, u)' \/ \E put \in page : put.id = d /\ put.who = u
    BY <1>1, <1>5, <1>7, <2>1 DEF SharesSound
  <2>. QED  BY <1>1, <1>3, <1>6, <1>8, <2>2 DEF SharesSound, Data
<1>10. BackfillTypeOK'
  BY <1>1, <1>8 DEF BackfillTypeOK, Data
<1>11. writes' \in Nat /\ writes' >= writes
  BY <1>1 DEF BackfillTypeOK
<1>12. BoardTrue' /\ BoardSound' /\ \A a \in Attempts : attempt'[a].at <= writes'
  BY <1>1, <1>8, <1>11, BoardStays DEF Data
<1>13. SlugsTrue' /\ ScanSound' /\ FillSound'
  BY <1>1, <1>8, SlugsStay DEF Data
<1>14. SharesTrue'
  BY <1>1 DEF BackfillConsistent, SharesTrue, HasRow, Data
<1>. QED  BY <1>9, <1>10, <1>12, <1>13, <1>14 DEF BackfillConsistent

\* The permission that is put is the one that the collaborator of a design that nobody
\* changed has.
LEMMA PutMemberStep ==
  ASSUME BackfillConsistent, PutMember
  PROVE  BackfillConsistent'
<1>1. /\ BackfillTypeOK /\ SharesSound /\ SharesTrue /\ job.stage = "shares"
      /\ UNCHANGED <<problem, attempt, design, resource, starts, writes, touched, done>>
  BY DEF BackfillConsistent, PutMember, At
<1>2. PICK put \in job.page :
        /\ member' = [member EXCEPT ![put.id][put.who] = put.right]
        /\ job' = [job EXCEPT !.page = @ \ {put}]
  BY DEF PutMember
<1>3. put \in Put
  BY <1>1 DEF SharesSound
<1>4. PICK d \in Designs, u \in People, right \in Rights :
        d = put.id /\ u = put.who /\ right = put.right
  BY <1>3 DEF Put
<1>5. d \notin touched => design[d] # None /\ design[d][u] = right
  BY <1>1, <1>4 DEF SharesSound
<1>6. /\ member' \in [Designs -> Collaborators]
      /\ member'[d][u] = right
      /\ \A e \in Designs, v \in People :
           (e # d \/ v # u) => member'[e][v] = member[e][v]
  <2>. DEFINE rows == [member[d] EXCEPT ![u] = right]
  <2>1. member[d] \in [People -> Maybe(Rights)] /\ member \in [Designs -> Collaborators]
    BY <1>1 DEF BackfillTypeOK, Collaborators
  <2>2. /\ rows \in Collaborators /\ rows[u] = right
        /\ \A v \in People : v # u => rows[v] = member[d][v]
    BY <2>1 DEF Collaborators, Maybe
  <2>3. member' = [member EXCEPT ![d] = rows]
    BY <1>2, <1>4
  <2>. HIDE DEF rows
  <2>. QED  BY <2>1, <2>2, <2>3
<1>7. ASSUME NEW e \in Designs \ touched, NEW v \in People,
             HasRow(e, v) \/ (e = d /\ v = u)
      PROVE  HasRow(e, v)'
  BY <1>1, <1>5, <1>6, <1>7 DEF HasRow
<1>8. SharesTrue'
  BY <1>1, <1>7 DEF SharesTrue
<1>. DEFINE page == job.page \ {put}
<1>9. /\ job' = [job EXCEPT !.page = page] /\ page \subseteq job.page
      /\ job.page \subseteq Put
      /\ \A other \in job.page : other = put \/ other \in page
  BY <1>1, <1>2 DEF SharesSound
<1>. HIDE DEF page
<1>10. job' \in Job /\ job'.stage = "shares" /\ job'.todo = job.todo /\ job'.page = page
  BY <1>1, <1>9, SamePageIs DEF BackfillTypeOK
<1>11. SharesSound'
  <2>1. ASSUME NEW e \in Designs \ touched, NEW v \in People
        PROVE  \/ e \in job.todo \/ HasRow(e, v)'
               \/ \E other \in page : other.id = e /\ other.who = v
    <3>1. CASE e \in job.todo \/ HasRow(e, v)
      BY <1>7, <3>1
    <3>2. CASE \E other \in job.page : other.id = e /\ other.who = v
      BY <1>4, <1>7, <1>9, <3>2
    <3>. QED  BY <1>1, <3>1, <3>2 DEF SharesSound
  <2>. QED  BY <1>1, <1>9, <1>10, <2>1 DEF SharesSound
<1>12. BackfillTypeOK'
  BY <1>1, <1>6, <1>10 DEF BackfillTypeOK
<1>13. writes' \in Nat /\ writes' >= writes
  BY <1>1 DEF BackfillTypeOK
<1>14. BoardTrue' /\ BoardSound' /\ \A a \in Attempts : attempt'[a].at <= writes'
  BY <1>1, <1>10, <1>13, BoardStays
<1>15. SlugsTrue' /\ ScanSound' /\ FillSound'
  BY <1>1, <1>10, SlugsStay
<1>. QED  BY <1>8, <1>11, <1>12, <1>14, <1>15 DEF BackfillConsistent

\* When a stage has gone through all of its rows, what it is for is done.
LEMMA FinishStageStep ==
  ASSUME BackfillConsistent, FinishStage
  PROVE  BackfillConsistent'
<1>1. /\ BackfillTypeOK /\ job.stage \in {"fill", "board", "shares"}
      /\ job.page = {} /\ job.todo = {} /\ Proceed({})
      /\ UNCHANGED <<Data, resource, starts, writes, touched>>
  BY DEF BackfillConsistent, FinishStage, At
<1>2. /\ job' \in Job /\ job'.stage = After[job.stage] /\ job'.todo = Keys[After[job.stage]]
      /\ job'.page = {} /\ done' = done \cup {job.stage}
  BY <1>1, StagesAre, ProceedIs
<1>3. BackfillTypeOK'
  BY <1>1, <1>2, StagesAre DEF BackfillTypeOK, Data
<1>4. writes' \in Nat /\ writes' >= writes
  BY <1>1 DEF BackfillTypeOK
<1>5. /\ BoardTrue /\ SlugsTrue /\ SharesTrue /\ FillSound /\ BoardSound /\ SharesSound
      /\ \A a \in Attempts : attempt[a].at <= writes
  BY DEF BackfillConsistent
<1>6. CASE job.stage = "fill"
  <2>1. job'.stage = "board" /\ job'.todo = Attempts
    BY <1>2, <1>6, NextStage
  <2>2. OwnSlugs /\ \A p \in Problems \ touched : problem[p].slug # None
    BY <1>1, <1>5, <1>6 DEF FillSound
  <2>3. SlugsTrue' /\ ScanSound' /\ FillSound'
    BY <1>1, <2>1, <2>2 DEF SlugsTrue, ScanSound, FillSound, OwnSlugs, Slug, Data
  <2>4. BoardTrue' /\ BoardSound' /\ \A a \in Attempts : attempt'[a].at <= writes'
    BY <1>1, <1>2, <1>5, <1>6, <2>1 DEF BoardTrue, BoardSound, OnBoard, Data
  <2>5. SharesTrue' /\ SharesSound'
    BY <1>1, <1>2, <1>6, <2>1, SharesStay DEF Data
  <2>. QED  BY <1>3, <2>3, <2>4, <2>5 DEF BackfillConsistent
<1>7. CASE job.stage = "board"
  <2>1. job'.stage = "shares" /\ job'.todo = Designs
    BY <1>2, <1>7, NextStage
  <2>2. \A a \in Attempts : OnBoard(a)
    BY <1>1, <1>5, <1>7 DEF BoardSound
  <2>3. BoardTrue' /\ BoardSound' /\ \A a \in Attempts : attempt'[a].at <= writes'
    BY <1>1, <1>5, <2>1, <2>2 DEF BoardTrue, BoardSound, OnBoard, Data
  <2>4. SharesTrue' /\ SharesSound'
    BY <1>1, <1>2, <1>5, <1>7, <2>1 DEF SharesTrue, SharesSound, HasRow, Data
  <2>5. SlugsTrue' /\ ScanSound' /\ FillSound'
    BY <1>1, <1>2, <1>7, <2>1, SlugsStay DEF Data
  <2>. QED  BY <1>3, <2>3, <2>4, <2>5 DEF BackfillConsistent
<1>8. CASE job.stage = "shares"
  <2>1. job'.stage = "slugIndex"
    BY <1>2, <1>8, NextStage
  <2>2. \A d \in Designs \ touched, u \in People : HasRow(d, u)
    BY <1>1, <1>5, <1>8 DEF SharesSound
  <2>3. SharesTrue' /\ SharesSound'
    BY <1>1, <2>1, <2>2 DEF SharesTrue, SharesSound, HasRow, Data
  <2>4. BoardTrue' /\ BoardSound' /\ \A a \in Attempts : attempt'[a].at <= writes'
    BY <1>1, <1>2, <1>4, <1>8, <2>1, BoardStays DEF Data
  <2>5. SlugsTrue' /\ ScanSound' /\ FillSound'
    BY <1>1, <1>2, <1>8, <2>1, SlugsStay DEF Data
  <2>. QED  BY <1>3, <2>3, <2>4, <2>5 DEF BackfillConsistent
<1>. QED  BY <1>1, <1>6, <1>7, <1>8

\* A run that stops leaves every record as it is.
LEMMA InterruptStep ==
  ASSUME BackfillConsistent, Interrupt
  PROVE  BackfillConsistent'
  BY FailKeeps DEF Interrupt, At

-----------------------------------------------------------------------------
(* The writes of everyone else *)

\* What an edited problem is like is not for the run to know.
LEMMA EditProblemStep ==
  ASSUME BackfillConsistent, EditProblem
  PROVE  BackfillConsistent'
<1>1. PICK p \in Problems, row \in ProblemRow :
        /\ problem' = [problem EXCEPT ![p] = row]
        /\ writes' = writes + 1 /\ touched' = touched \cup {p}
        /\ UNCHANGED <<attempt, design, member, resource, job, starts, done>>
  BY DEF EditProblem, Write
<1>2. BackfillTypeOK /\ SlugsTrue /\ ScanSound /\ FillSound
  BY DEF BackfillConsistent
<1>3. /\ problem' \in [Problems -> ProblemRow]
      /\ \A q \in Problems \ touched' : q \notin touched /\ problem'[q] = problem[q]
  BY <1>1, <1>2 DEF BackfillTypeOK
<1>4. BackfillTypeOK' /\ writes' \in Nat /\ writes' >= writes
  BY <1>1, <1>2, <1>3 DEF BackfillTypeOK
<1>5. OwnSlugs => OwnSlugs'
  BY <1>3 DEF OwnSlugs, Slug
<1>6. SlugsTrue' /\ ScanSound' /\ FillSound'
  BY <1>1, <1>2, <1>3, <1>5 DEF SlugsTrue, ScanSound, FillSound, AsRead
<1>7. BoardTrue' /\ BoardSound' /\ \A a \in Attempts : attempt'[a].at <= writes'
  BY <1>1, <1>4, BoardStays
<1>8. SharesTrue' /\ SharesSound'
  BY <1>1, SharesStay
<1>. QED  BY <1>4, <1>6, <1>7, <1>8 DEF BackfillConsistent

\* An attempt is on the board when it is written, and one with another score was saved
\* later than any that the run has read.
LEMMA ChangeAttemptStep ==
  ASSUME BackfillConsistent, NEW i \in Attempts, NEW public \in BOOLEAN,
         NEW score \in Maybe(Scores), NEW at \in Nat,
         at = writes + 1 \/ (at = attempt[i].at /\ score = attempt[i].score),
         ChangeAttempt(i, public, score, at)
  PROVE  BackfillConsistent'
<1>1. /\ BackfillTypeOK /\ BoardTrue /\ BoardSound
      /\ \A a \in Attempts : attempt[a].at <= writes
  BY DEF BackfillConsistent
<1>. DEFINE listed == IF public THEN score ELSE None
            t == [public |-> public, score |-> score, at |-> at, listed |-> listed]
<1>2. /\ attempt' = [attempt EXCEPT ![i] = t]
      /\ writes' = writes + 1 /\ touched' = touched
      /\ UNCHANGED <<problem, design, member, resource, job, starts, done>>
  BY DEF ChangeAttempt, Write
<1>3. /\ t \in AttemptItem /\ t.public = public /\ t.score = score /\ t.at = at
      /\ t.listed = listed
  BY DEF AttemptItem, Maybe
<1>4. public => listed = score
  OBVIOUS
<1>5. listed # None => public
  OBVIOUS
<1>6. at <= writes + 1
  BY <1>1 DEF BackfillTypeOK, AttemptItem
<1>. HIDE DEF t, listed
<1>7. /\ attempt' \in [Attempts -> AttemptItem] /\ attempt'[i] = t
      /\ \A a \in Attempts \ {i} : attempt'[a] = attempt[a]
  BY <1>1, <1>2, <1>3 DEF BackfillTypeOK
<1>8. OnBoard(i)' /\ \A a \in Attempts \ {i} : OnBoard(a)' <=> OnBoard(a)
  BY <1>3, <1>4, <1>7 DEF OnBoard
<1>9. BoardTrue'
  <2>1. \A a \in Attempts : attempt'[a].listed # None => attempt'[a].public /\ OnBoard(a)'
    BY <1>1, <1>3, <1>5, <1>7, <1>8 DEF BoardTrue
  <2>2. "board" \in done' => \A a \in Attempts : OnBoard(a)'
    BY <1>1, <1>2, <1>8 DEF BoardTrue
  <2>. QED  BY <2>1, <2>2 DEF BoardTrue
<1>10. ASSUME NEW a \in Attempts
       PROVE  attempt'[a].at <= writes'
  <2>1. attempt[a].at \in Nat /\ attempt[a].at <= writes /\ writes \in Nat
    BY <1>1 DEF BackfillTypeOK, AttemptItem
  <2>2. attempt'[a].at = attempt[a].at \/ attempt'[a].at = at
    BY <1>3, <1>7
  <2>. QED  BY <1>2, <1>6, <2>1, <2>2
<1>11. BoardSound'
  <2>1. ASSUME job.stage = "board", NEW read \in job.page
        PROVE  LET item == attempt'[read.id] IN
               /\ read.row.at <= writes'
               /\ item.at = read.row.at => item.score = read.row.score
               /\ item = read.row \/ OnBoard(read.id)'
    <3>1. /\ read.id \in Attempts /\ read.row.at \in Nat /\ read.row.at <= writes
          /\ attempt[read.id].at = read.row.at => attempt[read.id].score = read.row.score
          /\ attempt[read.id] = read.row \/ OnBoard(read.id)
      BY <1>1, <2>1 DEF BoardSound, AttemptRead, AttemptItem
    <3>2. writes \in Nat
      BY <1>1 DEF BackfillTypeOK
    <3>3. read.row.at <= writes' /\ read.row.at # writes + 1
      BY <1>2, <3>1, <3>2
    <3>4. CASE read.id = i
      BY <1>3, <1>7, <1>8, <3>1, <3>3, <3>4
    <3>5. CASE read.id # i
      BY <1>7, <1>8, <3>1, <3>3, <3>5
    <3>. QED  BY <3>4, <3>5
  <2>2. ASSUME job.stage = "board", NEW a \in Attempts
        PROVE  a \in job.todo \/ OnBoard(a)' \/ \E read \in job.page : read.id = a
    BY <1>1, <1>8, <2>2 DEF BoardSound
  <2>. QED  BY <1>1, <1>2, <2>1, <2>2 DEF BoardSound
<1>12. BackfillTypeOK' /\ writes' \in Nat
  BY <1>1, <1>2, <1>7 DEF BackfillTypeOK
<1>13. SlugsTrue' /\ ScanSound' /\ FillSound'
  BY <1>2, SlugsStay
<1>14. SharesTrue' /\ SharesSound'
  BY <1>2, SharesStay
<1>. QED  BY <1>9, <1>10, <1>11, <1>12, <1>13, <1>14 DEF BackfillConsistent

LEMMA AttemptSteps ==
  ASSUME BackfillConsistent, SaveAttempt \/ PublishAttempt \/ UnpublishAttempt
  PROVE  BackfillConsistent'
<1>1. /\ writes \in Nat
      /\ \A i \in Attempts : /\ attempt[i].public \in BOOLEAN
                             /\ attempt[i].score \in Maybe(Scores)
                             /\ attempt[i].at \in Nat
  BY DEF BackfillConsistent, BackfillTypeOK, AttemptItem
<1>2. CASE SaveAttempt
  <2>1. PICK i \in Attempts, score \in Maybe(Scores) :
          ChangeAttempt(i, attempt[i].public, score, writes + 1)
    BY <1>2 DEF SaveAttempt
  <2>2. writes + 1 \in Nat
    BY <1>1
  <2>. QED  BY <1>1, <2>1, <2>2, ChangeAttemptStep
<1>3. CASE PublishAttempt
  <2>1. PICK i \in Attempts : ChangeAttempt(i, TRUE, attempt[i].score, attempt[i].at)
    BY <1>3 DEF PublishAttempt
  <2>. QED  BY <1>1, <2>1, ChangeAttemptStep
<1>4. CASE UnpublishAttempt
  <2>1. PICK i \in Attempts : ChangeAttempt(i, FALSE, attempt[i].score, attempt[i].at)
    BY <1>4 DEF UnpublishAttempt
  <2>. QED  BY <1>1, <2>1, ChangeAttemptStep
<1>. QED  BY <1>2, <1>3, <1>4

\* Who is a collaborator of a changed design is not for the run to know.
LEMMA TouchDesign ==
  ASSUME BackfillConsistent, NEW d \in Designs, writes' = writes + 1,
         touched' = touched \cup {d},
         UNCHANGED <<problem, attempt, resource, job, starts, done>>,
         design' \in [Designs -> Maybe(Collaborators)],
         member' \in [Designs -> Collaborators],
         \A e \in Designs \ {d} : design'[e] = design[e] /\ member'[e] = member[e]
  PROVE  BackfillConsistent'
<1>1. BackfillTypeOK /\ SharesTrue /\ SharesSound
  BY DEF BackfillConsistent
<1>2. BackfillTypeOK' /\ writes' \in Nat /\ writes' >= writes
  BY <1>1 DEF BackfillTypeOK
<1>3. \A e \in Designs \ touched', u \in People :
        e \notin touched /\ design'[e] = design[e] /\ (HasRow(e, u)' <=> HasRow(e, u))
  BY DEF HasRow
<1>4. SharesTrue'
  BY <1>1, <1>3 DEF SharesTrue
<1>5. SharesSound'
  <2>1. ASSUME job.stage = "shares", NEW put \in job.page, put.id \notin touched'
        PROVE  design'[put.id] # None /\ design'[put.id][put.who] = put.right
    BY <1>1, <1>3, <2>1 DEF SharesSound, Put
  <2>2. ASSUME job.stage = "shares", NEW e \in Designs \ touched', NEW u \in People
        PROVE  \/ e \in job.todo \/ HasRow(e, u)'
               \/ \E put \in job.page : put.id = e /\ put.who = u
    BY <1>1, <1>3, <2>2 DEF SharesSound
  <2>. QED  BY <1>1, <2>1, <2>2 DEF SharesSound
<1>6. BoardTrue' /\ BoardSound' /\ \A a \in Attempts : attempt'[a].at <= writes'
  BY <1>2, BoardStays
<1>7. SlugsTrue' /\ ScanSound' /\ FillSound'
  BY SlugsStay
<1>. QED  BY <1>2, <1>4, <1>5, <1>6, <1>7 DEF BackfillConsistent

LEMMA ChangeCollaboratorStep ==
  ASSUME BackfillConsistent, ChangeCollaborator
  PROVE  BackfillConsistent'
<1>1. PICK d \in Designs, u \in People, right \in Maybe(Rights) :
        /\ design[d] # None
        /\ right = None => design[d][u] # None
        /\ design' = [design EXCEPT ![d][u] = right]
        /\ member' = [member EXCEPT ![d][u] = IF right = None THEN design[d][u] ELSE right]
        /\ writes' = writes + 1 /\ touched' = touched \cup {d}
        /\ UNCHANGED <<problem, attempt, resource, job, starts, done>>
  BY DEF ChangeCollaborator, Write
<1>2. /\ design \in [Designs -> Maybe(Collaborators)] /\ member \in [Designs -> Collaborators]
      /\ design[d] \in [People -> Maybe(Rights)] /\ member[d] \in [People -> Maybe(Rights)]
  BY <1>1 DEF BackfillConsistent, BackfillTypeOK, Maybe, Collaborators
<1>. DEFINE put == IF right = None THEN design[d][u] ELSE right
            who == [design[d] EXCEPT ![u] = right]
            rows == [member[d] EXCEPT ![u] = put]
<1>3. who \in Collaborators /\ rows \in Collaborators
  BY <1>2 DEF Collaborators
<1>4. design' = [design EXCEPT ![d] = who] /\ member' = [member EXCEPT ![d] = rows]
  BY <1>1
<1>. HIDE DEF who, rows
<1>5. /\ design' \in [Designs -> Maybe(Collaborators)] /\ member' \in [Designs -> Collaborators]
      /\ \A e \in Designs \ {d} : design'[e] = design[e] /\ member'[e] = member[e]
  BY <1>2, <1>3, <1>4 DEF Maybe
<1>. QED  BY <1>1, <1>5, TouchDesign

LEMMA DeleteDesignStep ==
  ASSUME BackfillConsistent, DeleteDesign
  PROVE  BackfillConsistent'
<1>1. PICK d \in Designs :
        /\ design[d] # None
        /\ design' = [design EXCEPT ![d] = None]
        /\ member' = [member EXCEPT ![d] =
                        [u \in People |-> IF design[d][u] = None THEN @[u] ELSE None]]
        /\ writes' = writes + 1 /\ touched' = touched \cup {d}
        /\ UNCHANGED <<problem, attempt, resource, job, starts, done>>
  BY DEF DeleteDesign, Write
<1>2. /\ design \in [Designs -> Maybe(Collaborators)] /\ member \in [Designs -> Collaborators]
      /\ member[d] \in [People -> Maybe(Rights)]
  BY DEF BackfillConsistent, BackfillTypeOK, Collaborators
<1>. DEFINE rows == [u \in People |-> IF design[d][u] = None THEN member[d][u] ELSE None]
<1>3. rows \in Collaborators
  BY <1>2 DEF Collaborators, Maybe
<1>4. member' = [member EXCEPT ![d] = rows]
  BY <1>1
<1>. HIDE DEF rows
<1>5. /\ design' \in [Designs -> Maybe(Collaborators)] /\ member' \in [Designs -> Collaborators]
      /\ \A e \in Designs \ {d} : design'[e] = design[e] /\ member'[e] = member[e]
  BY <1>1, <1>2, <1>3, <1>4 DEF Maybe
<1>. QED  BY <1>1, <1>5, TouchDesign

-----------------------------------------------------------------------------
(* The backfill as a whole *)

LEMMA BackfillStarts ==
  ASSUME BackfillInit
  PROVE  BackfillConsistent
<1>1. BackfillTypeOK
  BY DEF BackfillInit, BackfillTypeOK, Maybe, Collaborators, Alone, Job, Waiting
<1>2. \A a \in Attempts : attempt[a].at <= writes /\ attempt[a].listed = None
  BY DEF BackfillInit
<1>3. BoardTrue /\ SlugsTrue /\ SharesTrue
  BY <1>2 DEF BackfillInit, BoardTrue, SlugsTrue, SharesTrue
<1>4. ScanSound /\ FillSound /\ BoardSound /\ SharesSound
  BY DEF BackfillInit, Waiting, ScanSound, FillSound, BoardSound, SharesSound
<1>. QED  BY <1>1, <1>2, <1>3, <1>4 DEF BackfillConsistent

LEMMA BackfillSteps ==
  ASSUME BackfillConsistent, [BackfillNext]_backfillVars
  PROVE  BackfillConsistent'
<1>1. CASE BackfillRest \/ UNCHANGED backfillVars
  <2>1. UNCHANGED backfillVars
    BY <1>1 DEF BackfillRest
  <2>2. BackfillTypeOK
    BY DEF BackfillConsistent
  <2>. QED  BY <2>1, <2>2, ElsewhereKeeps DEF backfillVars, Data, BackfillTypeOK
<1>. QED  BY <1>1, StartStep, ProvideStep, BuiltStep, ScanProblemsStep, CheckSlugsStep,
             FillSlugStep, ScanAttemptsStep, ListAttemptStep, ScanDesignsStep,
             PutMemberStep, FinishStageStep, InterruptStep, EditProblemStep, AttemptSteps,
             ChangeCollaboratorStep, DeleteDesignStep DEF BackfillNext

\* Of the records that it has read, a run knows at every step what it needs: problems
\* that nobody edited are as they were read, attempts with another score carry a later
\* time, and rows that it has yet to put are those of the design unless that was changed
\* (migrate_query_optimization.py).
THEOREM BackfillConsistentCorrect == BackfillSpec => []BackfillConsistent
<1>1. BackfillInit => BackfillConsistent
  BY BackfillStarts
<1>2. BackfillConsistent /\ [BackfillNext]_backfillVars => BackfillConsistent'
  BY BackfillSteps
<1>. QED  BY <1>1, <1>2, PTL DEF BackfillSpec

\* Although nobody pauses and a run may stop anywhere, what the indexes say is true, and
\* a stage that a run has finished has left out nothing that nobody wrote meanwhile.
THEOREM IndexesTrueCorrect == BackfillSpec => []IndexesTrue
<1>1. BackfillConsistent => IndexesTrue
  BY DEF BackfillConsistent, IndexesTrue, BoardTrue, OnBoard, SlugsTrue, OwnSlugs, Slug,
         SharesTrue, HasRow
<1>. QED  BY <1>1, BackfillConsistentCorrect, PTL

-----------------------------------------------------------------------------
(* The list: what a query reads *)

\* A set of numbers that is not empty has a least one.
LEMMA LeastExists ==
  ASSUME NEW S \in SUBSET Nat, S # {}
  PROVE  \E m \in S : \A x \in S : m <= x
<1>. DEFINE Less == {p \in Nat \X Nat : p[1] < p[2]}
<1>1. IsWellFoundedOn(Less, Nat)
  BY NatLessThanWellFounded DEF OpToRel
<1>2. PICK m \in S : \A x \in S : ~(<<x, m>> \in Less)
  <2>1. S \subseteq Nat
    OBVIOUS
  <2>. HIDE DEF Less
  <2>. QED  BY <1>1, <2>1, WFMin
<1>3. ASSUME NEW x \in S PROVE m <= x
  <2>1. <<x, m>> \notin Less /\ x \in Nat /\ m \in Nat
    BY <1>2
  <2>. QED  BY <2>1
<1>. QED  BY <1>3

\* A finite one has a greatest one.
LEMMA GreatestExists ==
  ASSUME NEW S \in SUBSET Nat, IsFiniteSet(S), S # {}
  PROVE  \E m \in S : \A x \in S : x <= m
<1>. DEFINE Above(x) == {y \in S : y > x}
            T == {Cardinality(Above(x)) : x \in S}
<1>1. \A x \in S : IsFiniteSet(Above(x)) /\ Cardinality(Above(x)) \in Nat
  BY FS_Subset, FS_CardinalityType
<1>2. T \in SUBSET Nat /\ T # {}
  BY <1>1
<1>3. PICK n \in T : \A k \in T : n <= k
  <2>. HIDE DEF T
  <2>. QED  BY <1>2, LeastExists
<1>4. PICK m \in S : n = Cardinality(Above(m))
  BY <1>3
<1>5. ASSUME NEW y \in S, y > m
      PROVE  FALSE
  <2>1. Above(y) \subseteq Above(m) /\ y \in Above(m) /\ y \notin Above(y)
    <3>1. y \in Nat /\ m \in Nat
      OBVIOUS
    <3>2. ASSUME NEW x \in S, x > y PROVE x > m
      <4>1. x \in Nat
        OBVIOUS
      <4>. QED  BY <1>5, <3>1, <3>2, <4>1
    <3>3. ~(y > y)
      BY <3>1
    <3>. QED  BY <1>5, <3>2, <3>3
  <2>2. Cardinality(Above(y)) \in T
    OBVIOUS
  <2>. HIDE DEF Above, T
  <2>3. Cardinality(Above(y)) <= Cardinality(Above(m)) /\ Above(y) # Above(m)
    BY <1>1, <2>1, FS_Subset
  <2>4. Cardinality(Above(y)) < Cardinality(Above(m))
    BY <1>1, <2>1, <2>3, FS_Subset
  <2>. QED  BY <1>1, <1>3, <1>4, <2>2, <2>4
<1>. QED  BY <1>5

LEMMA MaxIsGreatest ==
  ASSUME NEW S \in SUBSET Nat, IsFiniteSet(S), S # {}
  PROVE  Sets!Max(S) \in S /\ \A x \in S : x <= Sets!Max(S)
<1>1. \E m \in S : \A x \in S : m >= x
  BY GreatestExists
<1>2. LET m == Sets!Max(S) IN m \in S /\ \A x \in S : m >= x
  BY <1>1 DEF Sets!Max
<1>. QED  BY <1>2

\* A query reads the first keys after its start, and all of them if it reads fewer than
\* it might.
LEMMA EvaluatedIs ==
  ASSUME NEW keys \in SUBSET Nat, IsFiniteSet(keys), NEW after \in Nat, NEW n \in Nat
  PROVE  LET read == Evaluated(keys, after, n)
             rest == {k \in keys : k > after}
         IN  /\ read \subseteq rest /\ IsFiniteSet(read)
             /\ \A j \in read, k \in rest : k <= j => k \in read
             /\ Cardinality(read) < n => read = rest
<1>. DEFINE read == Evaluated(keys, after, n)
            rest == {k \in keys : k > after}
            Upto(k) == {i \in rest : i <= k}
<1>1. \A k : k \in read <=> k \in rest /\ Cardinality(Upto(k)) <= n
  BY DEF Evaluated
<1>2. IsFiniteSet(rest) /\ rest \in SUBSET Nat
  BY FS_Subset
<1>3. read \subseteq rest /\ IsFiniteSet(read)
  <2>. HIDE DEF read, rest
  <2>. QED  BY <1>1, <1>2, FS_Subset
<1>4. \A k : IsFiniteSet(Upto(k)) /\ Cardinality(Upto(k)) \in Nat
  <2>. HIDE DEF rest
  <2>. QED  BY <1>2, FS_Subset, FS_CardinalityType
<1>5. ASSUME NEW j \in read, NEW k \in rest, k <= j
      PROVE  k \in read
  <2>. HIDE DEF read, rest
  <2>1. Upto(k) \subseteq Upto(j)
    <3>. SUFFICES ASSUME NEW i \in rest, i <= k PROVE i <= j
      OBVIOUS
    <3>1. i \in Nat /\ j \in Nat /\ k \in Nat
      BY <1>2, <1>3
    <3>. QED  BY <1>5, <3>1
  <2>2. Cardinality(Upto(k)) <= Cardinality(Upto(j))
    <3>. HIDE DEF Upto
    <3>. QED  BY <1>4, <2>1, FS_Subset
  <2>3. Cardinality(Upto(j)) <= n
    BY <1>1
  <2>4. PICK x, y \in Nat : x = Cardinality(Upto(k)) /\ y = Cardinality(Upto(j))
    BY <1>4
  <2>5. x <= n
    BY <2>2, <2>3, <2>4
  <2>. QED  BY <1>1, <2>4, <2>5
<1>6. ASSUME Cardinality(read) < n
      PROVE  read = rest
  <2>. HIDE DEF read, rest
  <2>. SUFFICES ASSUME rest \ read # {} PROVE FALSE
    BY <1>3
  <2>1. PICK k \in rest \ read : \A x \in rest \ read : k <= x
    <3>1. rest \ read \in SUBSET Nat
      BY <1>2
    <3>. QED  BY <3>1, LeastExists
  <2>2. Upto(k) \subseteq read \cup {k}
    <3>. SUFFICES ASSUME NEW i \in rest, i <= k, i # k, i \notin read PROVE FALSE
      OBVIOUS
    <3>1. k <= i /\ i \in Nat /\ k \in Nat
      BY <1>2, <2>1
    <3>. QED  BY <3>1
  <2>3. /\ IsFiniteSet(read \cup {k}) /\ Cardinality(read) \in Nat
        /\ Cardinality(read \cup {k}) = Cardinality(read) + 1
    BY <1>3, <2>1, FS_AddElement, FS_CardinalityType
  <2>4. Cardinality(Upto(k)) <= Cardinality(read \cup {k})
    <3>. HIDE DEF Upto
    <3>. QED  BY <2>2, <2>3, FS_Subset
  <2>5. PICK x, y \in Nat : x = Cardinality(Upto(k)) /\ y = Cardinality(read)
    BY <1>4, <2>3
  <2>6. x <= n
    BY <1>6, <2>3, <2>4, <2>5
  <2>. QED  BY <1>1, <2>1, <2>5, <2>6
<1>. HIDE DEF read, rest
<1>7. /\ read \subseteq rest /\ IsFiniteSet(read)
      /\ \A j \in read, k \in rest : k <= j => k \in read
      /\ Cardinality(read) < n => read = rest
  BY <1>3, <1>5, <1>6
<1>. QED  BY <1>7 DEF read, rest

\* What a query with the given source and start has read, and the cursor it returns.
Covered(origin, keys, after, read, next) ==
  /\ read \subseteq {k \in keys : k > after}
  /\ next = None => {k \in keys : k > after} \subseteq read
  /\ next # None =>
       /\ next \in Cursor /\ next.source = origin /\ after <= next.after
       /\ \A k \in read : k <= next.after
       /\ {k \in keys : k > after /\ k <= next.after} \subseteq read

LEMMA NextKeysCover ==
  ASSUME ListAssumption, NEW origin \in Sources, NEW keys \in SUBSET (Owned \cup Shared),
         NEW after \in Nat, NEW n \in Nat \ {0}, NEW next \in NextKeys(origin, keys, after, n)
  PROVE  /\ Covered(origin, keys, after, Evaluated(keys, after, n), next)
         /\ next \in Maybe(Cursor)
<1>. DEFINE read == Evaluated(keys, after, n)
            rest == {k \in keys : k > after}
<1>1. keys \in SUBSET Nat /\ IsFiniteSet(keys)
  <2>1. IsFiniteSet(Owned \cup Shared) /\ Owned \cup Shared \subseteq Nat
    BY FS_Union DEF ListAssumption
  <2>. QED  BY <2>1, FS_Subset
<1>2. /\ read \subseteq rest /\ IsFiniteSet(read)
      /\ \A j \in read, k \in rest : k <= j => k \in read
      /\ Cardinality(read) < n => read = rest
  BY <1>1, EvaluatedIs
<1>3. \/ next = None /\ read = rest
      \/ ~(Cardinality(read) < n) /\ next = [source |-> origin, after |-> Sets!Max(read)]
  BY <1>2 DEF NextKeys
<1>4. rest \subseteq Nat
  BY <1>1
<1>. HIDE DEF read
<1>5. CASE next = None /\ read = rest
  BY <1>2, <1>5 DEF Covered, Maybe, read
<1>6. CASE ~(Cardinality(read) < n) /\ next = [source |-> origin, after |-> Sets!Max(read)]
  <2>1. read # {}
    BY <1>6, FS_EmptySet
  <2>2. PICK m \in read : m = Sets!Max(read) /\ \A x \in read : x <= m
    <3>1. read \in SUBSET Nat
      BY <1>2, <1>4
    <3>. QED  BY <1>2, <2>1, <3>1, MaxIsGreatest
  <2>3. next \in Cursor /\ next.source = origin /\ next.after = m
    <3>1. m \in Owned \cup Shared \cup {0}
      BY <1>2
    <3>. QED  BY <1>6, <2>2, <3>1 DEF Cursor
  <2>4. m \in Nat /\ after <= m
    BY <1>2, <1>4
  <2>5. next # None
    <3>1. Owned \cup Shared \cup {0} \subseteq Nat
      BY DEF ListAssumption
    <3>. QED  BY <2>3, <3>1 DEF ListAssumption, Cursor, Sources
  <2>6. {k \in keys : k > after /\ k <= m} \subseteq read
    BY <1>2
  <2>. QED  BY <1>2, <2>2, <2>3, <2>4, <2>5, <2>6 DEF Covered, Maybe, read
<1>. QED  BY <1>3, <1>5, <1>6

-----------------------------------------------------------------------------
(* The list: its steps *)

LEMMA CursorFields ==
  ASSUME ListAssumption, NEW cursor \in Cursor
  PROVE  cursor.source \in Sources /\ cursor.after \in Nat
  BY DEF ListAssumption, Cursor

LEMMA ListStarts == ListAssumption /\ ListInit => ListConsistent
<1>. SUFFICES ASSUME ListAssumption, ListInit PROVE ListConsistent
  OBVIOUS
<1>1. First \in Cursor /\ First.source = "owned" /\ First.after = 0
  BY DEF First, Cursor, Sources
<1>2. ListTypeOK
  BY <1>1 DEF ListInit, ListTypeOK, NoWalk, Kinds, Maybe
<1>3. walk.at = "rest" /\ walk = NoWalk
  BY DEF ListInit, NoWalk
<1>4. \A k \in Owned \cup Shared : shown[k] = 0
  BY DEF ListInit
<1>5. WalkShape /\ LoadSound
  BY <1>3 DEF WalkShape, LoadSound
<1>6. WalkSound
  BY <1>4 DEF WalkSound, ListInit
<1>7. ListComplete
  BY <1>3, <1>4 DEF ListComplete
<1>. QED  BY <1>2, <1>5, <1>6, <1>7 DEF ListConsistent, ListInit

\* A page answered with designs that were not shown before.
LEMMA DeliverStep ==
  ASSUME ListAssumption, ListConsistent, SameRecords, cut' \in BOOLEAN, cut => cut',
         NEW items \in SUBSET (Owned \cup Shared), NEW next \in Maybe(Cursor),
         Deliver(items, next), walk.limit \in Limits,
         \A k \in items : shown[k] = 0,
         next # None =>
           /\ \A k \in Owned \cup Shared : shown[k] = 1 => k \in GonePast(next)
           /\ items \subseteq GonePast(next)
           /\ ~cut' => \A k \in steady \cap GonePast(next) : shown[k] = 1 \/ k \in items,
         next = None => (~cut' => \A k \in steady : shown[k] = 1 \/ k \in items)
  PROVE  ListConsistent'
<1>1. /\ shown \in [Owned \cup Shared -> Nat] /\ \A k \in Owned \cup Shared : shown[k] <= 1
      /\ steady \subseteq Owned \cup Shared
  BY DEF ListConsistent, ListTypeOK, ListComplete
<1>2. /\ shown' \in [Owned \cup Shared -> Nat]
      /\ \A k \in Owned \cup Shared : shown'[k] = IF k \in items THEN shown[k] + 1 ELSE shown[k]
  BY <1>1 DEF Deliver
<1>3. \A k \in Owned \cup Shared :
        /\ shown'[k] <= 1
        /\ shown'[k] = 1 <=> shown[k] = 1 \/ k \in items
  BY <1>1, <1>2
<1>4. /\ steady' = steady /\ Open' = Open /\ UNCHANGED <<kept, granted, mutations>>
  BY DEF SameRecords, Open
<1>5. First \in Cursor
  BY DEF First, Cursor, Sources
<1>6. PICK t : /\ t = walk' /\ t.items = {} /\ t.rows = {} /\ t.next = None
               /\ t \in [at : {"page", "end"}, limit : Limits \cup {0}, cursor : Cursor,
                         items : {{}}, rows : {{}}, next : {None}]
               /\ next = None => t.at = "end"
               /\ next # None => t.at = "page" /\ t.limit \in Limits /\ t.cursor = next
  <2>1. CASE next = None
    <3>1. walk' = [NoWalk EXCEPT !.at = "end"]
      BY <2>1 DEF Deliver
    <3>. QED  BY <1>5, <2>1, <3>1 DEF NoWalk
  <2>2. CASE next # None
    <3>1. walk' = [NoWalk EXCEPT !.at = "page", !.limit = walk.limit, !.cursor = next]
      BY <2>2 DEF Deliver
    <3>2. next \in Cursor
      BY <2>2 DEF Maybe
    <3>3. walk' = [at |-> "page", limit |-> walk.limit, cursor |-> next, items |-> {},
                   rows |-> {}, next |-> None]
      BY <3>1 DEF NoWalk
    <3>. QED  BY <2>2, <3>2, <3>3
  <2>. QED  BY <2>1, <2>2
<1>7. ListTypeOK'
  BY <1>2, <1>4, <1>6 DEF ListConsistent, ListTypeOK, Maybe
<1>8. WalkShape' /\ LoadSound'
  BY <1>6 DEF WalkShape, LoadSound
<1>9. WalkSound'
  <2>. SUFFICES ASSUME walk'.at \notin {"end", "error"} PROVE WalkSound'
    BY DEF WalkSound
  <2>1. next # None /\ walk'.cursor = next /\ walk'.items = {}
    BY <1>6
  <2>2. /\ \A k \in Owned \cup Shared : shown'[k] = 1 => k \in GonePast(next)
        /\ ~cut' => \A k \in steady \cap GonePast(next) : shown'[k] = 1
    BY <1>1, <1>3, <2>1
  <2>. QED  BY <1>4, <2>1, <2>2 DEF WalkSound, GonePast
<1>10. ListComplete'
  <2>1. walk'.at = "end" => next = None
    BY <1>6
  <2>. QED  BY <1>1, <1>3, <1>4, <2>1 DEF ListComplete
<1>. QED  BY <1>4, <1>7, <1>8, <1>9, <1>10 DEF ListConsistent

\* A page answered by an error ends the walk.
LEMMA RefuseStep ==
  ASSUME ListConsistent, SameRecords, cut' = cut, Refuse
  PROVE  ListConsistent'
<1>1. First \in Cursor
  BY DEF First, Cursor, Sources
<1>2. walk' = [NoWalk EXCEPT !.at = "error"] /\ shown' = shown
  BY DEF Refuse
<1>3. ListTypeOK'
  BY <1>1, <1>2 DEF ListConsistent, ListTypeOK, SameRecords, NoWalk, Maybe
<1>4. walk'.at = "error"
  BY <1>2 DEF NoWalk
<1>5. WalkShape' /\ WalkSound' /\ LoadSound'
  BY <1>4 DEF WalkShape, WalkSound, LoadSound
<1>6. ListComplete' /\ steady' \subseteq Open'
  BY <1>2, <1>4 DEF ListConsistent, ListComplete, SameRecords, Open
<1>. QED  BY <1>3, <1>5, <1>6 DEF ListConsistent

\* A step of the walk that shows nothing.
LEMMA WalkOn ==
  ASSUME ListConsistent, SameRecords, shown' = shown, cut' \in BOOLEAN,
         ListTypeOK', WalkShape', WalkSound', LoadSound',
         walk'.at # "end"
  PROVE  ListConsistent'
  BY DEF ListConsistent, SameRecords, Open, ListComplete

LEMMA BeginListStep ==
  ASSUME ListAssumption, ListConsistent, BeginList
  PROVE  ListConsistent'
<1>1. PICK n \in Limits : walk' = [walk EXCEPT !.at = "page", !.limit = n]
  BY DEF BeginList
<1>2. /\ walk = NoWalk /\ steady' = Open /\ Open' = Open
      /\ UNCHANGED <<kept, granted, shown, mutations, cut>>
  BY DEF BeginList, ListConsistent, WalkShape, Open
<1>3. First \in Cursor /\ First.source = "owned" /\ First.after = 0
  BY DEF First, Cursor, Sources
<1>4. /\ walk'.at = "page" /\ walk'.limit = n /\ walk'.items = {} /\ walk'.cursor = First
      /\ walk'.next = None /\ walk'.rows = {}
  BY <1>1, <1>2 DEF NoWalk
<1>5. ListTypeOK'
  BY <1>1, <1>2, <1>3, <1>4 DEF ListConsistent, ListTypeOK, Open, NoWalk, Maybe
<1>6. WalkShape' /\ LoadSound'
  BY <1>4 DEF WalkShape, LoadSound
<1>7. GonePast(First) = {}
  BY <1>3 DEF GonePast, ListAssumption
<1>8. \A k \in Owned \cup Shared : shown[k] # 1
  <2>1. walk.at = "rest" /\ walk.cursor = First
    BY <1>2 DEF NoWalk
  <2>. QED  BY <1>7, <2>1 DEF ListConsistent, WalkSound
<1>9. WalkSound'
  BY <1>2, <1>4, <1>7, <1>8 DEF WalkSound
<1>10. ListComplete'
  BY <1>2, <1>4 DEF ListConsistent, ListComplete
<1>. QED  BY <1>2, <1>5, <1>6, <1>9, <1>10 DEF ListConsistent

LEMMA AskPageStep ==
  ASSUME ListAssumption, ListConsistent, AskPage
  PROVE  ListConsistent'
<1>1. /\ walk.at = "page" /\ walk' = [walk EXCEPT !.at = walk.cursor.source]
      /\ SameRecords /\ UNCHANGED <<shown, cut>> /\ ListTypeOK
  BY DEF AskPage, ListConsistent
<1>2. walk.cursor.source \in Sources /\ walk.limit \in Limits /\ walk.items = {}
  BY <1>1, CursorFields DEF ListConsistent, ListTypeOK, WalkShape
<1>3. /\ walk'.at = walk.cursor.source /\ walk'.limit = walk.limit /\ walk'.items = {}
      /\ walk'.cursor = walk.cursor /\ walk'.at \in {"owned", "shared"}
  BY <1>1, <1>2 DEF ListTypeOK, Sources
<1>4. ListTypeOK'
  BY <1>1, <1>2 DEF ListTypeOK, SameRecords, Sources
<1>5. WalkShape' /\ LoadSound'
  <2>1. Cardinality(walk'.items) < walk'.limit
    <3>1. \A n \in Limits : n \in Nat /\ 0 < n
      BY DEF ListAssumption
    <3>2. Cardinality({}) = 0
      BY FS_EmptySet
    <3>. QED  BY <1>2, <1>3, <3>1, <3>2
  <2>. QED  BY <1>2, <1>3, <2>1 DEF WalkShape, LoadSound
<1>6. WalkSound'
  BY <1>1, <1>2, <1>3 DEF ListConsistent, WalkSound, SameRecords
<1>. QED  BY <1>1, <1>3, <1>4, <1>5, <1>6, WalkOn DEF ListTypeOK

\* The walk goes on to the shared designs, from their first.
LEMMA ToShared ==
  ASSUME ListAssumption, ListConsistent, SameRecords, shown' = shown, cut' \in BOOLEAN,
         walk.at = "owned", NEW items \in SUBSET Owned,
         walk' = [walk EXCEPT !.at = "shared", !.items = items,
                              !.cursor = [source |-> "shared", after |-> 0]],
         Cardinality(items) < walk.limit,
         \A k \in items : k > walk.cursor.after,
         ~cut' => ~cut /\ \A k \in steady \cap Owned : k > walk.cursor.after => k \in items
  PROVE  ListConsistent'
<1>1. /\ ListTypeOK /\ walk.limit \in Limits /\ walk.items = {}
      /\ walk.cursor \in Cursor /\ walk.cursor.source = "owned" /\ walk.cursor.after \in Nat
  BY CursorFields DEF ListConsistent, WalkShape, ListTypeOK
<1>. DEFINE c == [source |-> "shared", after |-> 0]
<1>2. c \in Cursor /\ c.source = "shared" /\ c.after = 0
  BY DEF Cursor, Sources
<1>. HIDE DEF c
<1>3. /\ walk'.at = "shared" /\ walk'.items = items /\ walk'.cursor = c
      /\ walk'.limit = walk.limit
  BY <1>1 DEF ListTypeOK, c
<1>4. ListTypeOK'
  BY <1>1, <1>2 DEF ListTypeOK, SameRecords, c
<1>5. WalkShape' /\ LoadSound'
  BY <1>1, <1>2, <1>3 DEF WalkShape, LoadSound
<1>6. /\ GonePast(c) = Owned
      /\ GonePast(walk.cursor) = {k \in Owned : k <= walk.cursor.after}
  BY <1>1, <1>2 DEF GonePast, ListAssumption
<1>7. /\ \A k \in Owned \cup Shared : shown[k] = 1 => k \in GonePast(walk.cursor)
      /\ ~cut => \A k \in steady \cap GonePast(walk.cursor) : shown[k] = 1
  BY <1>1 DEF ListConsistent, WalkSound
<1>8. Owned \subseteq Nat
  BY DEF ListAssumption
<1>9. \A k \in Owned \cup Shared : shown[k] = 1 => k \in Owned \ items
  BY <1>1, <1>6, <1>7, <1>8
<1>10. ~cut' => \A k \in steady \cap Owned : shown[k] = 1 \/ k \in items
  BY <1>1, <1>6, <1>7, <1>8
<1>11. WalkSound'
  BY <1>3, <1>6, <1>9, <1>10 DEF WalkSound, SameRecords
<1>. QED  BY <1>3, <1>4, <1>5, <1>11, WalkOn

LEMMA QueryOwnedStep ==
  ASSUME ListAssumption, ListConsistent, QueryOwned
  PROVE  ListConsistent'
<1>1. /\ walk.at = "owned" /\ SameRecords /\ ListTypeOK /\ walk.limit \in Limits
      /\ walk.items = {} /\ walk.cursor.source = "owned" /\ walk.cursor \in Cursor
  BY DEF QueryOwned, ListConsistent, WalkShape, ListTypeOK
<1>2. PICK after \in Nat, n \in Nat \ {0} : after = walk.cursor.after /\ n = walk.limit
  BY <1>1, CursorFields DEF ListAssumption
<1>. DEFINE stored == {k \in Owned : kept[k] # "none"}
            read == Evaluated(stored, after, n)
            items == {k \in read : kept[k] # "canvas"}
<1>3. stored \in SUBSET (Owned \cup Shared) /\ "owned" \in Sources
  BY DEF Sources
<1>4. \A next \in NextKeys("owned", stored, after, n) :
        Covered("owned", stored, after, read, next) /\ next \in Maybe(Cursor)
  <2>. HIDE DEF stored
  <2>. QED  BY <1>3, NextKeysCover
<1>5. /\ \A k \in Owned \cup Shared : shown[k] \in Nat /\ shown[k] <= 1
      /\ \A k \in Owned \cup Shared : shown[k] = 1 => k \in Owned /\ k <= after
      /\ ~cut => \A k \in steady : k \in Owned /\ k <= after => shown[k] = 1
  BY <1>1, <1>2 DEF ListConsistent, WalkSound, GonePast, ListTypeOK, ListComplete
<1>6. \A k \in steady \cap Owned : kept[k] = "design" /\ k \in stored
  BY DEF ListConsistent, Open, ListAssumption
<1>7. IsFiniteSet(stored) /\ stored \in SUBSET Nat
  BY FS_Subset DEF ListAssumption
<1>8. read \subseteq {k \in stored : k > after} /\ IsFiniteSet(read)
  <2>. HIDE DEF stored
  <2>. QED  BY <1>7, EvaluatedIs
<1>9. /\ items \subseteq Owned /\ \A k \in items : k > after
      /\ \A k \in items : shown[k] = 0
  <2>1. \A k \in items : k \in Owned /\ k > after /\ k \in Nat
    BY <1>7, <1>8
  <2>. QED  BY <1>5, <2>1
<1>10. \/ Refuse /\ cut' = cut
       \/ \E next \in NextKeys("owned", stored, after, n) :
            \/ next # None /\ Deliver(items, next) /\ cut' = cut
            \/ /\ next = None /\ Cardinality(items) < n
               /\ walk' = [walk EXCEPT !.at = "shared", !.items = items,
                                       !.cursor = [source |-> "shared", after |-> 0]]
               /\ UNCHANGED <<shown, cut>>
            \/ next = None /\ Deliver(items, None) /\ cut' = TRUE
       \/ /\ walk' = [walk EXCEPT !.at = "shared",
                                  !.cursor = [source |-> "shared", after |-> 0]]
          /\ cut' = TRUE /\ shown' = shown
  BY <1>2 DEF QueryOwned
<1>. HIDE DEF items
<1>11. CASE Refuse /\ cut' = cut
  BY <1>1, <1>11, RefuseStep
<1>12. ASSUME NEW next \in NextKeys("owned", stored, after, n)
       PROVE  \A k \in steady \cap Owned :
                k > after /\ (next # None => k <= next.after) => k \in items
  <2>1. Covered("owned", stored, after, read, next)
    BY <1>4
  <2>. HIDE DEF stored, read
  <2>2. ASSUME NEW k \in steady \cap Owned, k > after, next # None => k <= next.after
        PROVE  k \in read
    BY <1>6, <2>1, <2>2 DEF Covered
  <2>. QED  BY <1>6, <2>2 DEF items
<1>13. ASSUME NEW next \in NextKeys("owned", stored, after, n), next # None,
              Deliver(items, next), cut' = cut
       PROVE  ListConsistent'
  <2>1. Covered("owned", stored, after, read, next) /\ next \in Maybe(Cursor)
    BY <1>4
  <2>2. /\ next.source = "owned" /\ after <= next.after
        /\ \A k \in read : k <= next.after
    BY <1>13, <2>1 DEF Covered
  <2>3. next.after \in Nat
    BY <1>13, <2>1, CursorFields DEF Maybe
  <2>4. GonePast(next) = {k \in Owned : k <= next.after}
    BY <2>2 DEF GonePast
  <2>5. items \subseteq GonePast(next)
    BY <1>9, <2>2, <2>4 DEF items
  <2>6. \A k \in Owned \cup Shared : k \in Nat
    BY DEF ListAssumption
  <2>7. \A k \in Owned \cup Shared : shown[k] = 1 => k \in GonePast(next)
    BY <1>5, <2>2, <2>3, <2>4, <2>6
  <2>8. ~cut' => \A k \in steady \cap GonePast(next) : shown[k] = 1 \/ k \in items
    BY <1>5, <1>12, <1>13, <2>4, <2>6
  <2>9. cut' \in BOOLEAN
    BY <1>1, <1>13 DEF ListTypeOK
  <2>. QED  BY <1>1, <1>9, <1>13, <2>1, <2>5, <2>7, <2>8, <2>9, DeliverStep
<1>14. ASSUME NEW next \in NextKeys("owned", stored, after, n), next = None,
              Cardinality(items) < n,
              walk' = [walk EXCEPT !.at = "shared", !.items = items,
                                   !.cursor = [source |-> "shared", after |-> 0]],
              UNCHANGED <<shown, cut>>
       PROVE  ListConsistent'
  <2>1. \A k \in steady \cap Owned : k > after => k \in items
    BY <1>12, <1>14
  <2>2. cut' \in BOOLEAN
    BY <1>1, <1>14 DEF ListTypeOK
  <2>. QED  BY <1>1, <1>2, <1>9, <1>14, <2>1, <2>2, ToShared
<1>15. ASSUME None \in Maybe(Cursor), Deliver(items, None), cut' = TRUE
       PROVE  ListConsistent'
  BY <1>1, <1>9, <1>15, DeliverStep
<1>16. CASE /\ walk' = [walk EXCEPT !.at = "shared",
                                    !.cursor = [source |-> "shared", after |-> 0]]
            /\ cut' = TRUE /\ shown' = shown
  <2>. DEFINE none == {}
  <2>1. walk' = [walk EXCEPT !.at = "shared", !.items = none,
                             !.cursor = [source |-> "shared", after |-> 0]]
    BY <1>1, <1>16 DEF ListTypeOK
  <2>2. Cardinality(none) < walk.limit
    BY <1>2, FS_EmptySet
  <2>3. none \in SUBSET Owned /\ none = {}
    OBVIOUS
  <2>. HIDE DEF none
  <2>. QED  BY <1>1, <1>16, <2>1, <2>2, <2>3, ToShared
<1>17. None \in Maybe(Cursor)
  BY DEF Maybe
<1>. QED  BY <1>10, <1>11, <1>13, <1>14, <1>15, <1>16, <1>17

LEMMA QuerySharedStep ==
  ASSUME ListAssumption, ListConsistent, QueryShared
  PROVE  ListConsistent'
<1>1. /\ walk.at = "shared" /\ SameRecords /\ ListTypeOK /\ walk.limit \in Limits
      /\ walk.cursor.source = "shared" /\ walk.cursor \in Cursor
      /\ walk.items \subseteq Owned /\ Cardinality(walk.items) < walk.limit
  BY DEF QueryShared, ListConsistent, WalkShape, ListTypeOK
<1>2. PICK after \in Nat : after = walk.cursor.after
  BY <1>1, CursorFields
<1>3. PICK room \in Nat \ {0} : room = walk.limit - Cardinality(walk.items)
  <2>1. Cardinality(walk.items) \in Nat
    BY <1>1, FS_Subset, FS_CardinalityType DEF ListAssumption
  <2>2. PICK x, y \in Nat : x = walk.limit /\ y = Cardinality(walk.items)
    BY <1>1, <2>1 DEF ListAssumption
  <2>3. y < x
    BY <1>1, <2>2
  <2>4. x - y \in Nat \ {0}
    BY <2>3
  <2>. QED  BY <2>2, <2>4
<1>4. \A k \in walk.items : shown[k] = 0
  <2>1. \A k \in walk.items : shown[k] # 1 /\ shown[k] \in Nat /\ shown[k] <= 1
    BY <1>1 DEF ListConsistent, WalkSound, ListTypeOK, ListComplete
  <2>. QED  BY <2>1
<1>5. CASE Deliver(walk.items, None) /\ cut' = TRUE
  <2>1. walk.items \in SUBSET (Owned \cup Shared) /\ None \in Maybe(Cursor)
    BY <1>1 DEF Maybe
  <2>. QED  BY <1>1, <1>4, <1>5, <2>1, DeliverStep
<1>6. ASSUME NEW next \in NextKeys("shared", granted, after, room),
             walk' = [walk EXCEPT !.at = "load", !.next = next,
                                  !.rows = Evaluated(granted, after, room)],
             UNCHANGED <<shown, cut>>
      PROVE  ListConsistent'
  <2>1. granted \in SUBSET (Owned \cup Shared) /\ "shared" \in Sources
    BY <1>1 DEF ListTypeOK, Sources
  <2>2. PICK read : read = Evaluated(granted, after, room)
    OBVIOUS
  <2>3. Covered("shared", granted, after, read, next) /\ next \in Maybe(Cursor)
    BY <2>1, <2>2, NextKeysCover
  <2>4. read \subseteq Shared
    BY <1>1, <2>3 DEF Covered, ListTypeOK
  <2>5. /\ walk'.at = "load" /\ walk'.next = next /\ walk'.rows = read
        /\ walk'.items = walk.items /\ walk'.cursor = walk.cursor
        /\ walk'.limit = walk.limit
    BY <1>1, <1>6, <2>2 DEF ListTypeOK
  <2>6. ListTypeOK'
    BY <1>1, <1>6, <2>2, <2>3, <2>4 DEF ListTypeOK, SameRecords
  <2>7. WalkShape'
    BY <1>1, <2>5 DEF WalkShape
  <2>8. WalkSound'
    BY <1>1, <1>6, <2>5 DEF ListConsistent, WalkSound, SameRecords
  <2>. DEFINE ahead == {k \in Shared : k > after /\ (next # None => k <= next.after)}
  <2>9. next # None => next.source = "shared" /\ after <= next.after
    BY <2>3 DEF Covered
  <2>10. read \subseteq ahead
    BY <2>3, <2>4 DEF Covered
  <2>11. \A k \in steady \cap Shared : k \in granted
    BY DEF ListConsistent, Open, ListAssumption
  <2>12. steady \cap ahead \subseteq read
    BY <2>3, <2>11 DEF Covered
  <2>13. LoadSound'
    BY <1>1, <1>2, <2>5, <2>9, <2>10, <2>12 DEF LoadSound, SameRecords
  <2>. QED  BY <1>1, <1>6, <2>5, <2>6, <2>7, <2>8, <2>13, WalkOn DEF ListTypeOK
<1>. QED  BY <1>2, <1>3, <1>5, <1>6 DEF QueryShared

LEMMA LoadSharedStep ==
  ASSUME ListAssumption, ListConsistent, LoadShared
  PROVE  ListConsistent'
<1>1. /\ walk.at = "load" /\ SameRecords /\ ListTypeOK /\ walk.limit \in Limits
      /\ walk.cursor.source = "shared" /\ walk.cursor \in Cursor
      /\ walk.items \subseteq Owned /\ walk.rows \subseteq Shared
      /\ walk.next \in Maybe(Cursor)
  BY DEF LoadShared, ListConsistent, WalkShape, ListTypeOK
<1>2. PICK after \in Nat : after = walk.cursor.after
  BY <1>1, CursorFields
<1>3. PICK next \in Maybe(Cursor) : next = walk.next
  BY <1>1
<1>4. \A k \in Owned \cup Shared : k \in Nat
  BY DEF ListAssumption
<1>5. /\ \A k \in Owned \cup Shared : shown[k] \in Nat /\ shown[k] <= 1
      /\ \A k \in Owned \cup Shared :
           shown[k] = 1 => (k \in Owned \/ k <= after) /\ k \notin walk.items
      /\ ~cut => \A k \in steady :
                   k \in Owned \/ k <= after => shown[k] = 1 \/ k \in walk.items
  <2>1. /\ \A k \in Owned \cup Shared : shown[k] \in Nat /\ shown[k] <= 1
        /\ steady \subseteq Owned \cup Shared
    BY <1>1 DEF ListConsistent, ListTypeOK, ListComplete
  <2>2. GonePast(walk.cursor) = Owned \cup {k \in Shared : k <= after}
    BY <1>1, <1>2 DEF GonePast
  <2>. QED  BY <1>1, <2>1, <2>2 DEF ListConsistent, WalkSound
<1>6. /\ next # None => next.source = "shared" /\ after <= next.after
      /\ \A k \in walk.rows : k > after /\ (next # None => k <= next.after)
      /\ \A k \in steady \cap Shared :
           k > after /\ (next # None => k <= next.after) => k \in walk.rows
  BY <1>1, <1>2, <1>3 DEF ListConsistent, LoadSound
<1>7. \A k \in steady : kept[k] = "design" /\ k \in Owned \cup Shared
  BY <1>1 DEF ListConsistent, Open, ListTypeOK
<1>. DEFINE items == walk.items \cup {k \in walk.rows : kept[k] = "design"}
<1>8. items \in SUBSET (Owned \cup Shared)
  BY <1>1
<1>9. \A k \in items : shown[k] = 0
  <2>1. \A k \in walk.rows : k \notin Owned /\ ~(k <= after)
    BY <1>1, <1>4, <1>6 DEF ListAssumption
  <2>2. \A k \in items : shown[k] # 1
    BY <1>1, <1>5, <2>1
  <2>. QED  BY <1>5, <1>8, <2>2
<1>10. CASE Refuse /\ cut' = cut
  BY <1>1, <1>10, RefuseStep
<1>11. CASE Deliver(walk.items, None) /\ cut' = TRUE
  <2>1. walk.items \in SUBSET (Owned \cup Shared) /\ None \in Maybe(Cursor)
    BY <1>1 DEF Maybe
  <2>2. \A k \in walk.items : shown[k] = 0
    BY <1>9
  <2>. QED  BY <1>1, <1>11, <2>1, <2>2, DeliverStep
<1>12. CASE Deliver(items, next) /\ cut' = cut
  <2>1. ASSUME ~cut, NEW k \in steady,
               k \in Owned \/ k <= after \/ (next # None => k <= next.after)
        PROVE  shown[k] = 1 \/ k \in items
    <3>1. CASE k \in Owned \/ k <= after
      BY <1>5, <2>1, <3>1
    <3>2. CASE k \notin Owned /\ ~(k <= after)
      <4>1. k \in Shared /\ k > after
        BY <1>4, <1>7, <3>2
      <4>. QED  BY <1>6, <1>7, <2>1, <3>2, <4>1
    <3>. QED  BY <3>1, <3>2
  <2>2. cut' \in BOOLEAN
    BY <1>1, <1>12 DEF ListTypeOK
  <2>3. CASE next = None
    <3>1. ~cut' => \A k \in steady : shown[k] = 1 \/ k \in items
      BY <1>12, <2>1, <2>3
    <3>. HIDE DEF items
    <3>. QED  BY <1>1, <1>8, <1>9, <1>12, <2>2, <2>3, <3>1, DeliverStep
  <2>4. CASE next # None
    <3>1. next.source = "shared" /\ after <= next.after /\ next.after \in Nat
      BY <1>6, <2>4, CursorFields DEF Maybe
    <3>2. GonePast(next) = Owned \cup {k \in Shared : k <= next.after}
      BY <3>1 DEF GonePast
    <3>3. \A k \in Owned \cup Shared : shown[k] = 1 => k \in GonePast(next)
      BY <1>4, <1>5, <3>1, <3>2
    <3>4. items \subseteq GonePast(next)
      BY <1>1, <1>6, <2>4, <3>2
    <3>5. ~cut' => \A k \in steady \cap GonePast(next) : shown[k] = 1 \/ k \in items
      BY <1>12, <2>1, <3>2
    <3>. HIDE DEF items
    <3>. QED  BY <1>1, <1>8, <1>9, <1>12, <2>2, <2>4, <3>3, <3>4, <3>5, DeliverStep
  <2>. QED  BY <2>3, <2>4
<1>. QED  BY <1>3, <1>10, <1>11, <1>12 DEF LoadShared

\* Whatever changes, what was there all along is still there.
LEMMA MutateStep ==
  ASSUME ListConsistent, Mutate, granted' \subseteq Shared,
         kept' \in [Owned \cup Shared -> Kinds]
  PROVE  ListConsistent'
<1>1. /\ steady' = steady \cap Open' /\ UNCHANGED <<walk, shown, cut>>
      /\ mutations' = mutations + 1
  BY DEF Mutate
<1>2. ListTypeOK'
  BY <1>1 DEF ListConsistent, ListTypeOK
<1>3. WalkShape' /\ WalkSound' /\ LoadSound' /\ ListComplete'
  BY <1>1 DEF ListConsistent, WalkShape, WalkSound, LoadSound, ListComplete
<1>. QED  BY <1>1, <1>2, <1>3 DEF ListConsistent

LEMMA ListSteps ==
  ASSUME ListAssumption, ListConsistent, [ListNext]_listVars
  PROVE  ListConsistent'
<1>1. kept \in [Owned \cup Shared -> Kinds] /\ granted \subseteq Shared
  BY DEF ListConsistent, ListTypeOK
<1>2. {"none", "design", "canvas", "stub"} \subseteq Kinds
  BY DEF Kinds
<1>3. CASE StoreRecord
  BY <1>1, <1>2, <1>3, MutateStep DEF StoreRecord
<1>4. CASE DropRecord
  BY <1>1, <1>2, <1>4, MutateStep DEF DropRecord
<1>5. CASE LateUpdate
  BY <1>1, <1>2, <1>5, MutateStep DEF LateUpdate
<1>6. CASE GrantRow
  BY <1>1, <1>6, MutateStep DEF GrantRow
<1>7. CASE SweepRow
  BY <1>1, <1>7, MutateStep DEF SweepRow
<1>8. CASE UNCHANGED listVars
  BY <1>8 DEF listVars, ListConsistent, ListTypeOK, Open, WalkShape, WalkSound, LoadSound,
              ListComplete
<1>. QED  BY <1>3, <1>4, <1>5, <1>6, <1>7, <1>8, BeginListStep, AskPageStep, QueryOwnedStep,
             QuerySharedStep, LoadSharedStep DEF ListNext, ListRest

\* At every step of a walk through the pages of a list, what its cursor has gone past was
\* shown or is on the page being made, and the memberships read lie ahead of it without a
\* gap, although designs are created, shared and deleted between the reads.
THEOREM ListConsistentCorrect == ListSpec => []ListConsistent
<1>1. ListInit => ListConsistent
  BY ListAssumption, ListStarts
<1>2. ListConsistent /\ [ListNext]_listVars => ListConsistent'
  BY ListAssumption, ListSteps
<1>. QED  BY <1>1, <1>2, PTL DEF ListSpec

\* For any designs, page sizes and changes, nothing is listed twice, and a list that ends
\* without a failed read has shown every design that could be opened all along.
THEOREM ListCompleteCorrect == ListSpec => []ListComplete
<1>1. ListConsistent => ListComplete
  BY DEF ListConsistent
<1>. QED  BY <1>1, ListConsistentCorrect, PTL

=============================================================================
