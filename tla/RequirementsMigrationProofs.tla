--------------------- MODULE RequirementsMigrationProofs ---------------------
(***************************************************************************)
(* Proofs about RequirementsMigration, for a manifest of any length, any   *)
(* number of processes, runs and edits, and whichever faults happen; and   *)
(* about RequirementDrafts, for records of any number of sentences and any *)
(* number of drafts, reviews and edits.                                    *)
(***************************************************************************)
EXTENDS RequirementsMigration, RequirementDrafts, FiniteSetTheorems, SequenceTheorems,
        WellFoundedInduction, TLAPS

-----------------------------------------------------------------------------
(* The order of a rollback *)

\* There is a last one in every set of records that is not empty.
LEMMA HighestIsLast ==
  ASSUME NEW S \in SUBSET Records, S # {}
  PROVE  Highest(S) \in S /\ \A m \in S : m <= Highest(S)
<1>. DEFINE T == {n \in Nat : \E k \in S : n + k = Last}
            Less == {p \in Nat \X Nat : p[1] < p[2]}
<1>1. Last \in Nat /\ \A k \in S : k \in Nat /\ k <= Last
  BY MigrationAssumption DEF Records
<1>2. T \subseteq Nat /\ T # {}
  <2>1. PICK k \in S : TRUE
    OBVIOUS
  <2>2. Last - k \in Nat /\ (Last - k) + k = Last
    BY <1>1, <2>1
  <2>. QED  BY <2>1, <2>2
<1>3. IsWellFoundedOn(Less, Nat)
  BY NatLessThanWellFounded DEF OpToRel
<1>4. PICK n \in T : \A y \in T : ~(<<y, n>> \in Less)
  <2>. HIDE DEF T, Less
  <2>. QED  BY <1>2, <1>3, WFMin
<1>5. \A y \in T : ~(y < n)
  BY <1>2, <1>4
<1>6. PICK k \in S : n + k = Last
  BY <1>4
<1>7. \A m \in S : m <= k
  <2>. SUFFICES ASSUME NEW m \in S PROVE m <= k
    OBVIOUS
  <2>1. Last - m \in T
    BY <1>1
  <2>2. ~(Last - m < n)
    BY <1>5, <2>1
  <2>. QED  BY <1>1, <1>4, <1>6, <2>2
<1>. QED  BY <1>7 DEF Highest

\* Where a rollback goes from record i: to the next entry below, with none between, or to
\* its end.
LEMMA NextBackGoes ==
  ASSUME NEW t \in Script, NEW m \in Journal, NEW i \in Nat
  PROVE  LET s == NextBack(t, m, i) IN
         /\ s \in Script /\ s.memory = t.memory /\ s.of = t.of
         /\ \/ s.pc = "finish" /\ \A k \in Records : k < i => m.entries[k] = "none"
            \/ /\ s.pc = "check" /\ s.at \in Records
               /\ \A k \in Records : k > s.at /\ k < i => m.entries[k] = "none"
<1>. DEFINE S == Below(m, i)
            s == NextBack(t, m, i)
<1>1. S \in SUBSET Records
  BY DEF Below
<1>2. CASE S = {}
  <2>1. s = [t EXCEPT !.pc = "finish"]
    BY <1>2 DEF NextBack
  <2>2. s \in Script /\ s.memory = t.memory /\ s.of = t.of /\ s.pc = "finish"
    BY <2>1 DEF Script
  <2>3. \A k \in Records : k < i => m.entries[k] = "none"
    BY <1>2 DEF Below
  <2>. QED  BY <2>2, <2>3
<1>3. CASE S # {}
  <2>. DEFINE n == Highest(S)
  <2>1. n \in S /\ \A k \in S : k <= n
    BY <1>1, <1>3, HighestIsLast
  <2>2. n \in Records /\ n \in Nat
    BY <1>1, <2>1 DEF Records
  <2>3. s = [t EXCEPT !.pc = "check", !.at = n]
    BY <1>3 DEF NextBack
  <2>. HIDE DEF n
  <2>4. s \in Script /\ s.memory = t.memory /\ s.of = t.of /\ s.pc = "check" /\ s.at = n
    BY <2>2, <2>3 DEF Script
  <2>5. \A k \in Records : k > n /\ k < i => m.entries[k] = "none"
    <3>. SUFFICES ASSUME NEW k \in Records, k > n, k < i, m.entries[k] # "none"
                  PROVE  FALSE
      OBVIOUS
    <3>1. k \in S
      BY DEF Below
    <3>. QED  BY <2>1, <2>2, <3>1 DEF Records
  <2>. QED  BY <2>2, <2>4, <2>5
<1>. HIDE DEF S
<1>. QED  BY <1>2, <1>3

-----------------------------------------------------------------------------
(* One step of a process *)

\* The process goes on with s.
Moves(h, s) == s \in Script /\ script' = [script EXCEPT ![h] = s]

\* No journal loses what it stands for on record i when a process goes on with s.
Unlost(s, i) ==
  \A j \in Handlers :
    Standing(j, i) =>
      /\ journal'[j].entries[i] \in Live
      /\ s.of = j => s.memory.entries[i] \in Live /\ ~Clears(s, i)

LEMMA StandingStays ==
  ASSUME MigrationConsistent, NEW h \in Handlers, NEW s, Moves(h, s),
         NEW i \in Records, Unlost(s, i), NEW j \in Handlers, Standing(j, i)
  PROVE  Standing(j, i)'
<1>1. \A k \in Handlers : script'[k] = IF k = h THEN s ELSE script[k]
  BY DEF Moves, MigrationConsistent, MigrationTypeOK
<1>. QED  BY <1>1 DEF Unlost, Standing, Clears

\* The processes that do not move: nobody else writes their journals.
LEMMA OthersSound ==
  ASSUME MigrationConsistent, NEW h \in Handlers, NEW s, Moves(h, s),
         \A j \in Handlers : j # script[h].of => journal'[j] = journal[j],
         s.of \in {None, script[h].of} \/ \A k \in Handlers : script[k].of # s.of,
         NEW k \in Handlers, k # h
  PROVE  ScriptSound(k)'
<1>1. script'[k] = script[k]
  BY DEF Moves, MigrationConsistent, MigrationTypeOK
<1>2. ScriptSound(k) /\ script[k] \in Script
  BY DEF MigrationConsistent, MigrationTypeOK
<1>3. CASE script[k].pc = "idle"
  BY <1>1, <1>2, <1>3 DEF ScriptSound, ApplySound, RollbackSound, JournalSound
<1>4. CASE script[k].pc # "idle"
  <2>1. script[k].of \in Handlers
    BY <1>2, <1>4 DEF ScriptSound, Script, Maybe
  <2>2. script[k].of # script[h].of /\ script[k].of # s.of
    BY <1>2, <1>4, <2>1, MigrationAssumption DEF MigrationConsistent, ScriptSound
  <2>3. journal'[script[k].of] = journal[script[k].of]
    BY <2>1, <2>2
  <2>4. \A j \in Handlers : script'[j] = IF j = h THEN s ELSE script[j]
    BY DEF Moves, MigrationConsistent, MigrationTypeOK
  <2>5. ASSUME NEW i \in Records, Standing(script[k].of, i)
        PROVE  Standing(script[k].of, i)'
    BY <2>1, <2>2, <2>3, <2>4, <2>5 DEF Standing, Clears
  <2>6. script[k].pc \in {"preflight", "open"} => journal'[k].status = "none"
    BY <1>2, <2>3 DEF ScriptSound, ApplySound
  <2>7. ApplySound(k)'
    <3>1. script[k].pc = "update" => Standing(script[k].of, script[k].at)'
      <4>. SUFFICES ASSUME script[k].pc = "update"
                    PROVE  Standing(script[k].of, script[k].at)'
        OBVIOUS
      <4>1. PICK i \in Records : i = script[k].at
        BY <1>2 DEF ScriptSound
      <4>2. Standing(script[k].of, i)
        BY <1>2, <4>1 DEF ScriptSound, ApplySound
      <4>3. Standing(script[k].of, i)'
        BY <2>5, <4>2
      <4>. QED  BY <1>1, <4>1, <4>3
    <3>. QED  BY <1>1, <1>2, <2>6, <3>1 DEF ScriptSound, ApplySound
  <2>8. RollbackSound(k)' /\ JournalSound(script'[k].memory)
    BY <1>1, <1>2 DEF ScriptSound, RollbackSound, JournalSound
  <2>. QED  BY <1>1, <1>2, <1>4, <2>3, <2>7, <2>8 DEF ScriptSound, JournalSound
<1>. QED  BY <1>3, <1>4

\* A step keeps the invariant if the process it leaves is sound, if its journal is, and
\* if nothing is written on a record that a journal would no longer answer for.
LEMMA StepKeeps ==
  ASSUME MigrationConsistent, NEW h \in Handlers, NEW s, Moves(h, s),
         item' \in [Records -> Record], journal' \in [Handlers -> Journal],
         edits' \in Nat, runs' \in Nat, edited' \in [Records -> Maybe(Record)],
         \A j \in Handlers : j # script[h].of => journal'[j] = journal[j],
         \A j \in Handlers : JournalSound(journal'[j]),
         s.of \in {None, script[h].of} \/ \A k \in Handlers : script[k].of # s.of,
         ScriptSound(h)',
         \A i \in Records :
           item'[i].spec = "written" =>
             Unlost(s, i) /\ \E j \in Handlers : Standing(j, i),
         EditsStay'
  PROVE  MigrationConsistent'
<1>1. MigrationTypeOK'
  BY DEF Moves, MigrationConsistent, MigrationTypeOK
<1>2. \A k \in Handlers : ScriptSound(k)'
  BY OthersSound
<1>3. \A j, k \in Handlers :
        (script[j].of = script[k].of => j = k \/ script[j].of = None)'
  BY DEF Moves, MigrationConsistent, MigrationTypeOK
<1>4. ASSUME NEW i \in Records, item'[i].spec = "written"
      PROVE  \E j \in Handlers : Standing(j, i)'
  BY <1>4, StandingStays
<1>5. \A j \in Handlers : JournalSound(journal[j])'
  BY DEF JournalSound
<1>. QED  BY <1>1, <1>2, <1>3, <1>4, <1>5 DEF MigrationConsistent

\* The step of a process that changes its place only.
LEMMA TurnKeeps ==
  ASSUME MigrationConsistent, NEW h \in Handlers, NEW s, Moves(h, s), OnlyScript,
         s.of = script[h].of, s.memory = script[h].memory, ScriptSound(h)',
         \A i \in Records : Clears(s, i) => item[i].spec # "written"
  PROVE  MigrationConsistent'
<1>1. \A i \in Records : item'[i].spec = "written" => Unlost(s, i)
  BY DEF OnlyScript, Unlost, Standing
<1>2. EditsStay'
  BY DEF OnlyScript, MigrationConsistent, EditsStay
<1>3. \A j \in Handlers : JournalSound(journal'[j])
  BY DEF OnlyScript, MigrationConsistent
<1>4. MigrationTypeOK /\ \A i \in Records : item[i].spec = "written" =>
        \E j \in Handlers : Standing(j, i)
  BY DEF MigrationConsistent
<1>. QED  BY <1>1, <1>2, <1>3, <1>4, StepKeeps DEF OnlyScript, MigrationTypeOK

\* The end of a process, wherever it is.
LEMMA LeaveKeeps ==
  ASSUME MigrationConsistent, NEW h \in Handlers, Turn(h, NoScript), OnlyScript
  PROVE  MigrationConsistent'
<1>1. NoJournal \in Journal
  BY DEF NoJournal, Journal, Entry
<1>2. Moves(h, NoScript) /\ NoScript.pc = "idle" /\ NoScript.of = None
      /\ NoScript.memory = NoJournal
  BY <1>1 DEF Turn, Moves, NoScript, Script, Maybe
<1>3. script'[h] = NoScript
  BY <1>2 DEF Moves, MigrationConsistent, MigrationTypeOK
<1>4. ScriptSound(h)'
  BY <1>2, <1>3 DEF ScriptSound, ApplySound, RollbackSound, JournalSound, NoJournal
<1>5. \A i \in Records : item'[i].spec = "written" => Unlost(NoScript, i)
  BY <1>2, MigrationAssumption DEF OnlyScript, Unlost, Standing
<1>6. EditsStay'
  BY DEF OnlyScript, MigrationConsistent, EditsStay
<1>7. \A j \in Handlers : JournalSound(journal'[j])
  BY DEF OnlyScript, MigrationConsistent
<1>8. MigrationTypeOK /\ \A i \in Records : item[i].spec = "written" =>
        \E j \in Handlers : Standing(j, i)
  BY DEF MigrationConsistent
<1>. QED  BY <1>2, <1>4, <1>5, <1>6, <1>7, <1>8, StepKeeps DEF OnlyScript, MigrationTypeOK

\* A save, after which the process goes on with s.
LEMMA SaveKeeps ==
  ASSUME MigrationConsistent, NEW h \in Handlers, NEW m \in Journal, NEW s, Moves(h, s),
         script[h].of \in Handlers,
         journal' = [journal EXCEPT ![script[h].of] = m],
         UNCHANGED <<item, edits, runs, edited>>,
         s.of \in {None, script[h].of}, s.memory = m, JournalSound(m), ScriptSound(h)',
         \A i \in Records :
           /\ item[i].spec = "written"
           /\ script[h].memory.entries[i] \in Live
           /\ ~Clears(script[h], i)
           => m.entries[i] \in Live /\ ~Clears(s, i)
  PROVE  MigrationConsistent'
<1>0. MigrationTypeOK
  BY DEF MigrationConsistent
<1>1. \A j \in Handlers :
        journal'[j] = IF j = script[h].of THEN m ELSE journal[j]
  BY <1>0 DEF MigrationTypeOK
<1>2. \A i \in Records : item'[i].spec = "written" => Unlost(s, i)
  BY <1>1, MigrationAssumption DEF Unlost, Standing
<1>3. EditsStay'
  BY DEF MigrationConsistent, EditsStay
<1>4. \A j \in Handlers : JournalSound(journal'[j])
  BY <1>1 DEF MigrationConsistent
<1>5. \A i \in Records : item[i].spec = "written" =>
        \E j \in Handlers : Standing(j, i)
  BY DEF MigrationConsistent
<1>6. journal' \in [Handlers -> Journal]
  BY <1>0 DEF MigrationTypeOK
<1>. QED  BY <1>0, <1>1, <1>2, <1>3, <1>4, <1>5, <1>6, StepKeeps DEF MigrationTypeOK

-----------------------------------------------------------------------------
(* What the steps leave behind *)

\* A process that goes on elsewhere keeps the rest.
LEMMA ToIs ==
  ASSUME MigrationTypeOK, NEW h \in Handlers,
         NEW p \in {"open", "applied", "readback", "verified", "stop", "found", "restore",
                    "reread", "restored", "stopBack", "enter", "update", "close"}
  PROVE  /\ To(h, p) \in Script /\ To(h, p).pc = p /\ To(h, p).at = script[h].at
         /\ To(h, p).memory = script[h].memory /\ To(h, p).of = script[h].of
<1>1. script[h] \in Script
  BY DEF MigrationTypeOK
<1>. QED  BY <1>1 DEF To, Script

LEMMA RememberIs ==
  ASSUME NEW t \in Script, NEW m \in Journal
  PROVE  LET s == [t EXCEPT !.memory = m] IN
         s \in Script /\ s.pc = t.pc /\ s.at = t.at /\ s.memory = m /\ s.of = t.of
  BY DEF Script

LEMMA EnteredIs ==
  ASSUME MigrationTypeOK, NEW h \in Handlers, NEW status \in Entry,
         script[h].at \in Records
  PROVE  /\ Entered(h, status) \in Journal
         /\ Entered(h, status).status = script[h].memory.status
         /\ \A i \in Records :
              Entered(h, status).entries[i] =
                IF i = script[h].at THEN status ELSE script[h].memory.entries[i]
<1>. DEFINE m == script[h].memory
<1>1. m \in Journal
  BY DEF MigrationTypeOK, Script
<1>2. Entered(h, status) =
        [status |-> m.status, entries |-> [m.entries EXCEPT ![script[h].at] = status]]
  BY <1>1 DEF Entered, Journal
<1>3. m.entries \in [Records -> Entry]
  BY <1>1 DEF Journal
<1>. HIDE DEF m
<1>4. [m.entries EXCEPT ![script[h].at] = status] \in [Records -> Entry]
  BY <1>3
<1>5. m = script[h].memory
  BY DEF m
<1>. QED  BY <1>1, <1>2, <1>3, <1>4, <1>5 DEF Journal

\* What a process that runs knows of itself.
LEMMA Running ==
  ASSUME MigrationConsistent, NEW h \in Handlers, script[h].pc # "idle"
  PROVE  /\ script[h] \in Script /\ script[h].of \in Handlers /\ script[h].of # None
         /\ script[h].memory \in Journal
         /\ JournalSound(script[h].memory)
         /\ script[h].pc # "finish" => script[h].at \in Records
         /\ \A k \in Handlers : script[k].of = script[h].of => k = h
<1>1. ScriptSound(h) /\ script[h] \in Script
  BY DEF MigrationConsistent, MigrationTypeOK
<1>2. script[h].of \in Handlers /\ script[h].of # None
  BY <1>1, MigrationAssumption DEF ScriptSound, Script, Maybe
<1>. QED  BY <1>1, <1>2 DEF MigrationConsistent, ScriptSound, Script

\* A process is sound after its step.
LEMMA SoundAfter ==
  ASSUME MigrationTypeOK, NEW h \in Handlers, NEW s, Moves(h, s),
         s.pc = "idle" <=> s.of = None,
         s.pc \notin {"idle", "finish"} => s.at \in Records,
         s.pc \notin {"idle", "preflight", "open"} =>
           s.memory.status # "none" /\ journal'[s.of].status # "none",
         JournalSound(s.memory),
         s.pc \in {"preflight", "open"} =>
           s.of = h /\ s.memory = NoJournal /\ journal'[h].status = "none",
         s.pc \in {"enter", "update", "applied", "readback", "verified", "close", "stop"} =>
           s.memory.status = "in_progress",
         s.pc # "update",
         s.pc \in {"check", "found", "restore", "reread", "restored"} =>
           \A k \in Records : k > s.at => s.memory.entries[k] \in Undone,
         s.pc = "finish" => \A k \in Records : s.memory.entries[k] \in Undone
  PROVE  ScriptSound(h)'
<1>1. script'[h] = s
  BY DEF Moves, MigrationTypeOK
<1>2. ApplySound(h)'
  BY <1>1 DEF ApplySound
<1>3. RollbackSound(h)'
  BY <1>1 DEF RollbackSound
<1>. QED  BY <1>1, <1>2, <1>3 DEF ScriptSound, JournalSound

\* The step of a process to another place of the same work, with nothing to be saved.
LEMMA GoesOn ==
  ASSUME MigrationConsistent, NEW h \in Handlers,
         NEW p \in {"open", "applied", "readback", "verified", "stop", "found", "restore",
                    "reread", "restored", "stopBack"},
         Turn(h, To(h, p)), OnlyScript,
         \/ /\ script[h].pc \in {"update", "readback"}
            /\ p \in {"applied", "verified", "stop"}
         \/ /\ script[h].pc \in {"check", "restore", "reread"}
            /\ p \in {"found", "restore", "reread", "restored", "stopBack"},
         p \in {"found", "restored"} => item[script[h].at] = Original
  PROVE  MigrationConsistent'
<1>. DEFINE s == To(h, p)
<1>1. MigrationTypeOK /\ ScriptSound(h)
  BY DEF MigrationConsistent
<1>2. /\ s \in Script /\ s.pc = p /\ s.at = script[h].at
      /\ s.memory = script[h].memory /\ s.of = script[h].of
  BY <1>1, ToIs
<1>3. Moves(h, s)
  BY <1>2 DEF Turn, Moves
<1>4. script[h].of # None /\ script[h].at \in Records
  BY Running
<1>. HIDE DEF s
<1>5. journal' = journal
  BY DEF OnlyScript
<1>6. ScriptSound(h)'
  BY <1>1, <1>2, <1>3, <1>4, <1>5, SoundAfter DEF ScriptSound, ApplySound, RollbackSound
<1>7. \A i \in Records : Clears(s, i) => item[i].spec # "written"
  BY <1>2 DEF Clears, Original
<1>. QED  BY <1>2, <1>3, <1>6, <1>7, TurnKeeps

\* A conditional write of what a manifest names, over what it names.
LEMMA WriteKeeps ==
  ASSUME MigrationConsistent, NEW h \in Handlers,
         NEW p \in {"applied", "stop", "reread", "stopBack"}, Turn(h, To(h, p)),
         NEW n \in Records, NEW r \in {Original, Written},
         item[n] \in {Original, Written}, item' = [item EXCEPT ![n] = r],
         UNCHANGED <<journal, edits, runs, edited>>,
         \/ /\ script[h].pc = "update"
            /\ p \in {"applied", "stop"}
         \/ /\ script[h].pc = "restore"
            /\ p \in {"reread", "stopBack"},
         r = Written => \E j \in Handlers : Standing(j, n)
  PROVE  MigrationConsistent'
<1>. DEFINE s == To(h, p)
<1>1. MigrationTypeOK /\ ScriptSound(h)
  BY DEF MigrationConsistent
<1>2. /\ s \in Script /\ s.pc = p /\ s.at = script[h].at
      /\ s.memory = script[h].memory /\ s.of = script[h].of
  BY <1>1, ToIs
<1>3. Moves(h, s)
  BY <1>2 DEF Turn, Moves
<1>4. script[h].of # None /\ script[h].at \in Records
  BY Running
<1>. HIDE DEF s
<1>5. ScriptSound(h)'
  BY <1>1, <1>2, <1>3, <1>4, SoundAfter DEF ScriptSound, ApplySound, RollbackSound
<1>6. Original \in Record /\ Written \in Record /\ Original.spec = "original"
  BY DEF Original, Written, Record, Specs
<1>7. item' \in [Records -> Record]
      /\ \A i \in Records : item'[i] = IF i = n THEN r ELSE item[i]
  BY <1>1, <1>6 DEF MigrationTypeOK
<1>8. \A i \in Records :
        item'[i].spec = "written" => Unlost(s, i) /\ \E j \in Handlers : Standing(j, i)
  <2>. SUFFICES ASSUME NEW i \in Records, item'[i].spec = "written"
                PROVE  Unlost(s, i) /\ \E j \in Handlers : Standing(j, i)
    OBVIOUS
  <2>1. \E j \in Handlers : Standing(j, i)
    BY <1>6, <1>7 DEF MigrationConsistent
  <2>2. Unlost(s, i)
    BY <1>2 DEF Unlost, Standing, Clears
  <2>. QED  BY <2>1, <2>2
<1>9. EditsStay'
  BY <1>7 DEF MigrationConsistent, EditsStay
<1>10. \A j \in Handlers : JournalSound(journal'[j])
  BY DEF MigrationConsistent
<1>. HIDE DEF MigrationConsistent
<1>. QED
  BY <1>1, <1>2, <1>3, <1>5, <1>7, <1>8, <1>9, <1>10, StepKeeps DEF MigrationTypeOK

-----------------------------------------------------------------------------
(* The steps of an apply *)

LEMMA BeginApplyStep ==
  ASSUME MigrationConsistent, NEW h \in Handlers, BeginApply(h)
  PROVE  MigrationConsistent'
<1>. DEFINE s == [NoScript EXCEPT !.pc = "preflight", !.at = 1, !.of = h]
<1>1. MigrationTypeOK /\ ScriptSound(h) /\ script[h].pc = "idle" /\ script[h].of = None
  BY DEF MigrationConsistent, BeginApply, ScriptAt, ScriptSound
<1>2. NoJournal \in Journal /\ NoJournal.status = "none"
      /\ \A i \in Records : NoJournal.entries[i] = "none"
  BY DEF NoJournal, Journal, Entry
<1>3. s \in Script /\ s.pc = "preflight" /\ s.at = 1 /\ s.of = h /\ s.memory = NoJournal
  BY <1>2 DEF NoScript, Script, Maybe
<1>4. Moves(h, s)
  BY <1>3 DEF BeginApply, Turn, Moves
<1>5. 1 \in Records
  BY MigrationAssumption DEF Records
<1>6. /\ journal[h].status = "none" /\ runs + 1 \in Nat
      /\ UNCHANGED <<item, journal, edits, edited>> /\ runs' = runs + 1
  BY <1>1 DEF BeginApply, MigrationTypeOK
<1>. HIDE DEF s
<1>7. ScriptSound(h)'
  BY <1>1, <1>2, <1>3, <1>4, <1>5, <1>6, MigrationAssumption, SoundAfter DEF JournalSound
<1>8. \A k \in Handlers : script[k].of # h
  <2>. SUFFICES ASSUME NEW k \in Handlers, script[k].of = h PROVE FALSE
    OBVIOUS
  <2>1. ScriptSound(k)
    BY DEF MigrationConsistent
  <2>. QED  BY <1>1, <1>6, <2>1, MigrationAssumption DEF ScriptSound, ApplySound
<1>9. \A i \in Records : Unlost(s, i)
  <2>1. \A i \in Records : ~Standing(h, i)
    BY <1>6 DEF MigrationConsistent, JournalSound, Standing, Live
  <2>. QED  BY <1>3, <1>6, <2>1 DEF Unlost, Standing
<1>10. EditsStay' /\ \A j \in Handlers : JournalSound(journal'[j])
  BY <1>6 DEF MigrationConsistent, EditsStay
<1>11. \A i \in Records : item'[i].spec = "written" => \E j \in Handlers : Standing(j, i)
  BY <1>6 DEF MigrationConsistent
<1>. QED
  BY <1>1, <1>3, <1>4, <1>6, <1>7, <1>8, <1>9, <1>10, <1>11, StepKeeps DEF MigrationTypeOK

LEMMA PreflightStep ==
  ASSUME MigrationConsistent, NEW h \in Handlers, Preflight(h)
  PROVE  MigrationConsistent'
<1>1. /\ MigrationTypeOK /\ ScriptSound(h) /\ script[h].pc = "preflight" /\ OnlyScript
      /\ script[h] \in Script /\ script[h].of # None /\ script[h].at \in Records
  BY Running DEF MigrationConsistent, Preflight, ScriptAt
<1>2. \/ Turn(h, NoScript)
      \/ script[h].at < Last /\ Turn(h, [script[h] EXCEPT !.at = script[h].at + 1])
      \/ Turn(h, [script[h] EXCEPT !.pc = "open", !.at = 1])
  BY DEF Preflight
<1>3. CASE Turn(h, NoScript)
  BY <1>1, <1>3, LeaveKeeps
<1>4. ASSUME NEW s \in Script, script' = [script EXCEPT ![h] = s],
             s.pc \in {"preflight", "open"}, s.at \in Records,
             s.memory = script[h].memory, s.of = script[h].of
      PROVE  MigrationConsistent'
  <2>1. Moves(h, s) /\ journal' = journal
    BY <1>1, <1>4 DEF Moves, OnlyScript
  <2>2. ScriptSound(h)'
    BY <1>1, <1>4, <2>1, SoundAfter DEF ScriptSound, ApplySound
  <2>. QED  BY <1>1, <1>4, <2>1, <2>2, TurnKeeps DEF Clears
<1>5. CASE script[h].at < Last /\ Turn(h, [script[h] EXCEPT !.at = script[h].at + 1])
  <2>. DEFINE n == script[h].at + 1
              s == [script[h] EXCEPT !.at = n]
  <2>1. n \in Records /\ n \in Nat
    BY <1>1, <1>5, MigrationAssumption DEF Records
  <2>. HIDE DEF n
  <2>2. /\ s \in Script /\ s.pc = "preflight" /\ s.at = n
        /\ s.memory = script[h].memory /\ s.of = script[h].of
    BY <1>1, <2>1 DEF Script
  <2>3. script' = [script EXCEPT ![h] = s]
    BY <1>5 DEF Turn, n
  <2>. HIDE DEF s
  <2>. QED  BY <1>4, <2>1, <2>2, <2>3
<1>6. CASE Turn(h, [script[h] EXCEPT !.pc = "open", !.at = 1])
  <2>. DEFINE s == [script[h] EXCEPT !.pc = "open", !.at = 1]
  <2>1. 1 \in Records
    BY MigrationAssumption DEF Records
  <2>2. /\ s \in Script /\ s.pc = "open" /\ s.at = 1
        /\ s.memory = script[h].memory /\ s.of = script[h].of
    BY <1>1 DEF Script
  <2>3. script' = [script EXCEPT ![h] = s]
    BY <1>6 DEF Turn
  <2>. HIDE DEF s
  <2>. QED  BY <1>4, <2>1, <2>2, <2>3
<1>. QED  BY <1>2, <1>3, <1>5, <1>6

\* A save, after which the process goes on from t: the cases of SaveThen.
LEMMA SaveThenKeeps ==
  ASSUME MigrationConsistent, NEW h \in Handlers, NEW m \in Journal, NEW t \in Script,
         script[h].pc # "idle", SaveThen(h, m, t),
         t.of \in {None, script[h].of}, JournalSound(m), m.status # "none",
         t.pc = "idle" <=> t.of = None,
         t.pc \notin {"preflight", "open"},
         t.pc \notin {"idle", "finish"} => t.at \in Records,
         t.pc \in {"enter", "update", "applied", "readback", "verified", "close", "stop"} =>
           m.status = "in_progress",
         t.pc = "update" => m.entries[t.at] \in Live,
         t.pc \in {"check", "found", "restore", "reread", "restored"} =>
           \A k \in Records : k > t.at => m.entries[k] \in Undone,
         t.pc = "finish" => \A k \in Records : m.entries[k] \in Undone,
         t.pc \notin {"found", "restored"},
         \A i \in Records :
           /\ item[i].spec = "written"
           /\ script[h].memory.entries[i] \in Live
           /\ ~Clears(script[h], i)
           => m.entries[i] \in Live
  PROVE  MigrationConsistent'
<1>. DEFINE s == [t EXCEPT !.memory = m]
<1>1. s \in Script /\ s.pc = t.pc /\ s.at = t.at /\ s.memory = m /\ s.of = t.of
  BY RememberIs
<1>2. /\ Moves(h, s) /\ journal' = [journal EXCEPT ![script[h].of] = m]
      /\ UNCHANGED <<item, edits, runs, edited>>
  BY <1>1 DEF SaveThen, Turn, Moves
<1>. HIDE DEF s
<1>3. /\ MigrationTypeOK /\ script[h].of \in Handlers /\ script[h].of # None
      /\ \A k \in Handlers : script[k].of = script[h].of => k = h
  BY Running DEF MigrationConsistent
<1>4. journal'[script[h].of] = m
  BY <1>2, <1>3 DEF MigrationTypeOK
<1>5. script' = [script EXCEPT ![h] = s] /\ script' \in [Handlers -> Script]
      /\ script'[h] = s /\ \A k \in Handlers : k # h => script'[k] = script[k]
  BY <1>2, <1>3 DEF Moves, MigrationTypeOK
<1>6. CASE t.pc # "update"
  <2>1. ScriptSound(h)'
    BY <1>1, <1>2, <1>3, <1>4, <1>6, SoundAfter
  <2>. QED  BY <1>1, <1>2, <1>3, <2>1, SaveKeeps DEF Clears
<1>7. CASE t.pc = "update"
  <2>1. s.of = script[h].of /\ s.at \in Records /\ m.entries[s.at] \in Live
    BY <1>1, <1>7
  <2>2. Standing(s.of, s.at)'
    BY <1>1, <1>3, <1>4, <1>5, <1>7, <2>1 DEF Standing, Clears
  <2>3. ApplySound(h)'
    BY <1>1, <1>5, <1>7, <2>2 DEF ApplySound
  <2>4. RollbackSound(h)'
    BY <1>1, <1>5, <1>7 DEF RollbackSound
  <2>5. ScriptSound(h)'
    BY <1>1, <1>3, <1>4, <1>5, <1>7, <2>1, <2>3, <2>4 DEF ScriptSound, JournalSound
  <2>. QED  BY <1>1, <1>2, <1>3, <1>7, <2>5, SaveKeeps DEF Clears
<1>. QED  BY <1>6, <1>7

LEMMA OpenJournalStep ==
  ASSUME MigrationConsistent, NEW h \in Handlers, OpenJournal(h)
  PROVE  MigrationConsistent'
<1>. DEFINE m == [NoJournal EXCEPT !.status = "in_progress"]
            t == To(h, "enter")
<1>1. MigrationTypeOK /\ ScriptSound(h) /\ script[h].pc = "open" /\ SaveThen(h, m, t)
  BY DEF MigrationConsistent, OpenJournal, ScriptAt
<1>2. m \in Journal /\ m.status = "in_progress"
      /\ \A i \in Records : m.entries[i] = "none"
  BY DEF NoJournal, Journal, Entry
<1>3. t \in Script /\ t.pc = "enter" /\ t.at = script[h].at /\ t.of = script[h].of
  BY <1>1, ToIs
<1>4. script[h].at \in Records /\ script[h].of # None
  BY <1>1, Running
<1>5. \A i \in Records : script[h].memory.entries[i] \notin Live
  BY <1>1 DEF ScriptSound, ApplySound, NoJournal, Live
<1>. HIDE DEF m, t
<1>. QED  BY <1>1, <1>2, <1>3, <1>4, <1>5, SaveThenKeeps DEF JournalSound

\* Saves of an entry on the way forward.
LEMMA EnteredKeeps ==
  ASSUME MigrationConsistent, NEW h \in Handlers, NEW status \in Live, NEW t \in Script,
         script[h].pc \in {"enter", "applied", "verified"},
         SaveThen(h, Entered(h, status), t), t.of = script[h].of,
         t.pc \in {"enter", "update", "readback", "close"}, t.at \in Records,
         t.pc = "update" => t.at = script[h].at
  PROVE  MigrationConsistent'
<1>. DEFINE m == Entered(h, status)
<1>1. MigrationTypeOK /\ ScriptSound(h)
  BY DEF MigrationConsistent
<1>2. script[h].at \in Records /\ script[h].of # None
  BY Running
<1>3. /\ m \in Journal /\ m.status = script[h].memory.status
      /\ \A i \in Records :
           m.entries[i] = IF i = script[h].at THEN status ELSE script[h].memory.entries[i]
  BY <1>1, <1>2, EnteredIs DEF Live, Entry
<1>4. m.status = "in_progress"
  BY <1>1, <1>3 DEF ScriptSound, ApplySound
<1>. HIDE DEF m
<1>5. JournalSound(m)
  BY <1>4 DEF JournalSound
<1>6. SaveThen(h, m, t)
  BY DEF m
<1>. QED  BY <1>1, <1>2, <1>3, <1>4, <1>5, <1>6, SaveThenKeeps

\* The end of a run is saved: the status is another, the entries are the same.
LEMMA ClosedKeeps ==
  ASSUME MigrationConsistent, NEW h \in Handlers,
         NEW status \in {"verified", "stopped", "rolled_back", "rollback_stopped"},
         script[h].pc \in {"close", "stop", "stopBack", "finish"},
         SaveThen(h, [script[h].memory EXCEPT !.status = status], NoScript),
         status = "rolled_back" => script[h].pc = "finish"
  PROVE  MigrationConsistent'
<1>. DEFINE m == [script[h].memory EXCEPT !.status = status]
<1>1. MigrationTypeOK /\ ScriptSound(h)
  BY DEF MigrationConsistent
<1>2. script[h].memory \in Journal
  BY Running
<1>3. m \in Journal /\ m.status = status /\ m.entries = script[h].memory.entries
  BY <1>2 DEF Journal
<1>4. NoScript \in Script /\ NoScript.pc = "idle" /\ NoScript.of = None
  BY DEF NoScript, NoJournal, Script, Journal, Entry, Maybe
<1>. HIDE DEF m
<1>5. JournalSound(m)
  BY <1>1, <1>3 DEF JournalSound, ScriptSound, RollbackSound
<1>6. SaveThen(h, m, NoScript)
  BY DEF m
<1>. QED  BY <1>1, <1>3, <1>4, <1>5, <1>6, SaveThenKeeps

LEMMA ApplySaveSteps ==
  ASSUME MigrationConsistent, NEW h \in Handlers,
         \/ EnterPending(h) \/ SaveApplied(h) \/ SaveVerified(h) \/ CloseJournal(h)
         \/ StopJournal(h)
  PROVE  MigrationConsistent'
<1>1. MigrationTypeOK
  BY DEF MigrationConsistent
<1>2. ASSUME script[h].pc # "idle", script[h].pc # "finish"
      PROVE  script[h] \in Script /\ script[h].at \in Records
  BY <1>2, Running
<1>3. CASE EnterPending(h)
  <2>1. script[h].pc = "enter" /\ SaveThen(h, Entered(h, "pending"), To(h, "update"))
    BY <1>3 DEF EnterPending, ScriptAt
  <2>2. /\ To(h, "update") \in Script /\ To(h, "update").pc = "update"
        /\ To(h, "update").at = script[h].at /\ To(h, "update").of = script[h].of
    BY <1>1, ToIs
  <2>. QED  BY <1>2, <2>1, <2>2, EnteredKeeps DEF Live
<1>4. CASE SaveApplied(h)
  <2>1. script[h].pc = "applied" /\ SaveThen(h, Entered(h, "applied"), To(h, "readback"))
    BY <1>4 DEF SaveApplied, ScriptAt
  <2>2. /\ To(h, "readback") \in Script /\ To(h, "readback").pc = "readback"
        /\ To(h, "readback").at = script[h].at /\ To(h, "readback").of = script[h].of
    BY <1>1, ToIs
  <2>. QED  BY <1>2, <2>1, <2>2, EnteredKeeps DEF Live
<1>5. CASE SaveVerified(h) /\ script[h].at < Last
  <2>. DEFINE n == script[h].at + 1
              t == [To(h, "enter") EXCEPT !.at = n]
  <2>1. script[h].pc = "verified" /\ SaveThen(h, Entered(h, "verified"), t)
    BY <1>5 DEF SaveVerified, ScriptAt
  <2>2. n \in Records /\ n \in Nat
    BY <1>2, <1>5, <2>1, MigrationAssumption DEF Records
  <2>. HIDE DEF n
  <2>3. To(h, "enter") \in Script /\ To(h, "enter").pc = "enter"
        /\ To(h, "enter").of = script[h].of
    BY <1>1, ToIs
  <2>4. t \in Script /\ t.pc = "enter" /\ t.at = n /\ t.of = script[h].of
    BY <2>2, <2>3 DEF Script
  <2>. HIDE DEF t
  <2>. QED  BY <2>1, <2>2, <2>4, EnteredKeeps DEF Live
<1>6. CASE SaveVerified(h) /\ ~(script[h].at < Last)
  <2>1. script[h].pc = "verified" /\ SaveThen(h, Entered(h, "verified"), To(h, "close"))
    BY <1>6 DEF SaveVerified, ScriptAt
  <2>2. /\ To(h, "close") \in Script /\ To(h, "close").pc = "close"
        /\ To(h, "close").at = script[h].at /\ To(h, "close").of = script[h].of
    BY <1>1, ToIs
  <2>. QED  BY <1>2, <2>1, <2>2, EnteredKeeps DEF Live
<1>7. CASE CloseJournal(h)
  BY <1>7, ClosedKeeps DEF CloseJournal, ScriptAt
<1>8. CASE StopJournal(h)
  BY <1>8, ClosedKeeps DEF StopJournal, ScriptAt
<1>. QED  BY <1>3, <1>4, <1>5, <1>6, <1>7, <1>8

\* The conditional writes, of an apply and of a rollback.
LEMMA UpdateSteps ==
  ASSUME MigrationConsistent, NEW h \in Handlers,
         ApplyRecord(h) \/ RestoreRecord(h)
  PROVE  MigrationConsistent'
<1>1. MigrationTypeOK /\ ScriptSound(h) /\ script[h].pc \in {"update", "restore"}
  BY DEF MigrationConsistent, ApplyRecord, RestoreRecord, ScriptAt
<1>2. PICK n \in Records : n = script[h].at
  BY <1>1, Running
<1>3. CASE ApplyRecord(h)
  <2>1. script[h].pc = "update" /\ UNCHANGED <<journal, edits, runs, edited>>
    BY <1>3 DEF ApplyRecord, Update, ScriptAt
  <2>2. \E j \in Handlers : Standing(j, n)
    BY <1>1, <1>2, <2>1, Running DEF ScriptSound, ApplySound
  <2>3. \/ /\ item[n] = Original /\ item' = [item EXCEPT ![n] = Written]
           /\ Turn(h, To(h, "applied")) \/ Turn(h, To(h, "stop"))
        \/ Turn(h, To(h, "stop")) /\ UNCHANGED item
    BY <1>2, <1>3 DEF ApplyRecord, Update
  <2>. QED  BY <1>2, <2>1, <2>2, <2>3, WriteKeeps, GoesOn DEF OnlyScript
<1>4. CASE RestoreRecord(h)
  <2>1. script[h].pc = "restore" /\ UNCHANGED <<journal, edits, runs, edited>>
    BY <1>4 DEF RestoreRecord, Update, ScriptAt
  <2>2. \/ /\ item[n] = Written /\ item' = [item EXCEPT ![n] = Original]
           /\ Turn(h, To(h, "reread")) \/ Turn(h, To(h, "stopBack"))
        \/ Turn(h, To(h, "stopBack")) /\ UNCHANGED item
    BY <1>2, <1>4 DEF RestoreRecord, Update
  <2>3. Original # Written
    BY DEF Original, Written
  <2>. QED  BY <1>2, <2>1, <2>2, <2>3, WriteKeeps, GoesOn DEF OnlyScript
<1>. QED  BY <1>3, <1>4

\* The reads.
LEMMA ReadSteps ==
  ASSUME MigrationConsistent, NEW h \in Handlers,
         ReadBack(h) \/ CheckRecord(h) \/ RereadRecord(h)
  PROVE  MigrationConsistent'
<1>1. CASE ReadBack(h)
  <2>1. /\ script[h].pc = "readback" /\ OnlyScript
        /\ Turn(h, To(h, "verified")) \/ Turn(h, To(h, "stop"))
    BY <1>1 DEF ReadBack, ScriptAt
  <2>. QED  BY <2>1, GoesOn
<1>2. CASE CheckRecord(h)
  <2>1. /\ script[h].pc = "check" /\ OnlyScript
        /\ \/ item[script[h].at] = Original /\ Turn(h, To(h, "found"))
           \/ Turn(h, To(h, "restore"))
           \/ Turn(h, NoScript)
    BY <1>2 DEF CheckRecord, ScriptAt
  <2>. QED  BY <2>1, GoesOn, LeaveKeeps
<1>3. CASE RereadRecord(h)
  <2>1. /\ script[h].pc = "reread" /\ OnlyScript
        /\ \/ item[script[h].at] = Original /\ Turn(h, To(h, "restored"))
           \/ Turn(h, To(h, "stopBack"))
    BY <1>3 DEF RereadRecord, ScriptAt
  <2>. QED  BY <2>1, GoesOn
<1>. QED  BY <1>1, <1>2, <1>3

-----------------------------------------------------------------------------
(* The steps of a rollback *)

LEMMA BeginRollbackStep ==
  ASSUME MigrationConsistent, NEW h \in Handlers, NEW j \in Handlers, BeginRollback(h, j)
  PROVE  MigrationConsistent'
<1>. DEFINE t == [NoScript EXCEPT !.memory = journal[j], !.of = j]
            s == NextBack(t, journal[j], Last + 1)
<1>1. /\ MigrationTypeOK /\ ScriptSound(h) /\ script[h].of = None
      /\ journal[j] \in Journal /\ JournalSound(journal[j])
  BY DEF MigrationConsistent, MigrationTypeOK, BeginRollback, ScriptAt, ScriptSound
<1>2. /\ journal[j].status # "none" /\ \A k \in Handlers : script[k].of # j
      /\ runs' = runs + 1 /\ runs + 1 \in Nat /\ Turn(h, s)
      /\ UNCHANGED <<item, journal, edits, edited>>
  BY <1>1 DEF BeginRollback, MigrationTypeOK
<1>3. t \in Script /\ t.memory = journal[j] /\ t.of = j
  BY <1>1 DEF NoScript, NoJournal, Script, Maybe
<1>4. Last + 1 \in Nat /\ \A k \in Records : k < Last + 1
  BY MigrationAssumption DEF Records
<1>. HIDE DEF t
<1>5. /\ s \in Script /\ s.memory = journal[j] /\ s.of = j
      /\ \/ s.pc = "finish" /\ \A k \in Records : journal[j].entries[k] = "none"
         \/ /\ s.pc = "check" /\ s.at \in Records
            /\ \A k \in Records : k > s.at => journal[j].entries[k] = "none"
  BY <1>1, <1>3, <1>4, NextBackGoes
<1>6. Moves(h, s)
  BY <1>2, <1>5 DEF Turn, Moves
<1>. HIDE DEF s
<1>7. ScriptSound(h)'
  BY <1>1, <1>2, <1>5, <1>6, MigrationAssumption, SoundAfter DEF Undone
<1>8. \A i \in Records : Unlost(s, i)
  BY <1>2, <1>5 DEF Unlost, Standing, Clears
<1>9. EditsStay' /\ \A k \in Handlers : JournalSound(journal'[k])
  BY <1>2 DEF MigrationConsistent, EditsStay
<1>10. \A i \in Records : item'[i].spec = "written" => \E k \in Handlers : Standing(k, i)
  BY <1>2 DEF MigrationConsistent
<1>. QED
  BY <1>1, <1>2, <1>5, <1>6, <1>7, <1>8, <1>9, <1>10, StepKeeps DEF MigrationTypeOK

LEMMA SaveRestoredStep ==
  ASSUME MigrationConsistent, NEW h \in Handlers, SaveRestored(h)
  PROVE  MigrationConsistent'
<1>. DEFINE m == Entered(h, "rolled_back")
            t == NextBack(script[h], script[h].memory, script[h].at)
<1>1. /\ MigrationTypeOK /\ ScriptSound(h) /\ script[h].pc \in {"found", "restored"}
      /\ SaveThen(h, m, t)
  BY DEF MigrationConsistent, SaveRestored
<1>2. /\ script[h] \in Script /\ script[h].memory \in Journal /\ script[h].of # None
      /\ script[h].at \in Records /\ script[h].at \in Nat /\ JournalSound(script[h].memory)
  BY <1>1, Running DEF Records
<1>3. /\ m \in Journal /\ m.status = script[h].memory.status
      /\ \A i \in Records :
           m.entries[i] =
             IF i = script[h].at THEN "rolled_back" ELSE script[h].memory.entries[i]
  BY <1>1, <1>2, EnteredIs DEF Entry
<1>4. /\ t \in Script /\ t.of = script[h].of
      /\ \/ /\ t.pc = "finish"
            /\ \A k \in Records : k < script[h].at => script[h].memory.entries[k] = "none"
         \/ /\ t.pc = "check" /\ t.at \in Records
            /\ \A k \in Records :
                 k > t.at /\ k < script[h].at => script[h].memory.entries[k] = "none"
  BY <1>2, NextBackGoes
<1>5. \A k \in Records : k > script[h].at => script[h].memory.entries[k] \in Undone
  BY <1>1 DEF ScriptSound, RollbackSound
<1>6. script[h].memory.status # "none"
  BY <1>1 DEF ScriptSound
<1>. HIDE DEF m, t
<1>7. JournalSound(m)
  BY <1>2, <1>3, <1>6 DEF JournalSound, Undone
<1>8. \A k \in Records : k < script[h].at \/ k = script[h].at \/ k > script[h].at
  BY <1>2 DEF Records
<1>9. t.pc = "check" => \A k \in Records : k > t.at => m.entries[k] \in Undone
  BY <1>3, <1>4, <1>5, <1>8 DEF Undone
<1>10. t.pc = "finish" => \A k \in Records : m.entries[k] \in Undone
  BY <1>3, <1>4, <1>5, <1>8 DEF Undone
<1>11. \A i \in Records :
         script[h].memory.entries[i] \in Live /\ ~Clears(script[h], i)
         => m.entries[i] \in Live
  BY <1>1, <1>3 DEF Clears
<1>. QED
  BY <1>1, <1>2, <1>3, <1>4, <1>6, <1>7, <1>9, <1>10, <1>11, SaveThenKeeps

LEMMA EndRollbackSteps ==
  ASSUME MigrationConsistent, NEW h \in Handlers, FinishRollback(h) \/ StopRollback(h)
  PROVE  MigrationConsistent'
  BY ClosedKeeps DEF FinishRollback, StopRollback, ScriptAt

-----------------------------------------------------------------------------
(* Failures and edits *)

LEMMA FailSaveStep ==
  ASSUME MigrationConsistent, NEW h \in Handlers, FailSave(h)
  PROVE  MigrationConsistent'
<1>1. PICK status \in {"applied", "verified", "rolled_back"},
           p \in {"stop", "stopBack"} :
        /\ \/ script[h].pc = status /\ status # "rolled_back" /\ p = "stop"
           \/ script[h].pc = "restored" /\ status = "rolled_back" /\ p = "stopBack"
        /\ Turn(h, [To(h, p) EXCEPT !.memory = Entered(h, status)])
  BY DEF FailSave, ScriptAt
<1>. DEFINE m == Entered(h, status)
            s == [To(h, p) EXCEPT !.memory = m]
<1>2. MigrationTypeOK /\ ScriptSound(h) /\ OnlyScript
  BY DEF MigrationConsistent, FailSave
<1>3. /\ script[h].of # None /\ script[h].at \in Records /\ script[h].of \in Handlers
      /\ JournalSound(script[h].memory)
  BY <1>1, Running
<1>4. /\ m \in Journal /\ m.status = script[h].memory.status
      /\ \A i \in Records :
           m.entries[i] = IF i = script[h].at THEN status ELSE script[h].memory.entries[i]
  BY <1>2, <1>3, EnteredIs DEF Entry
<1>5. /\ To(h, p) \in Script /\ To(h, p).pc = p /\ To(h, p).at = script[h].at
      /\ To(h, p).of = script[h].of
  BY <1>2, ToIs
<1>. HIDE DEF m
<1>6. /\ s \in Script /\ s.pc = p /\ s.at = script[h].at /\ s.memory = m
      /\ s.of = script[h].of
  BY <1>4, <1>5, RememberIs
<1>7. Moves(h, s)
  BY <1>1, <1>6 DEF Turn, Moves, m
<1>. HIDE DEF s
<1>8. m.status # "none" /\ journal'[s.of].status # "none"
  BY <1>1, <1>2, <1>4, <1>6 DEF ScriptSound, OnlyScript
<1>9. p = "stop" => m.status = "in_progress"
  BY <1>1, <1>2, <1>4 DEF ScriptSound, ApplySound
<1>10. JournalSound(m)
  BY <1>1, <1>3, <1>4, <1>8, <1>9 DEF JournalSound, Undone
<1>11. ScriptSound(h)'
  BY <1>1, <1>2, <1>3, <1>6, <1>7, <1>8, <1>9, <1>10, SoundAfter
<1>12. \A i \in Records : Unlost(s, i)
  BY <1>1, <1>2, <1>4, <1>6 DEF Unlost, Standing, Clears, OnlyScript, Live
<1>13. EditsStay' /\ \A j \in Handlers : JournalSound(journal'[j])
  BY <1>2 DEF MigrationConsistent, EditsStay, OnlyScript
<1>14. \A i \in Records : item'[i].spec = "written" => \E j \in Handlers : Standing(j, i)
  BY <1>2 DEF MigrationConsistent, OnlyScript
<1>. QED
  BY <1>2, <1>6, <1>7, <1>11, <1>12, <1>13, <1>14, StepKeeps DEF MigrationTypeOK, OnlyScript

LEMMA EditRecordStep ==
  ASSUME MigrationConsistent, NEW n \in Records, NEW r \in Record, EditRecord(n, r)
  PROVE  MigrationConsistent'
<1>1. MigrationTypeOK
  BY DEF MigrationConsistent
<1>2. /\ edits' = edits + 1
      /\ r.spec = "written" => item[n].spec = "written"
      /\ \A i \in Records : /\ item'[i] = IF i = n THEN r ELSE item[i]
                            /\ edited'[i] = IF i = n THEN r ELSE edited[i]
      /\ item' \in [Records -> Record] /\ edited' \in [Records -> Maybe(Record)]
      /\ UNCHANGED <<journal, script, runs>>
  BY <1>1 DEF EditRecord, MigrationTypeOK, Maybe
<1>3. MigrationTypeOK'
  BY <1>1, <1>2 DEF MigrationTypeOK
<1>4. \A i \in Records, j \in Handlers : Standing(j, i) => Standing(j, i)'
  BY <1>2 DEF Standing, Clears
<1>5. \A i \in Records : item'[i].spec = "written" => \E j \in Handlers : Standing(j, i)'
  BY <1>2, <1>4 DEF MigrationConsistent
<1>6. EditsStay'
  BY <1>2 DEF MigrationConsistent, EditsStay
<1>7. ASSUME NEW h \in Handlers PROVE ScriptSound(h)'
  <2>1. ScriptSound(h)
    BY DEF MigrationConsistent
  <2>2. ApplySound(h)'
    BY <1>2, <2>1 DEF ScriptSound, ApplySound, Standing, Clears
  <2>. QED  BY <1>2, <2>1, <2>2 DEF ScriptSound, RollbackSound, JournalSound
<1>8. \A j \in Handlers : JournalSound(journal[j])'
  BY <1>2 DEF MigrationConsistent, JournalSound
<1>. QED  BY <1>2, <1>3, <1>5, <1>6, <1>7, <1>8 DEF MigrationConsistent

LEMMA MigrationStutters ==
  ASSUME MigrationConsistent, UNCHANGED migrationVars
  PROVE  MigrationConsistent'
  BY DEF MigrationConsistent, migrationVars, MigrationTypeOK, JournalSound, ScriptSound,
         ApplySound, RollbackSound, Standing, Clears, EditsStay

-----------------------------------------------------------------------------
(* Theorems *)

LEMMA MigrationStarts ==
  ASSUME MigrationInit
  PROVE  MigrationConsistent
<1>1. NoJournal \in Journal /\ NoJournal.status = "none"
      /\ \A i \in Records : NoJournal.entries[i] = "none"
  BY DEF NoJournal, Journal, Entry
<1>2. NoScript \in Script /\ NoScript.pc = "idle" /\ NoScript.of = None
      /\ NoScript.memory = NoJournal
  BY <1>1 DEF NoScript, Script, Maybe
<1>3. \A i \in Records : item[i] \in Record /\ item[i].spec = "original"
  <2>1. Original \in Record /\ Original.spec = "original"
    BY DEF Original, Record, Specs
  <2>. DEFINE q == [Original EXCEPT !.source = FALSE]
  <2>2. q \in Record /\ q.spec = "original"
    BY <2>1 DEF Record
  <2>. HIDE DEF q
  <2>3. item \in [Records -> {Original, q}]
    BY DEF MigrationInit, q
  <2>. QED  BY <2>1, <2>2, <2>3
<1>4. item \in [Records -> Record]
  BY <1>3 DEF MigrationInit
<1>5. MigrationTypeOK
  BY <1>1, <1>2, <1>4 DEF MigrationInit, MigrationTypeOK, Maybe
<1>6. \A h \in Handlers : ScriptSound(h)
  BY <1>1, <1>2 DEF MigrationInit, ScriptSound, ApplySound, RollbackSound, JournalSound
<1>7. \A j \in Handlers : JournalSound(journal[j])
  BY <1>1 DEF MigrationInit, JournalSound
<1>. QED
  BY <1>2, <1>3, <1>5, <1>6, <1>7 DEF MigrationInit, MigrationConsistent, EditsStay

LEMMA MigrationSteps ==
  ASSUME MigrationConsistent, [MigrationNext]_migrationVars
  PROVE  MigrationConsistent'
<1>1. ASSUME NEW h \in Handlers, Run(h) PROVE MigrationConsistent'
  <2>1. CASE BeginApply(h)
    BY <2>1, BeginApplyStep
  <2>2. CASE Preflight(h)
    BY <2>2, PreflightStep
  <2>3. CASE OpenJournal(h)
    BY <2>3, OpenJournalStep
  <2>4. CASE EnterPending(h) \/ SaveApplied(h) \/ SaveVerified(h) \/ CloseJournal(h)
             \/ StopJournal(h)
    BY <2>4, ApplySaveSteps
  <2>5. CASE ApplyRecord(h) \/ RestoreRecord(h)
    BY <2>5, UpdateSteps
  <2>6. CASE ReadBack(h) \/ CheckRecord(h) \/ RereadRecord(h)
    BY <2>6, ReadSteps
  <2>7. CASE \E j \in Handlers : BeginRollback(h, j)
    BY <2>7, BeginRollbackStep
  <2>8. CASE SaveRestored(h)
    BY <2>8, SaveRestoredStep
  <2>9. CASE FinishRollback(h) \/ StopRollback(h)
    BY <2>9, EndRollbackSteps
  <2>10. CASE FailSave(h)
    BY <2>10, FailSaveStep
  <2>11. CASE Kill(h)
    BY <2>11, LeaveKeeps DEF Kill, Leave
  <2>. QED
    BY <1>1, <2>1, <2>2, <2>3, <2>4, <2>5, <2>6, <2>7, <2>8, <2>9, <2>10, <2>11 DEF Run
<1>2. CASE \E i \in Records, r \in Record : EditRecord(i, r)
  BY <1>2, EditRecordStep
<1>3. CASE MigrationRest \/ UNCHANGED migrationVars
  BY <1>3, MigrationStutters DEF MigrationRest
<1>. QED  BY <1>1, <1>2, <1>3 DEF MigrationNext

\* The invariant: one process per journal file, its copy never behind the file in what it
\* answers for, and a rollback that has undone all that is above the record it is at.
THEOREM MigrationConsistentCorrect == MigrationSpec => []MigrationConsistent
  BY MigrationStarts, MigrationSteps, PTL DEF MigrationSpec

\* Every record that has the migration's specification is in some journal, pending, applied
\* or verified, whatever fails and whenever the script is killed.
THEOREM WrittenIsJournaledCorrect == MigrationSpec => []WrittenIsJournaled
<1>1. MigrationConsistent => WrittenIsJournaled
  BY DEF MigrationConsistent, WrittenIsJournaled, Standing, Live
<1>. QED  BY <1>1, MigrationConsistentCorrect, PTL

\* Neither an apply nor a rollback writes over what an editor left of a record.
THEOREM EditsStayCorrect == MigrationSpec => []EditsStay
<1>1. MigrationConsistent => EditsStay
  BY DEF MigrationConsistent
<1>. QED  BY <1>1, MigrationConsistentCorrect, PTL

\* A journal that says "rolled_back" has no entry left to undo, and answers for nothing
\* that is still written.
THEOREM RollbackCompleteCorrect == MigrationSpec => []RollbackComplete
<1>1. MigrationConsistent => RollbackComplete
  <2>. SUFFICES ASSUME MigrationConsistent, NEW j \in Handlers,
                       journal[j].status = "rolled_back", NEW i \in Records
                PROVE  /\ journal[j].entries[i] \in Undone
                       /\ item[i].spec = "written" =>
                            \E k \in Handlers \ {j} : journal[k].entries[i] \in Live
    BY DEF RollbackComplete, Undone, Live
  <2>1. journal[j].entries[i] \in Undone
    BY DEF MigrationConsistent, JournalSound
  <2>2. item[i].spec = "written" => \E k \in Handlers : journal[k].entries[i] \in Live
    BY DEF MigrationConsistent, Standing
  <2>. QED  BY <2>1, <2>2 DEF Undone, Live
<1>. QED  BY <1>1, MigrationConsistentCorrect, PTL

-----------------------------------------------------------------------------
(* Positions of decisions *)

Rank(S, k) == Cardinality({j \in S : j <= k})

\* The rank of a member of a finite set of numbers is between 1 and its size, and no two
\* members have the same.
LEMMA RanksDiffer ==
  ASSUME NEW S \in SUBSET Nat, IsFiniteSet(S)
  PROVE  /\ Cardinality(S) \in Nat
         /\ \A k \in S : Rank(S, k) \in 1..Cardinality(S)
         /\ \A j, k \in S : Rank(S, j) = Rank(S, k) => j = k
<1>. DEFINE Upto(k) == {j \in S : j <= k}
<1>1. \A k \in S : /\ IsFiniteSet(Upto(k))
                   /\ Cardinality(Upto(k)) \in Nat
                   /\ Cardinality(Upto(k)) <= Cardinality(S)
                   /\ Cardinality(Upto(k)) # 0
  <2>. SUFFICES ASSUME NEW k \in S
                PROVE  /\ IsFiniteSet(Upto(k))
                       /\ Cardinality(Upto(k)) \in Nat
                       /\ Cardinality(Upto(k)) <= Cardinality(S)
                       /\ Cardinality(Upto(k)) # 0
    OBVIOUS
  <2>1. Upto(k) \in SUBSET S /\ k \in Upto(k)
    OBVIOUS
  <2>. HIDE DEF Upto
  <2>2. IsFiniteSet(Upto(k)) /\ Cardinality(Upto(k)) <= Cardinality(S)
    BY <2>1, FS_Subset
  <2>3. Cardinality(Upto(k)) \in Nat
    BY <2>2, FS_CardinalityType
  <2>4. Cardinality(Upto(k)) # 0
    BY <2>1, <2>2, FS_EmptySet
  <2>. QED  BY <2>2, <2>3, <2>4
<1>2. Cardinality(S) \in Nat
  BY FS_CardinalityType
<1>3. \A k \in S : Rank(S, k) = Cardinality(Upto(k))
  BY DEF Rank
<1>4. \A k \in S : Rank(S, k) \in 1..Cardinality(S)
  <2>. HIDE DEF Upto
  <2>. SUFFICES ASSUME NEW k \in S PROVE Rank(S, k) \in 1..Cardinality(S)
    OBVIOUS
  <2>1. PICK c \in Nat, size \in Nat : c = Cardinality(Upto(k)) /\ size = Cardinality(S)
    BY <1>1, <1>2
  <2>2. c <= size /\ c # 0
    BY <1>1, <2>1
  <2>. QED  BY <1>3, <2>1, <2>2
<1>5. ASSUME NEW j \in S, NEW k \in S, j < k, Rank(S, j) = Rank(S, k) PROVE FALSE
  <2>1. Upto(j) \in SUBSET Upto(k) /\ k \in Upto(k) /\ k \notin Upto(j)
    <3>1. \A i \in S : i \in Nat
      OBVIOUS
    <3>2. \A i \in S : i <= j => i <= k
      BY <1>5, <3>1
    <3>3. k <= k /\ ~(k <= j)
      BY <1>5, <3>1
    <3>. QED  BY <3>2, <3>3
  <2>2. Cardinality(Upto(k)) = Cardinality(Upto(j))
    BY <1>3, <1>5
  <2>3. Upto(j) = Upto(k)
    <3>1. IsFiniteSet(Upto(k))
      BY <1>1
    <3>. HIDE DEF Upto
    <3>. QED  BY <2>1, <2>2, <3>1, FS_Subset
  <2>. QED  BY <2>1, <2>3
<1>6. \A j, k \in S : Rank(S, j) = Rank(S, k) => j = k
  <2>. SUFFICES ASSUME NEW j \in S, NEW k \in S, Rank(S, j) = Rank(S, k), j # k PROVE FALSE
    OBVIOUS
  <2>1. j < k \/ k < j
    OBVIOUS
  <2>. QED  BY <2>1, <1>5
<1>. QED  BY <1>2, <1>4, <1>6

\* Nth is the inverse of Rank.
LEMMA NthIsInverse ==
  ASSUME NEW S \in SUBSET Nat, IsFiniteSet(S)
  PROVE  /\ \A n \in 1..Cardinality(S) : Nth(S, n) \in S /\ Rank(S, Nth(S, n)) = n
         /\ \A k \in S : Rank(S, k) \in 1..Cardinality(S) /\ Nth(S, Rank(S, k)) = k
<1>. DEFINE T == 1..Cardinality(S)
            f == [k \in S |-> Rank(S, k)]
<1>1. /\ Cardinality(S) \in Nat
      /\ \A k \in S : Rank(S, k) \in T
      /\ \A j, k \in S : Rank(S, j) = Rank(S, k) => j = k
  BY RanksDiffer
<1>2. f \in Injection(S, T)
  BY <1>1 DEF Injection, IsInjective
<1>3. IsFiniteSet(T) /\ Cardinality(T) = Cardinality(S)
  <2>1. PICK c \in Nat : c = Cardinality(S)
    BY <1>1
  <2>2. \A a \in Int, m \in Int :
           IsFiniteSet(a..m) /\ Cardinality(a..m) = IF a > m THEN 0 ELSE m - a + 1
    BY FS_Interval
  <2>3. IsFiniteSet(1..c) /\ Cardinality(1..c) = c
    <3>1. 1 \in Int /\ c \in Int
      OBVIOUS
    <3>. QED  BY <2>2, <3>1
  <2>. HIDE DEF f
  <2>. QED  BY <2>1, <2>3
<1>4. f \in Surjection(S, T)
  <2>. HIDE DEF f, T
  <2>. QED  BY <1>2, <1>3, FS_Injection
<1>5. ASSUME NEW n \in T PROVE Nth(S, n) \in S /\ Rank(S, Nth(S, n)) = n
  <2>1. \E k \in S : f[k] = n
    <3>. HIDE DEF f, T
    <3>. QED  BY <1>4, <1>5 DEF Surjection
  <2>2. \E k \in S : Cardinality({j \in S : j <= k}) = n
    BY <2>1 DEF Rank
  <2>. QED  BY <2>2 DEF Nth, Rank
<1>6. ASSUME NEW k \in S PROVE Nth(S, Rank(S, k)) = k
  BY <1>1, <1>5, <1>6
<1>. QED  BY <1>1, <1>5, <1>6

\* What is made of a decision.
EntryOf(d) == [id |-> d.id, text |-> d.source.text, scope |-> d.scope]

\* A function on 1..n is a sequence.
LEMMA FunctionsAreSequences ==
  ASSUME NEW S, NEW n \in Nat, NEW f \in [1..n -> S]
  PROVE  f \in Seq(S) /\ Len(f) = n /\ DOMAIN f = 1..n
OBVIOUS

\* The entries of a bucket are those of the decisions of its class, each once.
LEMMA ProjectedIs ==
  ASSUME NEW p \in Seq(Decision), NEW b \in Buckets
  PROVE  /\ Projected(p)[b] \in Seq(Requirement)
         /\ \A k \in Classed(p, b) :
              \E n \in DOMAIN Projected(p)[b] : Projected(p)[b][n] = EntryOf(p[k])
         /\ \A n \in DOMAIN Projected(p)[b] :
              /\ Nth(Classed(p, b), n) \in Classed(p, b)
              /\ Rank(Classed(p, b), Nth(Classed(p, b), n)) = n
              /\ Projected(p)[b][n] = EntryOf(p[Nth(Classed(p, b), n)])
<1>. DEFINE S == Classed(p, b)
            s == Projected(p)[b]
<1>1. Len(p) \in Nat /\ DOMAIN p = 1..Len(p) /\ \A k \in DOMAIN p : p[k] \in Decision
  OBVIOUS
<1>2. S \in SUBSET Nat /\ S \in SUBSET (1..Len(p))
  BY <1>1 DEF Classed
<1>3. IsFiniteSet(S)
  <2>1. IsFiniteSet(1..Len(p))
    BY <1>1, FS_Interval
  <2>. HIDE DEF S
  <2>. QED  BY <1>2, <2>1, FS_Subset
<1>4. s = [n \in 1..Cardinality(S) |-> EntryOf(p[Nth(S, n)])]
  BY DEF Projected, EntryOf
<1>5. \A d \in Decision : EntryOf(d) \in Requirement
  BY DEF EntryOf, Decision, Requirement, Row
<1>6. Cardinality(S) \in Nat
  BY <1>3, FS_CardinalityType
<1>7. /\ \A n \in 1..Cardinality(S) : Nth(S, n) \in S /\ Rank(S, Nth(S, n)) = n
      /\ \A k \in S : Rank(S, k) \in 1..Cardinality(S) /\ Nth(S, Rank(S, k)) = k
  <2>. HIDE DEF S
  <2>. QED  BY <1>2, <1>3, NthIsInverse
<1>8. s \in [1..Cardinality(S) -> Requirement]
  <2>1. \A k \in S : p[k] \in Decision
    BY <1>1 DEF Classed
  <2>. HIDE DEF S, s
  <2>. QED  BY <1>4, <1>5, <1>7, <2>1
<1>9. s \in Seq(Requirement) /\ DOMAIN s = 1..Cardinality(S)
  <2>. HIDE DEF S, s
  <2>. QED  BY <1>6, <1>8, FunctionsAreSequences
<1>10. \A k \in S : \E n \in DOMAIN s : s[n] = EntryOf(p[k])
  <2>. HIDE DEF S, s
  <2>. QED  BY <1>4, <1>7, <1>9
<1>11. \A n \in DOMAIN s : Nth(S, n) \in S /\ Rank(S, Nth(S, n)) = n /\ s[n] = EntryOf(p[Nth(S, n)])
  <2>. HIDE DEF S, s
  <2>. QED  BY <1>4, <1>7, <1>9
<1>. QED  BY <1>9, <1>10, <1>11

LEMMA ProjectedTyped ==
  ASSUME NEW p \in Seq(Decision)
  PROVE  Projected(p) \in Specification
<1>1. \A b \in Buckets : Projected(p)[b] \in Seq(Requirement)
  BY ProjectedIs
<1>. QED  BY <1>1 DEF Projected, Specification

-----------------------------------------------------------------------------
(* Rows and prior entries *)

\* The rows of a record: those of its requirements, then those of its constraints.
LEMMA RowsAre ==
  ASSUME NEW r \in Problem
  PROVE  /\ SourceRows(r) \in Seq(Row)
         /\ \A n \in DOMAIN r.requirements :
              /\ n \in DOMAIN SourceRows(r)
              /\ SourceRows(r)[n].array = "requirements"
              /\ SourceRows(r)[n].text = r.requirements[n].text
<1>. DEFINE s == RowsOf("requirements", r.requirements)
            t == RowsOf("constraints", r.constraints)
<1>1. ASSUME NEW array \in {"requirements", "constraints"}, NEW q \in Sentences
      PROVE  RowsOf(array, q) \in Seq(Row) /\ Len(RowsOf(array, q)) = Len(q)
  <2>1. Len(q) \in Nat /\ \A n \in 1..Len(q) : q[n] \in [text : Texts, scope : Scopes \cup {NoScope}]
    <3>. DEFINE T == [text : Texts, scope : Scopes \cup {NoScope}]
    <3>1. q \in Seq(T)
      BY DEF Sentences
    <3>. HIDE DEF T
    <3>2. Len(q) \in Nat /\ \A n \in 1..Len(q) : q[n] \in T
      BY <3>1
    <3>. QED  BY <3>2 DEF T
  <2>2. RowsOf(array, q) \in [1..Len(q) -> Row]
    BY <2>1 DEF RowsOf, Row
  <2>. QED  BY <2>1, <2>2, FunctionsAreSequences
<1>2. r.requirements \in Sentences /\ r.constraints \in Sentences
  BY DEF Problem
<1>3. /\ s \in Seq(Row) /\ Len(s) = Len(r.requirements)
      /\ t \in Seq(Row)
  BY <1>1, <1>2
<1>4. DOMAIN r.requirements = 1..Len(r.requirements) /\ Len(r.requirements) \in Nat
  BY <1>2 DEF Sentences
<1>5. \A n \in 1..Len(r.requirements) :
        s[n].array = "requirements" /\ s[n].text = r.requirements[n].text
  BY DEF RowsOf
<1>6. /\ s \o t \in Seq(Row)
      /\ Len(s \o t) = Len(s) + Len(t)
      /\ \A i \in 1 .. Len(s) + Len(t) : (s \o t)[i] = IF i <= Len(s) THEN s[i] ELSE t[i - Len(s)]
  <2>. HIDE DEF s, t
  <2>. QED  BY <1>3, ConcatProperties
<1>7. SourceRows(r) = s \o t
  BY DEF SourceRows
<1>8. ASSUME NEW n \in DOMAIN r.requirements
      PROVE  n \in DOMAIN SourceRows(r) /\ SourceRows(r)[n] = s[n]
  <2>. HIDE DEF s, t
  <2>1. PICK a \in Nat, c \in Nat : a = Len(s) /\ c = Len(t)
    BY <1>3
  <2>2. n \in 1..a /\ n <= a /\ n \in 1..(a + c)
    BY <1>3, <1>4, <1>8, <2>1
  <2>3. DOMAIN (s \o t) = 1..(a + c)
    BY <1>6, <2>1, LenProperties
  <2>. QED  BY <1>6, <1>7, <2>1, <2>2, <2>3
<1>. QED  BY <1>4, <1>5, <1>6, <1>7, <1>8

\* There is a last place among some places of a sequence.
LEMMA LastPlaceExists ==
  ASSUME NEW n \in Nat, NEW S \in SUBSET (1..n), S # {}
  PROVE  \E k \in S : \A m \in S : m <= k
<1>. DEFINE T == {i \in Nat : \E k \in S : i + k = n}
            Less == {p \in Nat \X Nat : p[1] < p[2]}
<1>1. T \subseteq Nat /\ T # {}
  <2>1. PICK k \in S : k \in 1..n
    OBVIOUS
  <2>2. n - k \in Nat /\ (n - k) + k = n
    BY <2>1
  <2>. QED  BY <2>1, <2>2
<1>2. IsWellFoundedOn(Less, Nat)
  BY NatLessThanWellFounded DEF OpToRel
<1>3. PICK i \in T : \A y \in T : ~(<<y, i>> \in Less)
  <2>. HIDE DEF T, Less
  <2>. QED  BY <1>1, <1>2, WFMin
<1>4. PICK k \in S : i + k = n
  BY <1>3
<1>5. \A m \in S : m <= k
  <2>. SUFFICES ASSUME NEW m \in S PROVE m <= k
    OBVIOUS
  <2>1. n - m \in T
    OBVIOUS
  <2>2. ~(n - m < i)
    BY <1>1, <1>3, <2>1
  <2>. QED  BY <1>3, <1>4, <2>2
<1>. QED  BY <1>5

LEMMA EntriesTyped ==
  ASSUME NEW spec \in Specification, NEW e \in SpecEntries(spec)
  PROVE  e \in Requirement /\ e.id \in Row
<1>1. PICK b \in Buckets : e \in Elements(spec[b])
  BY DEF SpecEntries
<1>2. spec[b] \in Seq(Requirement)
  BY DEF Specification
<1>3. e \in Requirement
  BY <1>1, <1>2 DEF Elements
<1>. QED  BY <1>3 DEF Requirement

\* The prior entry of a sentence is an entry of its bucket with that sentence.
LEMMA PriorEntryIs ==
  ASSUME NEW spec \in Specification, NEW text, HasPrior(spec, text)
  PROVE  /\ PriorBucket(spec, text) \in Buckets
         /\ PriorEntry(spec, text) \in Elements(spec[PriorBucket(spec, text)])
         /\ PriorEntry(spec, text) \in SpecEntries(spec)
         /\ PriorEntry(spec, text) \in Requirement
         /\ PriorEntry(spec, text).text = text
<1>. DEFINE b == PriorBucket(spec, text)
            at == {n \in DOMAIN spec[b] : spec[b][n].text = text}
<1>1. b \in Buckets
  BY DEF PriorBucket, Buckets
<1>2. \E e \in Elements(spec[b]) : e.text = text
  <2>1. PICK e \in SpecEntries(spec) : e.text = text
    BY DEF HasPrior
  <2>2. e \in Elements(spec["functional"]) \/ e \in Elements(spec["nonFunctional"])
    BY <2>1 DEF SpecEntries, Buckets
  <2>. QED  BY <2>1, <2>2 DEF PriorBucket
<1>3. spec[b] \in Seq(Requirement)
  BY <1>1 DEF Specification
<1>4. at # {} /\ at \in SUBSET (1..Len(spec[b])) /\ Len(spec[b]) \in Nat
  BY <1>2, <1>3 DEF Elements
<1>5. PICK n \in at : \A m \in at : m <= n
  <2>. HIDE DEF at, b
  <2>. QED  BY <1>4, LastPlaceExists
<1>6. PriorEntry(spec, text) = spec[b][CHOOSE k \in at : \A m \in at : m <= k]
  BY DEF PriorEntry
<1>7. PICK k \in at : PriorEntry(spec, text) = spec[b][k]
  <2>. HIDE DEF at, b
  <2>. QED  BY <1>5, <1>6
<1>8. PriorEntry(spec, text) \in Elements(spec[b]) /\ PriorEntry(spec, text).text = text
  BY <1>7 DEF Elements
<1>9. PriorEntry(spec, text) \in Requirement
  BY <1>3, <1>4, <1>7
<1>. QED  BY <1>1, <1>8, <1>9 DEF SpecEntries

-----------------------------------------------------------------------------
(* What is suggested *)

LEMMA SuggestionTyped ==
  ASSUME NEW spec \in Specification, NEW row \in Row
  PROVE  /\ Suggest(spec, row) \in Decision
         /\ Suggest(spec, row).source = row
<1>1. /\ row.array \in {"requirements", "constraints"} /\ row.text \in Texts
      /\ row.scope \in Scopes \cup {NoScope}
  BY DEF Row
<1>2. Heuristic(row) \in Buckets \cup {"constraint"}
  BY DEF Heuristic, Buckets
<1>3. CASE HasPrior(spec, row.text)
  <2>. DEFINE prior == PriorEntry(spec, row.text)
              scope == IF row.scope # NoScope THEN row.scope ELSE prior.scope
  <2>1. prior \in Requirement /\ PriorBucket(spec, row.text) \in Buckets
    BY <1>3, PriorEntryIs
  <2>2. prior.id \in Row /\ prior.scope \in Scopes
    BY <2>1 DEF Requirement
  <2>3. Suggest(spec, row) = [source |-> row, id |-> prior.id, class |-> PriorBucket(spec, row.text),
                              scope |-> scope, reviewed |-> FALSE]
    BY <1>3 DEF Suggest
  <2>4. scope \in Scopes
    BY <1>1, <2>2
  <2>. HIDE DEF prior, scope
  <2>. QED  BY <2>1, <2>2, <2>3, <2>4 DEF Decision
<1>4. CASE ~HasPrior(spec, row.text)
  <2>. DEFINE scope == IF row.scope # NoScope THEN row.scope ELSE "core"
  <2>1. Suggest(spec, row) = [source |-> row, id |-> row, class |-> Heuristic(row),
                              scope |-> scope, reviewed |-> FALSE]
    BY <1>4 DEF Suggest
  <2>2. scope \in Scopes
    BY <1>1 DEF Scopes
  <2>. HIDE DEF scope
  <2>. QED  BY <1>2, <2>1, <2>2 DEF Decision
<1>. QED  BY <1>3, <1>4

\* A draft has a decision for every row of its record, and the entries of its decisions.
LEMMA DraftedTyped ==
  ASSUME NEW r \in Problem
  PROVE  LET draft == Drafted(r) IN
         /\ draft \in [original : Problem, provenance : Seq(Decision), spec : Specification,
                       approved : {<< >>} \cup (Problem \X Seq(Decision) \X Specification)]
         /\ draft.original = r
         /\ DOMAIN draft.provenance = DOMAIN SourceRows(r)
         /\ \A n \in DOMAIN SourceRows(r) :
              /\ draft.provenance[n] = Suggest(r.spec, SourceRows(r)[n])
              /\ draft.provenance[n].source = SourceRows(r)[n]
         /\ draft.spec = Projected(draft.provenance)
<1>. DEFINE rows == SourceRows(r)
            p == [n \in DOMAIN rows |-> Suggest(r.spec, rows[n])]
<1>1. rows \in Seq(Row)
  BY RowsAre
<1>2. r.spec \in Specification
  BY DEF Problem
<1>3. Len(rows) \in Nat /\ DOMAIN rows = 1..Len(rows) /\ \A n \in DOMAIN rows : rows[n] \in Row
  <2>. HIDE DEF rows
  <2>. QED  BY <1>1
<1>4. \A n \in DOMAIN rows : /\ Suggest(r.spec, rows[n]) \in Decision
                             /\ Suggest(r.spec, rows[n]).source = rows[n]
  BY <1>2, <1>3, SuggestionTyped
<1>5. p \in Seq(Decision) /\ DOMAIN p = DOMAIN rows
  <2>. HIDE DEF rows
  <2>1. p \in [1..Len(rows) -> Decision]
    BY <1>3, <1>4
  <2>. HIDE DEF p
  <2>. QED  BY <1>3, <2>1, FunctionsAreSequences
<1>6. Projected(p) \in Specification
  <2>. HIDE DEF p
  <2>. QED  BY <1>5, ProjectedTyped
<1>7. Drafted(r) = [original |-> r, provenance |-> p, spec |-> Projected(p), approved |-> << >>]
  BY DEF Drafted
<1>8. \A n \in DOMAIN rows : p[n] = Suggest(r.spec, rows[n])
  <2>. HIDE DEF rows
  <2>. QED  OBVIOUS
<1>. HIDE DEF rows, p
<1>9. Drafted(r) \in [original : Problem, provenance : Seq(Decision), spec : Specification,
                       approved : {<< >>} \cup (Problem \X Seq(Decision) \X Specification)]
  BY <1>5, <1>6, <1>7
<1>10. \A n \in DOMAIN rows : p[n].source = rows[n]
  BY <1>4, <1>8
<1>. QED  BY <1>5, <1>7, <1>8, <1>9, <1>10 DEF rows

-----------------------------------------------------------------------------
(* Edits and decisions *)

LEMMA EditsTyped ==
  ASSUME NEW q \in Sentences, NEW rows \in Edits(q)
  PROVE  rows \in Sentences
<1>. DEFINE T == [text : Texts, scope : Scopes \cup {NoScope}]
<1>1. q \in Seq(T) /\ Sentences = Seq(T)
  BY DEF Sentences
<1>2. \A s \in Sentence : s \in T
  BY DEF Sentence, Scopes
<1>3. \A n \in DOMAIN q, s \in {NoScope, "extension"} : [q[n] EXCEPT !.scope = s] \in T
  <2>. SUFFICES ASSUME NEW n \in DOMAIN q, NEW s \in {NoScope, "extension"}
                PROVE  [q[n] EXCEPT !.scope = s] \in T
    OBVIOUS
  <2>1. q[n] \in T
    <3>. HIDE DEF T
    <3>. QED  BY <1>1
  <2>2. s \in Scopes \cup {NoScope}
    BY DEF Scopes
  <2>. QED  BY <2>1, <2>2
<1>. HIDE DEF T
<1>4. Len(q) \in Nat /\ DOMAIN q = 1..Len(q) /\ \A i \in 1..Len(q) : q[i] \in T
  BY <1>1
<1>5. CASE \E s \in Sentence : rows = Append(q, s)
  BY <1>1, <1>2, <1>5, AppendProperties
<1>6. CASE \E n \in DOMAIN q : rows = Without(q, n)
  <2>1. PICK n \in 1..Len(q) : rows = SubSeq(q, 1, n - 1) \o SubSeq(q, n + 1, Len(q))
    BY <1>4, <1>6 DEF Without
  <2>2. PICK len \in Nat : len = Len(q)
    BY <1>4
  <2>3. n \in Nat /\ n \in 1..len
    BY <2>2
  <2>4. \A i \in 1..(n - 1) : i \in 1..Len(q)
    BY <2>2, <2>3
  <2>5. \A i \in (n + 1)..Len(q) : i \in 1..Len(q)
    BY <2>2, <2>3
  <2>6. SubSeq(q, 1, n - 1) \in Seq(T)
    <3>1. 1 \in Int /\ n - 1 \in Int /\ \A i \in 1..(n - 1) : q[i] \in T
      BY <1>4, <2>3, <2>4
    <3>. QED  BY <3>1, SubSeqProperties
  <2>7. SubSeq(q, n + 1, Len(q)) \in Seq(T)
    <3>1. n + 1 \in Int /\ Len(q) \in Int /\ \A i \in (n + 1)..Len(q) : q[i] \in T
      BY <1>4, <2>3, <2>5
    <3>. QED  BY <3>1, SubSeqProperties
  <2>. QED  BY <1>1, <2>1, <2>6, <2>7, ConcatProperties
<1>7. CASE \E n \in DOMAIN q, s \in {NoScope, "extension"} : rows = Rescoped(q, n, s)
  <2>1. PICK n \in DOMAIN q, s \in {NoScope, "extension"} : rows = Rescoped(q, n, s)
    BY <1>7
  <2>2. PICK t \in T : t = [q[n] EXCEPT !.scope = s]
    BY <1>3
  <2>3. rows = [q EXCEPT ![n] = t]
    BY <2>1, <2>2 DEF Rescoped
  <2>. QED  BY <1>1, <1>4, <2>3, ExceptSeq
<1>8. \/ \E s \in Sentence : rows = Append(q, s)
      \/ \E n \in DOMAIN q : rows = Without(q, n)
      \/ \E n \in DOMAIN q, s \in {NoScope, "extension"} : rows = Rescoped(q, n, s)
  BY DEF Edits
<1>. QED  BY <1>5, <1>6, <1>7, <1>8

\* A row decided anew is still about its sentence.
LEMMA ChoicesTyped ==
  ASSUME DraftsTypeOK, NEW n \in DOMAIN manifest.provenance, NEW d \in Choices(n)
  PROVE  d \in Decision /\ d.source = manifest.provenance[n].source
<1>. DEFINE p == manifest.provenance
            row == p[n]
            ids == {e.id : e \in Elements(p)} \cup Ids(manifest.original.spec)
<1>1. p \in Seq(Decision) /\ manifest.original.spec \in Specification
  BY DEF DraftsTypeOK, Problem
<1>2. \A k \in DOMAIN p : p[k] \in Decision
  <2>. HIDE DEF p
  <2>. QED  BY <1>1
<1>3. ids \subseteq Row
  <2>1. \A e \in Elements(p) : e.id \in Row
    <3>1. \A e \in Decision : e.id \in Row
      BY DEF Decision
    <3>. HIDE DEF p
    <3>. QED  BY <1>2, <3>1 DEF Elements
  <2>2. \A e \in SpecEntries(manifest.original.spec) : e.id \in Row
    BY <1>1, EntriesTyped
  <2>. HIDE DEF p
  <2>. QED  BY <2>1, <2>2 DEF Ids
<1>4. row \in Decision
  BY <1>2
<1>5. \/ \E i \in ids : d = [row EXCEPT !.id = i]
      \/ \E c \in Buckets \cup {"constraint"} : d = [row EXCEPT !.class = c]
      \/ \E s \in Scopes : d = [row EXCEPT !.scope = s]
  BY DEF Choices
<1>. HIDE DEF row, ids
<1>6. d \in Decision /\ d.source = row.source
  BY <1>3, <1>4, <1>5 DEF Decision
<1>. QED  BY <1>6 DEF row

-----------------------------------------------------------------------------
(* The inductive invariant *)

Manifest == [original : Problem, provenance : Seq(Decision), spec : Specification,
             approved : {<< >>} \cup (Problem \X Seq(Decision) \X Specification)]

\* The two conjuncts of DraftsSound about a manifest and its stage.
About(m) ==
  LET rows == SourceRows(m.original) IN
  /\ DOMAIN m.provenance = DOMAIN rows
  /\ \A n \in DOMAIN rows : m.provenance[n].source = rows[n]

Untouched(m) ==
  LET draft == Drafted(m.original) IN
  m.provenance = draft.provenance /\ m.spec = draft.spec

LEMMA SoundIs ==
  DraftsSound <=> /\ DraftsTypeOK
                  /\ stage # "none" => About(manifest)
                  /\ stage = "drafted" => Untouched(manifest)
BY DEF DraftsSound, About, Untouched

LEMMA NoChangeTyped == NoChange \in Manifest
<1>1. NoEntries \in Specification
  BY DEF NoEntries, Specification
<1>2. << >> \in Sentences /\ << >> \in Seq(Decision)
  BY DEF Sentences
<1>3. [requirements |-> << >>, constraints |-> << >>, spec |-> NoEntries] \in Problem
  BY <1>1, <1>2 DEF Problem
<1>. QED  BY <1>1, <1>2, <1>3 DEF NoChange, Manifest

LEMMA DraftsInitSound == DraftsInit => DraftsSound
<1>. SUFFICES ASSUME DraftsInit PROVE DraftsSound
  OBVIOUS
<1>1. \A s \in Plain : s \in [text : Texts, scope : Scopes \cup {NoScope}]
  BY DEF Plain
<1>2. /\ << >> \in Sentences
      /\ \A s \in Plain : <<s>> \in Sentences
      /\ \A s, t \in Plain : <<s, t>> \in Sentences
  <2>. DEFINE T == [text : Texts, scope : Scopes \cup {NoScope}]
  <2>. HIDE DEF T
  <2>1. << >> \in Seq(T)
    OBVIOUS
  <2>2. \A s \in T : <<s>> \in Seq(T)
    OBVIOUS
  <2>3. \A s, t \in T : <<s, t>> \in Seq(T)
    OBVIOUS
  <2>. QED  BY <1>1, <2>1, <2>2, <2>3 DEF T, Sentences
<1>3. NoEntries \in Specification
  BY DEF NoEntries, Specification
<1>4. record \in Problem
  BY <1>2, <1>3 DEF DraftsInit, Problem
<1>5. manifest \in Manifest
  BY NoChangeTyped DEF DraftsInit
<1>. QED  BY <1>4, <1>5, SoundIs DEF DraftsInit, DraftsTypeOK, Manifest

\* Marked rows are decisions about the same sentences.
LEMMA DecideKeeps ==
  ASSUME DraftsTypeOK, About(manifest), stage # "none",
         NEW n \in DOMAIN manifest.provenance, NEW d \in Choices(n), NEW matched \in BOOLEAN,
         Decide(n, d, matched)
  PROVE  manifest' \in Manifest /\ About(manifest')
<1>. DEFINE p == manifest.provenance
            row(k) == IF k = n THEN d ELSE p[k]
            marked == [k \in DOMAIN p |-> [row(k) EXCEPT !.reviewed = TRUE]]
            spec == IF matched THEN Projected(marked) ELSE manifest.spec
<1>1. manifest \in Manifest
  BY DEF DraftsTypeOK, Manifest
<1>2. p \in Seq(Decision) /\ manifest.original \in Problem /\ manifest.spec \in Specification
  BY <1>1 DEF Manifest
<1>3. d \in Decision /\ d.source = p[n].source
  BY ChoicesTyped
<1>4. Len(p) \in Nat /\ DOMAIN p = 1..Len(p) /\ \A k \in DOMAIN p : p[k] \in Decision
  <2>. HIDE DEF p
  <2>. QED  BY <1>2
<1>5. \A k \in DOMAIN p : row(k) \in Decision /\ row(k).source = p[k].source
  <2>. HIDE DEF p
  <2>. QED  BY <1>3, <1>4
<1>6. \A e \in Decision : /\ [e EXCEPT !.reviewed = TRUE] \in Decision
                          /\ [e EXCEPT !.reviewed = TRUE].source = e.source
  BY DEF Decision
<1>7. /\ DOMAIN marked = DOMAIN p
      /\ \A k \in DOMAIN p : marked[k] \in Decision /\ marked[k].source = p[k].source
  <2>. HIDE DEF p, row
  <2>. QED  BY <1>5, <1>6
<1>8. marked \in Seq(Decision)
  <2>1. marked \in [1..Len(p) -> Decision]
    <3>. HIDE DEF p, row
    <3>. QED  BY <1>4, <1>5, <1>6
  <2>. HIDE DEF marked
  <2>. QED  BY <1>4, <2>1, FunctionsAreSequences
<1>9. spec \in Specification
  <2>. HIDE DEF marked
  <2>. QED  BY <1>2, <1>8, ProjectedTyped
<1>10. manifest' = [manifest EXCEPT !.provenance = marked, !.spec = spec]
  BY DEF Decide
<1>. HIDE DEF p, marked, spec
<1>11. /\ manifest' \in Manifest
       /\ manifest'.provenance = marked /\ manifest'.original = manifest.original
  BY <1>1, <1>8, <1>9, <1>10 DEF Manifest
<1>12. PICK m \in Manifest : m = manifest'
  BY <1>11
<1>13. m.provenance = marked /\ m.original = manifest.original
  BY <1>11, <1>12
<1>14. About(m)
  BY <1>7, <1>13 DEF About, p
<1>. QED  BY <1>12, <1>14

LEMMA DraftsNextSound == DraftsSound /\ [DraftsNext]_draftVars => DraftsSound'
<1>. SUFFICES ASSUME DraftsSound, [DraftsNext]_draftVars PROVE DraftsSound'
  OBVIOUS
<1>1. /\ DraftsTypeOK
      /\ stage # "none" => About(manifest)
      /\ stage = "drafted" => Untouched(manifest)
  BY SoundIs
<1>2. /\ record \in Problem /\ manifest \in Manifest
      /\ stage \in {"none", "drafted", "reviewed"} /\ changes \in Nat
  BY <1>1 DEF DraftsTypeOK, Manifest
<1>3. ASSUME /\ record' \in Problem /\ manifest' \in Manifest
             /\ stage' \in {"none", "drafted", "reviewed"} /\ changes' \in Nat
             /\ stage' # "none" => About(manifest')
             /\ stage' = "drafted" => Untouched(manifest')
      PROVE  DraftsSound'
  <2>1. DraftsTypeOK'
    BY <1>3 DEF DraftsTypeOK, Manifest
  <2>. QED  BY <1>3, <2>1 DEF DraftsSound, About, Untouched
<1>4. CASE \E rows \in Edits(record.requirements) :
             EditSentences([record EXCEPT !.requirements = rows])
  <2>1. PICK rows \in Edits(record.requirements) :
               EditSentences([record EXCEPT !.requirements = rows])
    BY <1>4
  <2>2. rows \in Sentences
    BY <1>2, EditsTyped DEF Problem
  <2>3. record' \in Problem
    BY <1>2, <2>1, <2>2 DEF EditSentences, Problem
  <2>4. manifest' = manifest /\ stage' = stage /\ changes' \in Nat
    BY <1>2, <2>1 DEF EditSentences, Change
  <2>. QED  BY <1>1, <1>2, <1>3, <2>3, <2>4
<1>5. CASE \E rows \in Edits(record.constraints) :
             EditSentences([record EXCEPT !.constraints = rows])
  <2>1. PICK rows \in Edits(record.constraints) :
               EditSentences([record EXCEPT !.constraints = rows])
    BY <1>5
  <2>2. rows \in Sentences
    BY <1>2, EditsTyped DEF Problem
  <2>3. record' \in Problem
    BY <1>2, <2>1, <2>2 DEF EditSentences, Problem
  <2>4. manifest' = manifest /\ stage' = stage /\ changes' \in Nat
    BY <1>2, <2>1 DEF EditSentences, Change
  <2>. QED  BY <1>1, <1>2, <1>3, <2>3, <2>4
<1>6. CASE MakeDraft
  <2>1. manifest' = Drafted(record) /\ stage' = "drafted" /\ record' = record /\ changes' \in Nat
    BY <1>2, <1>6 DEF MakeDraft, Change
  <2>2. PICK m : m = Drafted(record)
    OBVIOUS
  <2>3. /\ m \in Manifest
        /\ m.original = record
        /\ DOMAIN m.provenance = DOMAIN SourceRows(record)
        /\ \A n \in DOMAIN SourceRows(record) : m.provenance[n].source = SourceRows(record)[n]
    BY <1>2, <2>2, DraftedTyped DEF Manifest
  <2>4. About(m) /\ Untouched(m)
    BY <2>2, <2>3 DEF About, Untouched
  <2>. QED  BY <1>2, <1>3, <2>1, <2>2, <2>3, <2>4
<1>7. ASSUME NEW n \in DOMAIN manifest.provenance, NEW matched \in BOOLEAN, NEW d \in Choices(n),
             Review(n, d, matched) \/ EditApproved(n, d, matched)
      PROVE  DraftsSound'
  <2>1. /\ stage # "none" /\ stage' = "reviewed" /\ changes' \in Nat
        /\ Decide(n, d, matched)
    BY <1>2, <1>7 DEF Review, EditApproved, Change
  <2>2. record' = record
    BY <2>1 DEF Decide
  <2>3. manifest' \in Manifest /\ About(manifest')
    BY <1>1, <2>1, DecideKeeps
  <2>. QED  BY <1>2, <1>3, <2>1, <2>2, <2>3
<1>8. CASE Approve
  <2>. DEFINE seal == Sealed(manifest)
  <2>1. /\ manifest' = [manifest EXCEPT !.approved = seal]
        /\ record' = record /\ stage' = stage /\ changes' = changes
    BY <1>8 DEF Approve
  <2>2. seal \in Problem \X Seq(Decision) \X Specification
    BY <1>2 DEF Sealed, Manifest
  <2>. HIDE DEF seal
  <2>3. /\ manifest' \in Manifest /\ manifest'.original = manifest.original
        /\ manifest'.provenance = manifest.provenance /\ manifest'.spec = manifest.spec
    BY <1>2, <2>1, <2>2 DEF Manifest
  <2>4. PICK m \in Manifest : m = manifest'
    BY <2>3
  <2>5. /\ About(manifest) => About(m)
        /\ Untouched(manifest) => Untouched(m)
    BY <2>3, <2>4 DEF About, Untouched
  <2>. QED  BY <1>1, <1>2, <1>3, <2>1, <2>4, <2>5
<1>9. CASE ApplyApproved
  <2>1. /\ record' = [record EXCEPT !.spec = manifest.spec]
        /\ manifest' = NoChange /\ stage' = "none" /\ changes' = changes
    BY <1>9 DEF ApplyApproved
  <2>2. record' \in Problem
    BY <1>2, <2>1 DEF Problem, Manifest
  <2>. QED  BY <1>2, <1>3, <2>1, <2>2, NoChangeTyped
<1>10. CASE DraftsRest \/ UNCHANGED draftVars
  BY <1>1, <1>2, <1>3, <1>10 DEF DraftsRest, draftVars
<1>. QED  BY <1>4, <1>5, <1>6, <1>7, <1>8, <1>9, <1>10 DEF DraftsNext

\* The manifest always decides about the sentences of its snapshot, in their order, and an
\* unreviewed one is as make_draft left it.
THEOREM DraftsSoundCorrect == DraftsSpec => []DraftsSound
<1>1. DraftsInit => DraftsSound
  BY DraftsInitSound
<1>2. DraftsSound /\ [DraftsNext]_draftVars => DraftsSound'
  BY DraftsNextSound
<1>. QED  BY <1>1, <1>2, PTL DEF DraftsSpec

-----------------------------------------------------------------------------
(* Only what a person has to settle is refused *)

\* The texts of the entries tell the entries apart when there are as many as entries.
LEMMA TextsTellApart ==
  ASSUME NEW spec \in Specification,
         Cardinality(SpecEntries(spec)) = Cardinality({e.text : e \in SpecEntries(spec)})
  PROVE  \A e, f \in SpecEntries(spec) : e.text = f.text => e = f
<1>. DEFINE S == SpecEntries(spec)
            T == {e.text : e \in S}
            g == [e \in S |-> e.text]
<1>1. ASSUME NEW b \in Buckets PROVE IsFiniteSet(Elements(spec[b]))
  <2>1. spec[b] \in Seq(Requirement)
    BY DEF Specification
  <2>2. Len(spec[b]) \in Nat /\ DOMAIN spec[b] = 1..Len(spec[b])
    BY <2>1
  <2>3. IsFiniteSet(DOMAIN spec[b])
    BY <2>2, FS_Interval
  <2>4. [n \in DOMAIN spec[b] |-> spec[b][n]] \in Surjection(DOMAIN spec[b], Elements(spec[b]))
    BY DEF Surjection, Elements
  <2>. QED  BY <2>3, <2>4, FS_Surjection
<1>2. S = Elements(spec["functional"]) \cup Elements(spec["nonFunctional"])
  BY DEF SpecEntries, Buckets
<1>3. IsFiniteSet(S)
  BY <1>1, <1>2, FS_Union DEF Buckets
<1>4. g \in Surjection(S, T)
  BY DEF Surjection
<1>5. g \in Injection(S, T)
  <2>. HIDE DEF S, T, g
  <2>1. Cardinality(T) = Cardinality(S) <=> g \in Injection(S, T)
    BY <1>3, <1>4, FS_Surjection
  <2>. QED  BY <2>1 DEF S, T
<1>. QED  BY <1>5 DEF Injection, IsInjective

\* An untouched draft of a record is valid if none of the excuses holds.
LEMMA DraftIsValid ==
  ASSUME NEW r \in Problem, NEW m \in Manifest, m.original = r, Untouched(m),
         ~Repeated(r),
         Cardinality(SpecEntries(r.spec)) = Cardinality({e.text : e \in SpecEntries(r.spec)}),
         \A e \in SpecEntries(r.spec) : e.text \in Mentioned(r) /\ e.id.text = e.text,
         \A row \in Elements(SourceRows(r)) :
           HasPrior(r.spec, row.text) =>
             row.scope \in {NoScope, PriorEntry(r.spec, row.text).scope}
  PROVE  Valid(m)
<1>. DEFINE rows == SourceRows(r)
            p == m.provenance
<1>1. /\ DOMAIN p = DOMAIN rows
      /\ \A k \in DOMAIN rows : p[k] = Suggest(r.spec, rows[k]) /\ p[k].source = rows[k]
      /\ m.spec = Projected(p)
  BY DraftedTyped DEF Untouched
<1>2. /\ r.spec \in Specification /\ p \in Seq(Decision) /\ rows \in Seq(Row)
  BY RowsAre DEF Problem, Manifest
<1>3. \A k \in DOMAIN rows : rows[k] \in Row /\ p[k] \in Decision
  <2>. HIDE DEF rows, p
  <2>. QED  BY <1>1, <1>2
<1>4. \A j, k \in DOMAIN rows : rows[j].text = rows[k].text => j = k
  BY DEF Repeated
\* What was suggested, with and without a prior entry.
<1>5. ASSUME NEW k \in DOMAIN rows, HasPrior(r.spec, rows[k].text)
      PROVE  LET prior == PriorEntry(r.spec, rows[k].text) IN
             /\ p[k].id = prior.id /\ p[k].class \in Buckets /\ p[k].scope = prior.scope
             /\ p[k].id.text = rows[k].text
  <2>. DEFINE prior == PriorEntry(r.spec, rows[k].text)
  <2>1. /\ prior \in SpecEntries(r.spec) /\ prior.text = rows[k].text
        /\ PriorBucket(r.spec, rows[k].text) \in Buckets
    BY <1>2, <1>5, PriorEntryIs
  <2>2. prior.id.text = rows[k].text
    BY <2>1
  <2>3. rows[k].scope \in {NoScope, prior.scope}
    BY <1>5 DEF Elements
  <2>4. Suggest(r.spec, rows[k]) =
          [source |-> rows[k], id |-> prior.id, class |-> PriorBucket(r.spec, rows[k].text),
           scope |-> IF rows[k].scope # NoScope THEN rows[k].scope ELSE prior.scope,
           reviewed |-> FALSE]
    BY <1>5 DEF Suggest
  <2>. HIDE DEF prior, rows, p
  <2>5. /\ p[k].id = prior.id /\ p[k].class = PriorBucket(r.spec, rows[k].text)
        /\ p[k].scope = IF rows[k].scope # NoScope THEN rows[k].scope ELSE prior.scope
    BY <1>1, <2>4
  <2>. QED  BY <2>1, <2>2, <2>3, <2>5 DEF prior
<1>6. ASSUME NEW k \in DOMAIN rows, ~HasPrior(r.spec, rows[k].text)
      PROVE  /\ p[k].id = rows[k] /\ p[k].class = Heuristic(rows[k])
             /\ p[k].scope = IF rows[k].scope # NoScope THEN rows[k].scope ELSE "core"
  <2>1. Suggest(r.spec, rows[k]) =
          [source |-> rows[k], id |-> rows[k], class |-> Heuristic(rows[k]),
           scope |-> IF rows[k].scope # NoScope THEN rows[k].scope ELSE "core",
           reviewed |-> FALSE]
    BY <1>6 DEF Suggest
  <2>. HIDE DEF rows, p
  <2>. QED  BY <1>1, <2>1
<1>7. \A k \in DOMAIN rows : p[k].id.text = rows[k].text
  BY <1>5, <1>6
\* The identifiers.
<1>8. IdsDistinct(m.spec)
  <2>. SUFFICES ASSUME NEW b \in Buckets, NEW c \in Buckets,
                       NEW i \in DOMAIN m.spec[b], NEW j \in DOMAIN m.spec[c],
                       m.spec[b][i].id = m.spec[c][j].id
                PROVE  <<b, i>> = <<c, j>>
    BY DEF IdsDistinct
  <2>. DEFINE k == Nth(Classed(p, b), i)
              l == Nth(Classed(p, c), j)
  <2>1. /\ k \in Classed(p, b) /\ Rank(Classed(p, b), k) = i
        /\ m.spec[b][i] = EntryOf(p[k])
    BY <1>1, <1>2, ProjectedIs
  <2>2. /\ l \in Classed(p, c) /\ Rank(Classed(p, c), l) = j
        /\ m.spec[c][j] = EntryOf(p[l])
    BY <1>1, <1>2, ProjectedIs
  <2>. HIDE DEF k, l, p, rows
  <2>3. /\ k \in DOMAIN rows /\ p[k].class = b
        /\ l \in DOMAIN rows /\ p[l].class = c
    BY <1>1, <2>1, <2>2 DEF Classed
  <2>4. p[k].id = p[l].id
    BY <2>1, <2>2 DEF EntryOf
  <2>5. k = l
    BY <1>4, <1>7, <2>3, <2>4
  <2>. QED  BY <2>1, <2>2, <2>3, <2>5
\* The sentences.
<1>9. ASSUME NEW k \in DOMAIN p PROVE SourceKept(m, p[k]) /\ ClassAllowed(p[k])
  <2>1. k \in DOMAIN rows /\ p[k].source = rows[k]
    BY <1>1
  <2>2. CASE HasPrior(r.spec, rows[k].text)
    <3>1. /\ p[k].id = PriorEntry(r.spec, rows[k].text).id /\ p[k].class \in Buckets
          /\ p[k].scope = PriorEntry(r.spec, rows[k].text).scope
      BY <1>5, <2>1, <2>2
    <3>2. rows[k].scope \in {NoScope, p[k].scope}
      BY <2>1, <2>2, <3>1 DEF Elements
    <3>3. p[k].class # "constraint"
      BY <3>1 DEF Buckets
    <3>. HIDE DEF rows, p
    <3>. QED  BY <2>1, <3>1, <3>2, <3>3 DEF SourceKept, ClassAllowed
  <2>3. CASE ~HasPrior(r.spec, rows[k].text)
    <3>1. /\ p[k].class = Heuristic(rows[k])
          /\ p[k].scope = IF rows[k].scope # NoScope THEN rows[k].scope ELSE "core"
      BY <1>6, <2>1, <2>3
    <3>. HIDE DEF rows, p
    <3>2. rows[k].scope \in {NoScope, p[k].scope}
      BY <3>1
    <3>3. p[k].class = "constraint" => rows[k].array = "constraints"
      BY <3>1 DEF Heuristic
    <3>. QED  BY <2>1, <2>3, <3>2, <3>3 DEF SourceKept, ClassAllowed
  <2>. QED  BY <2>2, <2>3
<1>10. Ids(r.spec) \subseteq Ids(m.spec)
  <2>. SUFFICES ASSUME NEW e \in SpecEntries(r.spec) PROVE e.id \in Ids(m.spec)
    BY DEF Ids
  <2>1. PICK k \in DOMAIN rows : rows[k].text = e.text
    BY DEF Mentioned, Elements
  <2>2. HasPrior(r.spec, rows[k].text)
    BY <2>1 DEF HasPrior
  <2>3. PriorEntry(r.spec, rows[k].text) = e
    BY <1>2, <2>1, <2>2, PriorEntryIs, TextsTellApart
  <2>4. p[k].id = e.id /\ p[k].class \in Buckets
    BY <1>5, <2>1, <2>2, <2>3
  <2>. DEFINE b == p[k].class
  <2>5. k \in Classed(p, b)
    BY <1>1 DEF Classed
  <2>6. PICK n \in DOMAIN Projected(p)[b] : Projected(p)[b][n] = EntryOf(p[k])
    BY <1>2, <2>4, <2>5, ProjectedIs
  <2>7. EntryOf(p[k]) \in SpecEntries(m.spec)
    BY <1>1, <2>4, <2>6 DEF SpecEntries, Elements
  <2>8. EntryOf(p[k]).id = e.id
    BY <2>4 DEF EntryOf
  <2>. QED  BY <2>7, <2>8 DEF Ids
<1>. QED  BY <1>1, <1>8, <1>9, <1>10 DEF Valid

\* A draft nobody has touched is refused only for a sentence the record has, or had, twice, a
\* specified sentence that is gone, an explicit scope other than the specified one, or an
\* identifier that a reviewer moved to another sentence.
THEOREM RefusalsAreExplained == DraftsSpec => []RefusalsExplained
<1>1. DraftsSound => RefusalsExplained
  <2>. SUFFICES ASSUME DraftsSound, stage = "drafted", ~Valid(manifest),
                       LET r == manifest.original IN
                       /\ ~Repeated(r)
                       /\ Cardinality(SpecEntries(r.spec)) =
                            Cardinality({e.text : e \in SpecEntries(r.spec)})
                       /\ \A e \in SpecEntries(r.spec) :
                            e.text \in Mentioned(r) /\ e.id.text = e.text
                       /\ \A row \in Elements(SourceRows(r)) :
                            HasPrior(r.spec, row.text) =>
                              row.scope \in {NoScope, PriorEntry(r.spec, row.text).scope}
                PROVE  FALSE
    BY DEF RefusalsExplained
  <2>1. manifest \in Manifest /\ Untouched(manifest)
    BY SoundIs DEF DraftsTypeOK, Manifest
  <2>2. manifest.original \in Problem
    BY <2>1 DEF Manifest
  <2>. QED  BY <2>1, <2>2, DraftIsValid
<1>. QED  BY <1>1, DraftsSoundCorrect, PTL

-----------------------------------------------------------------------------
(* What is applied *)

\* A valid specification of a record has every one of its requirement sentences, and of the
\* sentences it had before each under its identifier and scope.
LEMMA ValidGrows ==
  ASSUME NEW m \in Manifest, About(m), Valid(m)
  PROVE  LET r == m.original IN
         /\ \A n \in DOMAIN r.requirements :
              \E e \in SpecEntries(m.spec) : e.text = r.requirements[n].text
         /\ \A e \in SpecEntries(m.spec) : HasPrior(r.spec, e.text) =>
              LET prior == PriorEntry(r.spec, e.text) IN e.id = prior.id /\ e.scope = prior.scope
<1>. DEFINE r == m.original
            p == m.provenance
<1>1. r \in Problem /\ p \in Seq(Decision)
  BY DEF Manifest
<1>2. m.spec = Projected(p)
  BY DEF Valid
<1>3. \A k \in DOMAIN p : SourceKept(m, p[k]) /\ ClassAllowed(p[k])
  BY DEF Valid
<1>4. ASSUME NEW n \in DOMAIN r.requirements
      PROVE  \E e \in SpecEntries(m.spec) : e.text = r.requirements[n].text
  <2>1. /\ n \in DOMAIN p /\ p[n].source.array = "requirements"
        /\ p[n].source.text = r.requirements[n].text
    BY <1>1, RowsAre DEF About
  <2>2. p[n] \in Decision
    <3>. HIDE DEF p
    <3>. QED  BY <1>1, <2>1
  <2>. DEFINE b == p[n].class
  <2>3. b # "constraint"
    BY <1>3, <2>1 DEF ClassAllowed
  <2>4. b \in Buckets
    BY <2>2, <2>3 DEF Decision
  <2>5. n \in Classed(p, b)
    BY <2>1 DEF Classed
  <2>6. PICK i \in DOMAIN Projected(p)[b] : Projected(p)[b][i] = EntryOf(p[n])
    BY <1>1, <2>4, <2>5, ProjectedIs
  <2>7. EntryOf(p[n]) \in SpecEntries(m.spec)
    BY <1>2, <2>4, <2>6 DEF SpecEntries, Elements
  <2>8. EntryOf(p[n]).text = r.requirements[n].text
    BY <2>1 DEF EntryOf
  <2>. QED  BY <2>7, <2>8
<1>5. ASSUME NEW e \in SpecEntries(m.spec), HasPrior(r.spec, e.text)
      PROVE  e.id = PriorEntry(r.spec, e.text).id /\ e.scope = PriorEntry(r.spec, e.text).scope
  <2>1. PICK b \in Buckets : e \in Elements(Projected(p)[b])
    BY <1>2 DEF SpecEntries
  <2>2. PICK n \in DOMAIN Projected(p)[b] : e = Projected(p)[b][n]
    BY <2>1 DEF Elements
  <2>3. PICK k \in Classed(p, b) : e = EntryOf(p[k])
    BY <1>1, <2>2, ProjectedIs
  <2>4. e.id = p[k].id /\ e.text = p[k].source.text /\ e.scope = p[k].scope
    BY <2>3 DEF EntryOf
  <2>5. SourceKept(m, p[k])
    BY <1>3, <2>3 DEF Classed
  <2>. HIDE DEF p
  <2>. QED  BY <1>5, <2>4, <2>5 DEF SourceKept
<1>. QED  BY <1>4, <1>5

\* Whatever reviewers and editors do, an applied specification is the approved one, has every
\* requirement sentence of the record and every identifier it had, and keeps the identifier and
\* the scope of every sentence it had.
THEOREM SpecificationsGrow == DraftsSpec => SpecificationGrows
<1>. DEFINE Grows ==
       record'.spec # record.spec =>
         LET new == SpecEntries(record'.spec) IN
         /\ manifest.approved = Sealed(manifest) /\ record' = [record EXCEPT !.spec = manifest.spec]
         /\ \A n \in DOMAIN record.requirements : \E e \in new : e.text = record.requirements[n].text
         /\ Ids(record.spec) \subseteq Ids(record'.spec)
         /\ \A e \in new : HasPrior(record.spec, e.text) =>
              LET prior == PriorEntry(record.spec, e.text) IN e.id = prior.id /\ e.scope = prior.scope
<1>1. DraftsSound /\ [DraftsNext]_draftVars => [Grows]_draftVars
  <2>. SUFFICES ASSUME DraftsSound, DraftsNext, record'.spec # record.spec PROVE Grows
    BY DEF draftVars
  <2>1. /\ record \in Problem /\ manifest \in Manifest
        /\ stage # "none" => About(manifest)
    BY SoundIs DEF DraftsTypeOK, Manifest
  <2>2. ApplyApproved
    <3>1. ASSUME NEW rows, EditSentences([record EXCEPT !.requirements = rows]) PROVE FALSE
      BY <2>1, <3>1 DEF EditSentences, Problem
    <3>2. ASSUME NEW rows, EditSentences([record EXCEPT !.constraints = rows]) PROVE FALSE
      BY <2>1, <3>2 DEF EditSentences, Problem
    <3>3. ASSUME NEW n, NEW d, NEW matched, Review(n, d, matched) \/ EditApproved(n, d, matched)
          PROVE FALSE
      BY <3>3 DEF Review, EditApproved, Decide
    <3>. QED  BY <3>1, <3>2, <3>3 DEF DraftsNext, MakeDraft, Approve, DraftsRest, draftVars
  <2>3. /\ stage # "none" /\ Valid(manifest) /\ manifest.approved = Sealed(manifest)
        /\ record = manifest.original
        /\ record' = [record EXCEPT !.spec = manifest.spec]
    BY <2>2 DEF ApplyApproved, Approved, Publishable
  <2>4. record'.spec = manifest.spec
    BY <2>1, <2>3 DEF Problem
  <2>5. Ids(record.spec) \subseteq Ids(manifest.spec)
    BY <2>3 DEF Valid
  <2>6. /\ \A n \in DOMAIN record.requirements :
              \E e \in SpecEntries(manifest.spec) : e.text = record.requirements[n].text
        /\ \A e \in SpecEntries(manifest.spec) : HasPrior(record.spec, e.text) =>
              LET prior == PriorEntry(record.spec, e.text) IN e.id = prior.id /\ e.scope = prior.scope
    BY <2>1, <2>3, ValidGrows
  <2>. QED  BY <2>3, <2>4, <2>5, <2>6
<1>. QED  BY <1>1, DraftsSoundCorrect, PTL DEF DraftsSpec, SpecificationGrows

=============================================================================
