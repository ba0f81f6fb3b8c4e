----------------------- MODULE RequirementsMigration -----------------------
(***************************************************************************)
(* Applying an approved manifest to the problems table, and rolling it     *)
(* back (scripts/requirements_migration.py), while editors change the same *)
(* records.  The script keeps a journal in a local file, saved before and  *)
(* after each write; every write has the state it replaces as condition.   *)
(*                                                                         *)
(* Of a record only what the conditions tell apart is kept: whether the    *)
(* guarded source is still that of the manifest, and which specification   *)
(* it has: the one of the manifest's originals, the one the manifest       *)
(* writes, or another.                                                     *)
(***************************************************************************)
EXTENDS Servers, Naturals, FiniteSets

CONSTANTS
  Last,          \* records of the manifest are 1..Last, in its order
  MaxEdits,      \* bound: editors' changes
  MaxRuns        \* bound: runs of the script

ASSUME MigrationAssumption ==
  /\ Last \in Nat \ {0} /\ MaxEdits \in Nat /\ MaxRuns \in Nat
  /\ None \notin Handlers

Records == 1..Last

VARIABLES
  item,          \* each record of the problems table
  journal,       \* the journal file of each apply
  script,        \* what each process runs
  edits, runs,   \* how many changes and runs there have been
  edited         \* history: what the last editor left of a record, None if nobody came

migrationVars == <<item, journal, script, edits, runs, edited>>

Specs == {"original", "written", "other"}

Record == [source : BOOLEAN, spec : Specs]

Original == [source |-> TRUE, spec |-> "original"]

Written == [source |-> TRUE, spec |-> "written"]

\* An entry is there from the moment its status is not "none".
Entry == {"none", "pending", "applied", "verified", "rolled_back"}

Journal == [status : {"none", "in_progress", "verified", "stopped", "rolled_back",
                      "rollback_stopped"},
            entries : [Records -> Entry]]

NoJournal == [status |-> "none", entries |-> [i \in Records |-> "none"]]

\* While it runs, a process has the only current copy of its journal.
Script == [pc : {"idle", "preflight", "open", "enter", "update", "applied", "readback",
                 "verified", "close", "stop", "check", "found", "restore", "reread", "restored",
                 "finish", "stopBack"},
           at : Nat,                  \* the record it is at
           memory : Journal,
           of : Maybe(Handlers)]      \* whose journal file it writes

NoScript == [pc |-> "idle", at |-> 0, memory |-> NoJournal, of |-> None]

MigrationTypeOK ==
  /\ item \in [Records -> Record]
  /\ journal \in [Handlers -> Journal]
  /\ script \in [Handlers -> Script]
  /\ edits \in Nat /\ runs \in Nat
  /\ edited \in [Records -> Maybe(Record)]

-----------------------------------------------------------------------------
(* Steps *)

ScriptAt(h, pc) == script[h].pc = pc

Turn(h, t) == script' = [script EXCEPT ![h] = t]

OnlyScript == UNCHANGED <<item, journal, edits, runs, edited>>

\* save_journal, with what the process does next.
SaveThen(h, memory, t) ==
  /\ journal' = [journal EXCEPT ![script[h].of] = memory]
  /\ Turn(h, [t EXCEPT !.memory = memory])
  /\ UNCHANGED <<item, edits, runs, edited>>

\* The script ends, by itself or by an error.
Leave(h) == Turn(h, NoScript) /\ OnlyScript

Entered(h, status) == [script[h].memory EXCEPT !.entries[script[h].at] = status]

To(h, pc) == [script[h] EXCEPT !.pc = pc]

\* conditional_update from one state to another: it may be refused or fail, and its answer
\* may be lost, so that the repeated write meets its own effect.
Update(h, from, to, done, failed) ==
  LET i == script[h].at IN
  /\ \/ /\ item[i] = from
        /\ item' = [item EXCEPT ![i] = to]
        /\ \/ Turn(h, To(h, done))
           \/ "resend" \in Faults /\ Turn(h, To(h, failed))
     \/ /\ item[i] # from \/ "abort" \in Faults
        /\ Turn(h, To(h, failed)) /\ UNCHANGED item
  /\ UNCHANGED <<journal, edits, runs, edited>>

-----------------------------------------------------------------------------
(* apply_manifest; require_approval and the drafts are in RequirementDrafts *)

\* An existing journal is never overwritten.
BeginApply(h) ==
  /\ ScriptAt(h, "idle")
  /\ journal[h].status = "none"
  /\ runs < MaxRuns
  /\ runs' = runs + 1
  /\ Turn(h, [NoScript EXCEPT !.pc = "preflight", !.at = 1, !.of = h])
  /\ UNCHANGED <<item, journal, edits, edited>>

\* Every record is checked before the first write.
Preflight(h) ==
  LET i == script[h].at IN
  /\ ScriptAt(h, "preflight")
  /\ IF item[i] # Original THEN Turn(h, NoScript)
     ELSE IF i < Last THEN Turn(h, [script[h] EXCEPT !.at = i + 1])
     ELSE Turn(h, [script[h] EXCEPT !.pc = "open", !.at = 1])
  /\ OnlyScript

OpenJournal(h) ==
  /\ ScriptAt(h, "open")
  /\ SaveThen(h, [NoJournal EXCEPT !.status = "in_progress"], To(h, "enter"))

\* Mutant: the entry is saved with the outcome only.
EnterUnsaved(h) ==
  /\ ScriptAt(h, "enter")
  /\ Turn(h, [To(h, "update") EXCEPT !.memory = Entered(h, "pending")])
  /\ OnlyScript

EnterPending(h) ==
  /\ ScriptAt(h, "enter")
  /\ SaveThen(h, Entered(h, "pending"), To(h, "update"))

\* Mutant: only the specification is a condition.
ApplyUnguarded(h) ==
  /\ ScriptAt(h, "update")
  /\ item' = [item EXCEPT ![script[h].at].spec = "written"]
  /\ Turn(h, To(h, "applied"))
  /\ UNCHANGED <<journal, edits, runs, edited>>

ApplyRecord(h) ==
  /\ ScriptAt(h, "update")
  /\ Update(h, Original, Written, "applied", "stop")

SaveApplied(h) ==
  /\ ScriptAt(h, "applied")
  /\ SaveThen(h, Entered(h, "applied"), To(h, "readback"))

ReadBack(h) ==
  /\ ScriptAt(h, "readback")
  /\ \/ Turn(h, To(h, IF item[script[h].at] = Written THEN "verified" ELSE "stop"))
     \/ "abort" \in Faults /\ Turn(h, To(h, "stop"))
  /\ OnlyScript

SaveVerified(h) ==
  LET i == script[h].at IN
  /\ ScriptAt(h, "verified")
  /\ SaveThen(h, Entered(h, "verified"),
              IF i < Last THEN [To(h, "enter") EXCEPT !.at = i + 1] ELSE To(h, "close"))

CloseJournal(h) ==
  /\ ScriptAt(h, "close")
  /\ SaveThen(h, [script[h].memory EXCEPT !.status = "verified"], NoScript)

\* The error is saved, and nothing is tried again.
StopJournal(h) ==
  /\ ScriptAt(h, "stop")
  /\ SaveThen(h, [script[h].memory EXCEPT !.status = "stopped"], NoScript)

-----------------------------------------------------------------------------
(* rollback_manifest, from the last entry to the first *)

Below(memory, i) == {k \in Records : k < i /\ memory.entries[k] # "none"}

Highest(S) == CHOOSE k \in S : \A m \in S : m <= k

NextBack(t, memory, i) ==
  IF Below(memory, i) = {} THEN [t EXCEPT !.pc = "finish"]
  ELSE [t EXCEPT !.pc = "check", !.at = Highest(Below(memory, i))]

\* Of a journal that no process is writing.
BeginRollback(h, j) ==
  /\ ScriptAt(h, "idle")
  /\ journal[j].status # "none"
  /\ \A k \in Handlers : script[k].of # j
  /\ runs < MaxRuns
  /\ runs' = runs + 1
  /\ Turn(h, NextBack([NoScript EXCEPT !.memory = journal[j], !.of = j],
                      journal[j], Last + 1))
  /\ UNCHANGED <<item, journal, edits, edited>>

\* Mutant: a rollback that meets an edit goes on with the next record.
CheckRecordLeniently(h) ==
  LET i == script[h].at IN
  /\ ScriptAt(h, "check")
  /\ Turn(h, To(h, IF item[i] = Written THEN "restore" ELSE "found"))
  /\ OnlyScript

\* What was never written, or was rolled back already, is left; anything else has to be
\* what was written.
CheckRecord(h) ==
  LET i == script[h].at IN
  /\ ScriptAt(h, "check")
  /\ IF /\ script[h].memory.entries[i] \in {"pending", "rolled_back"}
        /\ item[i] = Original
     THEN Turn(h, To(h, "found"))
     ELSE IF item[i] = Written THEN Turn(h, To(h, "restore")) ELSE Turn(h, NoScript)
  /\ OnlyScript

RestoreRecord(h) ==
  /\ ScriptAt(h, "restore")
  /\ Update(h, Written, Original, "reread", "stopBack")

RereadRecord(h) ==
  /\ ScriptAt(h, "reread")
  /\ \/ Turn(h, To(h, IF item[script[h].at] = Original THEN "restored" ELSE "stopBack"))
     \/ "abort" \in Faults /\ Turn(h, To(h, "stopBack"))
  /\ OnlyScript

SaveRestored(h) ==
  /\ script[h].pc \in {"found", "restored"}
  /\ SaveThen(h, Entered(h, "rolled_back"),
              NextBack(script[h], script[h].memory, script[h].at))

FinishRollback(h) ==
  /\ ScriptAt(h, "finish")
  /\ SaveThen(h, [script[h].memory EXCEPT !.status = "rolled_back"], NoScript)

StopRollback(h) ==
  /\ ScriptAt(h, "stopBack")
  /\ SaveThen(h, [script[h].memory EXCEPT !.status = "rollback_stopped"], NoScript)

\* The disk refuses a save inside the try: the error is saved instead.
FailSave(h) ==
  /\ "abort" \in Faults
  /\ \/ /\ script[h].pc \in {"applied", "verified"}
        /\ Turn(h, [To(h, "stop") EXCEPT !.memory = Entered(h, script[h].pc)])
     \/ /\ ScriptAt(h, "restored")
        /\ Turn(h, [To(h, "stopBack") EXCEPT !.memory = Entered(h, "rolled_back")])
  /\ OnlyScript

\* The process is killed, or a read or a save fails elsewhere.
Kill(h) ==
  /\ "abort" \in Faults
  /\ ~ScriptAt(h, "idle")
  /\ Leave(h)

Run(h) ==
  \/ BeginApply(h) \/ Preflight(h) \/ OpenJournal(h) \/ EnterPending(h) \/ ApplyRecord(h)
  \/ SaveApplied(h) \/ ReadBack(h) \/ SaveVerified(h) \/ CloseJournal(h) \/ StopJournal(h)
  \/ \E j \in Handlers : BeginRollback(h, j)
  \/ CheckRecord(h) \/ RestoreRecord(h) \/ RereadRecord(h) \/ SaveRestored(h)
  \/ FinishRollback(h) \/ StopRollback(h) \/ FailSave(h)
  \/ Kill(h)

\* Someone else changes a guarded field of a record, or changes it back.
EditRecord(i, r) ==
  /\ edits < MaxEdits
  /\ edits' = edits + 1
  /\ r # item[i] /\ r.spec \in {item[i].spec, "other"}
  /\ item' = [item EXCEPT ![i] = r]
  /\ edited' = [edited EXCEPT ![i] = r]
  /\ UNCHANGED <<journal, script, runs>>

MigrationRest ==
  /\ \A h \in Handlers : ScriptAt(h, "idle")
  /\ UNCHANGED migrationVars

MigrationInit ==
  /\ item \in [Records -> {Original, [Original EXCEPT !.source = FALSE]}]
  /\ journal = [h \in Handlers |-> NoJournal]
  /\ script = [h \in Handlers |-> NoScript]
  /\ edits = 0 /\ runs = 0
  /\ edited = [i \in Records |-> None]

MigrationNext ==
  \/ \E h \in Handlers : Run(h)
  \/ \E i \in Records, r \in Record : EditRecord(i, r)
  \/ MigrationRest

MigrationSpec == MigrationInit /\ [][MigrationNext]_migrationVars

-----------------------------------------------------------------------------
(* Safety *)

\* Whatever the migration has written and not taken back, an entry of a journal file
\* stands for, through every failure: it can be rolled back ("previous changes and
\* pending/uncertain writes stay in the journal").
WrittenIsJournaled ==
  \A i \in Records :
    item[i].spec = "written" =>
      \E j \in Handlers : journal[j].entries[i] \in {"pending", "applied", "verified"}

\* What an editor left of a record is never changed by an apply or a rollback, unless it
\* happens to be a state that the manifest names.
EditsStay ==
  \A i \in Records :
    edited[i] \notin {None, Original, Written} => item[i] = edited[i]

\* A journal that says "rolled_back" has undone all of its run: nothing that was written
\* is left but what other journals stand for.
RollbackComplete ==
  \A j \in Handlers :
    journal[j].status = "rolled_back" =>
      \A i \in Records :
        /\ journal[j].entries[i] \in {"none", "rolled_back"}
        /\ item[i].spec = "written" =>
             \E k \in Handlers \ {j} :
               journal[k].entries[i] \in {"pending", "applied", "verified"}

-----------------------------------------------------------------------------
(* The invariant that the proofs use *)

Live == {"pending", "applied", "verified"}

Undone == {"none", "rolled_back"}

JournalSound(m) ==
  \A i \in Records :
    /\ m.status = "none" => m.entries[i] = "none"
    /\ m.status = "rolled_back" => m.entries[i] \in Undone

\* The process has seen that record i has its original and will enter that next.
Clears(s, i) == s.pc \in {"found", "restored"} /\ s.at = i

\* Journal j answers for record i: in its file, and in the copy of the process at work.
Standing(j, i) ==
  /\ journal[j].entries[i] \in Live
  /\ \A h \in Handlers :
       script[h].of = j =>
         script[h].memory.entries[i] \in Live /\ ~Clears(script[h], i)

ApplySound(h) ==
  LET s == script[h] IN
  /\ s.pc \in {"preflight", "open"} =>
       s.of = h /\ s.memory = NoJournal /\ journal[h].status = "none"
  /\ s.pc \in {"enter", "update", "applied", "readback", "verified", "close", "stop"} =>
       s.memory.status = "in_progress"
  /\ s.pc = "update" => Standing(s.of, s.at)

\* A rollback has undone what is above the record it is at.
RollbackSound(h) ==
  LET s == script[h] IN
  /\ s.pc \in {"check", "found", "restore", "reread", "restored"} =>
       \A k \in Records : k > s.at => s.memory.entries[k] \in Undone
  /\ s.pc = "finish" => \A k \in Records : s.memory.entries[k] \in Undone

ScriptSound(h) ==
  LET s == script[h] IN
  /\ s.pc = "idle" <=> s.of = None
  /\ s.pc \notin {"idle", "finish"} => s.at \in Records
  /\ s.pc \notin {"idle", "preflight", "open"} =>
       s.memory.status # "none" /\ journal[s.of].status # "none"
  /\ JournalSound(s.memory)
  /\ ApplySound(h) /\ RollbackSound(h)

MigrationConsistent ==
  /\ MigrationTypeOK
  /\ \A j \in Handlers : JournalSound(journal[j])
  /\ \A h \in Handlers : ScriptSound(h)
  /\ \A h, k \in Handlers : script[h].of = script[k].of => h = k \/ script[h].of = None
  /\ \A i \in Records : item[i].spec = "written" => \E j \in Handlers : Standing(j, i)
  /\ EditsStay

=============================================================================
