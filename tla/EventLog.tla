------------------------------ MODULE EventLog ------------------------------
(***************************************************************************)
(* The file of one session in S3 (services/s3_event_logger.py, and         *)
(* s3_analytics_logger.py in the same form), which background tasks of     *)
(* routers/events.py append to: each reads the file, adds its lines and    *)
(* puts the whole file back without a condition.                           *)
(***************************************************************************)
EXTENDS Servers, FiniteSets

CONSTANTS
  Lines          \* batches of events, one a task

VARIABLES
  file,          \* the lines in S3, None before the first
  append,        \* the task of each batch
  overlapped     \* history: batches that were put while another task had read

ASSUME LogAssumption == \A S \in SUBSET Lines : S # None

logVars == <<file, append, overlapped>>

Append == [pc : {"none", "queued", "put", "repeat", "written", "failed"},
           seen : SUBSET Lines]

LogTypeOK ==
  /\ file \in Maybe(SUBSET Lines)
  /\ append \in [Lines -> Append]
  /\ overlapped \subseteq Lines

AppendAt(l, pc) == append[l].pc = pc

ToStage(l, pc) == append' = [append EXCEPT ![l].pc = pc]

-----------------------------------------------------------------------------

\* ingest_event_batch answers at once and leaves the append to the background.
Queue(l) ==
  /\ AppendAt(l, "none")
  /\ ToStage(l, "queued")
  /\ UNCHANGED <<file, overlapped>>

\* Mutant: a file that cannot be read counts as no file.
GetFileAnyhow(l) ==
  /\ AppendAt(l, "queued")
  /\ \E seen \in {IF file = None THEN {} ELSE file, {}} :
       append' = [append EXCEPT ![l] = [pc |-> "put", seen |-> seen]]
  /\ UNCHANGED <<file, overlapped>>

\* _get_existing_body: no file is an empty one.
GetFile(l) ==
  /\ AppendAt(l, "queued")
  /\ append' = [append EXCEPT ![l] = [pc |-> "put", seen |-> IF file = None THEN {} ELSE file]]
  /\ UNCHANGED <<file, overlapped>>

\* Tasks that have read, and will put back what they read.
Reading == {l \in Lines : append[l].pc \in {"put", "repeat"}}

\* The put, whose answer may be lost so that the client repeats it.
PutFile(l) ==
  /\ l \in Reading
  /\ file' = append[l].seen \cup {l}
  /\ overlapped' = IF Reading = {l} THEN overlapped ELSE overlapped \cup {l}
  /\ \/ ToStage(l, "written")
     \/ AppendAt(l, "put") /\ "resend" \in Faults /\ ToStage(l, "repeat")

\* A call raises, which is logged, or the process stops: the batch is lost.
LoseAppend(l) ==
  /\ "abort" \in Faults
  /\ append[l].pc \in {"queued", "put"}
  /\ ToStage(l, "failed")
  /\ UNCHANGED <<file, overlapped>>

LogRest ==
  /\ \A l \in Lines : append[l].pc \in {"written", "failed"}
  /\ UNCHANGED logVars

LogInit ==
  /\ file = None
  /\ append = [l \in Lines |-> [pc |-> "none", seen |-> {}]]
  /\ overlapped = {}

LogNext ==
  \/ \E l \in Lines : Queue(l) \/ GetFile(l) \/ PutFile(l) \/ LoseAppend(l)
  \/ LogRest

LogSpec == LogInit /\ [][LogNext]_logVars

-----------------------------------------------------------------------------

\* A batch that was written stays in the file, unless another task had read the file by
\* then and was still to put it back: tasks of one session that do not overlap lose
\* nothing, repeated puts included (append_events).
LinesKept ==
  \A l \in Lines : AppendAt(l, "written") => l \in file \/ l \in overlapped

\* The inductive invariant: a batch that was put alone is in the file, and in what every
\* task has read since.
LogConsistent ==
  /\ LogTypeOK
  /\ \A l \in Lines \ overlapped :
       append[l].pc \in {"repeat", "written"} =>
         /\ file # None /\ l \in file
         /\ \A m \in Reading \ {l} : l \in append[m].seen

=============================================================================
