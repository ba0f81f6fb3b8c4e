--------------------------- MODULE QueryBackfill ---------------------------
(***************************************************************************)
(* The backfill of scripts/migrate_query_optimization.py, which gives      *)
(* older records what the indexes of this version need: problems a slug,   *)
(* public attempts their place on the leaderboard, collaborators their     *)
(* membership rows.  It may stop at every call and be started again.       *)
(*                                                                         *)
(* docs/query-optimization-migration.md asks for writes to be paused; here *)
(* they are not, so that the conditions of the script are put to the test. *)
(* Catalogue editors are outside the repository and write any title and    *)
(* slug; attempts and collaborators are written as by DynamoDBService,     *)
(* each change in one step (AttemptStore, CollaboratorList).               *)
(***************************************************************************)
EXTENDS Servers, Naturals, FiniteSets

CONSTANTS
  Problems, Titles, Slugs,
  SlugOf,         \* problem_slug: None for a title that gives no slug
  Attempts, Scores,
  Designs, People, Rights,   \* Rights: the permissions of a collaborator
  MaxStarts,      \* bound: runs of the script
  MaxWrites       \* bound: writes of everyone else

ASSUME BackfillAssumption ==
  /\ None \notin Titles /\ None \notin Slugs /\ None \notin Scores /\ None \notin Rights
  /\ SlugOf \in [Titles -> Maybe(Slugs)]
  /\ MaxStarts \in Nat /\ MaxWrites \in Nat

VARIABLES
  problem,    \* the row of each problem
  attempt,    \* the item of each attempt
  design,     \* the collaborators of each design, None without a design
  member,     \* the membership rows of each design
  resource,   \* the table and the indexes that the script provides
  job,        \* the run: its stage, the keys it has yet to scan, the rows it has read
  starts,     \* runs that have begun
  writes,     \* writes of everyone else; their number is a time
  touched,    \* history: problems and designs written since this run began
  done        \* history: stages this run has finished

backfillVars == <<problem, attempt, design, member, resource, job,
                  starts, writes, touched, done>>

ProblemRow == [title : Titles, slug : Maybe(Slugs)]

AttemptItem == [public : BOOLEAN,
                score : Maybe(Scores),    \* of an assessment that qualifies
                at : Nat,                 \* updatedAt
                listed : Maybe(Scores)]   \* leaderboardScore

Collaborators == [People -> Maybe(Rights)]

Alone == [u \in People |-> None]

\* What each stage provides, and which stage follows.
Provides == [table |-> "shares", slugIndex |-> "slug", boardIndex |-> "leaderboard"]

After == [table |-> "scan", scan |-> "fill", fill |-> "board", board |-> "shares",
          shares |-> "slugIndex", slugIndex |-> "boardIndex", boardIndex |-> "rest"]

Stages == DOMAIN After

Waiting == [stage |-> "rest", todo |-> {}, page |-> {}]

ProblemRead == [id : Problems, row : ProblemRow]

AttemptRead == [id : Attempts, row : AttemptItem]

Put == [id : Designs, who : People, right : Rights]

Job == [stage : Stages \cup {"rest"},
        todo : SUBSET (Problems \cup Attempts \cup Designs),
        page : SUBSET (ProblemRead \cup AttemptRead \cup Put)]

BackfillTypeOK ==
  /\ problem \in [Problems -> ProblemRow]
  /\ attempt \in [Attempts -> AttemptItem]
  /\ design \in [Designs -> Maybe(Collaborators)]
  /\ member \in [Designs -> Collaborators]
  /\ resource \in [{"shares", "slug", "leaderboard"} ->
                     {"none", "building", "active", "other"}]
  /\ job \in Job
  /\ starts \in Nat /\ writes \in Nat
  /\ touched \subseteq Problems \cup Designs
  /\ done \subseteq Stages

-----------------------------------------------------------------------------
(* The script *)

Data == <<problem, attempt, design, member>>

Keys == [table |-> {}, scan |-> Problems, fill |-> {}, board |-> Attempts,
         shares |-> Designs, slugIndex |-> {}, boardIndex |-> {}, rest |-> {}]

At(stage) == job.stage = stage /\ UNCHANGED <<starts, writes, touched>>

\* The stage is finished and the next one begins with these rows.
Proceed(rows) ==
  LET next == After[job.stage] IN
  /\ job' = [stage |-> next, todo |-> Keys[next], page |-> rows]
  /\ done' = done \cup {job.stage}

\* The run ends with an error.
Fail == job' = Waiting /\ UNCHANGED done

Start ==
  /\ job.stage = "rest"
  /\ starts < MaxStarts
  /\ starts' = starts + 1
  /\ job' = [Waiting EXCEPT !.stage = "table"]
  /\ touched' = {} /\ done' = {}
  /\ UNCHANGED <<Data, resource, writes>>

\* _ensure_shares_table, _ensure_index, _wait_for_index: an existing one must have the
\* expected keys; a new one, or one still being built, is waited for.
Provide ==
  /\ job.stage \in DOMAIN Provides
  /\ At(job.stage)
  /\ LET r == Provides[job.stage] IN
     \/ /\ resource[r] = "none"
        /\ resource' = [resource EXCEPT ![r] = "building"]
        /\ UNCHANGED <<job, done>>
     \/ resource[r] = "active" /\ Proceed({}) /\ UNCHANGED resource
     \/ resource[r] \in {"building", "other"} /\ Fail /\ UNCHANGED resource
  /\ UNCHANGED Data

\* The table or the index becomes active.
Built ==
  /\ \E r \in DOMAIN resource :
       /\ resource[r] = "building"
       /\ resource' = [resource EXCEPT ![r] = "active"]
  /\ UNCHANGED <<Data, job, starts, writes, touched, done>>

\* A page of a scan: some of the items, as they are now.
ReadPage(table) ==
  \E keys \in SUBSET job.todo \ {{}} :
    job' = [job EXCEPT !.todo = @ \ keys,
                       !.page = @ \cup {[id |-> k, row |-> table[k]] : k \in keys}]

\* _scan_problem_rows
ScanProblems ==
  /\ At("scan")
  /\ ReadPage(problem)
  /\ UNCHANGED <<Data, resource, done>>

Missing(read) == read.row.slug = None

\* _problem_slug_candidate: the slug there is, or the one its title gives.
Effective(read) == IF Missing(read) THEN SlugOf[read.row.title] ELSE read.row.slug

\* _collect_problem_slug_candidates, _assert_unique_problem_slugs
CheckSlugs ==
  /\ At("scan")
  /\ job.todo = {}
  /\ IF \E read \in job.page :
          \/ Effective(read) = None
          \/ \E other \in job.page : other.id # read.id /\ Effective(other) = Effective(read)
     THEN Fail
     ELSE Proceed({read \in job.page : Missing(read)})
  /\ UNCHANGED <<Data, resource>>

\* _problem_slug_update, _backfill_problem_slug: only if the title is the one that was
\* read and there is still no slug.
FillSlug ==
  /\ At("fill")
  /\ \E read \in job.page :
       IF problem[read.id] = read.row
       THEN /\ problem' = [problem EXCEPT ![read.id].slug = Effective(read)]
            /\ job' = [job EXCEPT !.page = @ \ {read}]
            /\ UNCHANGED done
       ELSE Fail /\ UNCHANGED problem
  /\ UNCHANGED <<attempt, design, member, resource>>

\* The rows of a page are dealt with before the next page is read.
ScanAttempts ==
  /\ At("board")
  /\ job.page = {}
  /\ ReadPage(attempt)
  /\ UNCHANGED <<Data, resource, done>>

\* Mutant: the attempt may have been saved since.
StillPublic(read) == attempt[read.id].public

\* _leaderboard_update_request: public, and not saved since.
UnchangedSince(read) == attempt[read.id].public /\ attempt[read.id].at = read.row.at

\* _backfill_leaderboard_item
ListAttempt ==
  /\ At("board")
  /\ \E read \in job.page :
       LET row == read.row
           wanted == row.public /\ row.score # None /\ row.listed # row.score
       IN  /\ IF wanted /\ ~UnchangedSince(read)
              THEN Fail
              ELSE job' = [job EXCEPT !.page = @ \ {read}] /\ UNCHANGED done
           /\ attempt' = IF wanted /\ UnchangedSince(read)
                         THEN [attempt EXCEPT ![read.id].listed = row.score]
                         ELSE attempt
  /\ UNCHANGED <<problem, design, member, resource>>

\* _diagram_share_items: a row for each collaborator of the designs as they were read.
ShareItems(d) ==
  IF design[d] = None THEN {}
  ELSE {[id |-> d, who |-> u, right |-> design[d][u]] :
          u \in {v \in People : design[d][v] # None}}

ScanDesigns ==
  /\ At("shares")
  /\ job.page = {}
  /\ \E keys \in SUBSET job.todo \ {{}} :
       job' = [job EXCEPT !.todo = @ \ keys, !.page = UNION {ShareItems(d) : d \in keys}]
  /\ UNCHANGED <<Data, resource, done>>

\* _backfill_diagram_shares: a row is put whatever is there by now.
PutMember ==
  /\ At("shares")
  /\ \E put \in job.page :
       /\ member' = [member EXCEPT ![put.id][put.who] = put.right]
       /\ job' = [job EXCEPT !.page = @ \ {put}]
  /\ UNCHANGED <<problem, attempt, design, resource, done>>

\* The last page of the stage has been dealt with.
FinishStage ==
  /\ job.stage \in {"fill", "board", "shares"}
  /\ At(job.stage)
  /\ job.page = {} /\ job.todo = {}
  /\ Proceed({})
  /\ UNCHANGED <<Data, resource>>

\* A call fails or the process stops.
Interrupt ==
  /\ "abort" \in Faults
  /\ job.stage # "rest"
  /\ At(job.stage)
  /\ Fail
  /\ UNCHANGED <<Data, resource>>

-----------------------------------------------------------------------------
(* Everyone else *)

Write(what) ==
  /\ writes < MaxWrites
  /\ writes' = writes + 1
  /\ touched' = touched \cup what
  /\ UNCHANGED <<resource, job, starts, done>>

EditProblem ==
  \E p \in Problems, row \in ProblemRow :
    /\ row # problem[p]
    /\ problem' = [problem EXCEPT ![p] = row]
    /\ Write({p})
    /\ UNCHANGED <<attempt, design, member>>

ChangeAttempt(a, public, score, at) ==
  /\ attempt' = [attempt EXCEPT ![a] =
                   [public |-> public, score |-> score, at |-> at,
                    listed |-> IF public THEN score ELSE None]]
  /\ Write({})
  /\ UNCHANGED <<problem, design, member>>

\* _build_attempt_item, _attempt_update_fields: an attempt that qualifies keeps its place.
SaveAttempt ==
  \E a \in Attempts, score \in Maybe(Scores) :
    ChangeAttempt(a, attempt[a].public, score, writes + 1)

\* publish_attempt: only with a score.
PublishAttempt ==
  \E a \in Attempts :
    /\ attempt[a].score # None
    /\ ChangeAttempt(a, TRUE, attempt[a].score, attempt[a].at)

UnpublishAttempt ==
  \E a \in Attempts : ChangeAttempt(a, FALSE, attempt[a].score, attempt[a].at)

\* _persist_collaborator_change: the row of someone removed is put again.
ChangeCollaborator ==
  \E d \in Designs, u \in People, right \in Maybe(Rights) :
    /\ resource["shares"] = "active"
    /\ design[d] # None
    /\ right = None => design[d][u] # None
    /\ design' = [design EXCEPT ![d][u] = right]
    /\ member' = [member EXCEPT ![d][u] = IF right = None THEN design[d][u] ELSE right]
    /\ Write({d})
    /\ UNCHANGED <<problem, attempt>>

\* delete_diagram, with all of its rows.
DeleteDesign ==
  \E d \in Designs :
    /\ resource["shares"] = "active"
    /\ design[d] # None
    /\ design' = [design EXCEPT ![d] = None]
    /\ member' = [member EXCEPT ![d] =
                    [u \in People |-> IF design[d][u] = None THEN @[u] ELSE None]]
    /\ Write({d})
    /\ UNCHANGED <<problem, attempt>>

\* No more runs and no more writes.
BackfillRest ==
  /\ job.stage = "rest"
  /\ starts = MaxStarts /\ writes = MaxWrites
  /\ UNCHANGED backfillVars

\* Records of before this version: attempts are on no leaderboard yet, and collaborators
\* have rows only if the table is there.
BackfillInit ==
  /\ problem \in [Problems -> ProblemRow]
  /\ attempt \in [Attempts -> {item \in AttemptItem : item.at = 0 /\ item.listed = None}]
  /\ design \in [Designs -> Collaborators]
  /\ member = [d \in Designs |-> Alone]
  /\ resource \in [{"shares", "slug", "leaderboard"} -> {"none", "active", "other"}]
  /\ job = Waiting
  /\ starts = 0 /\ writes = 0
  /\ touched = {} /\ done = {}

BackfillNext ==
  \/ Start \/ Provide \/ Built
  \/ ScanProblems \/ CheckSlugs \/ FillSlug
  \/ ScanAttempts \/ ListAttempt
  \/ ScanDesigns \/ PutMember
  \/ FinishStage \/ Interrupt
  \/ EditProblem
  \/ SaveAttempt \/ PublishAttempt \/ UnpublishAttempt
  \/ ChangeCollaborator \/ DeleteDesign
  \/ BackfillRest

BackfillSpec == BackfillInit /\ [][BackfillNext]_backfillVars

-----------------------------------------------------------------------------
(* Safety *)

\* Although nobody pauses, and a run may stop anywhere and be repeated: the leaderboard
\* shows an attempt only while it is public, and with the score that it has; once a run
\* has gone through the attempts, all that are public and scored are on it; problems
\* that nobody edited meanwhile have slugs, each its own; and the collaborators of a
\* design that nobody changed meanwhile have rows with their permissions
\* (_leaderboard_update_request, _problem_slug_update, _backfill_diagram_shares).
IndexesTrue ==
  /\ \A a \in Attempts :
       attempt[a].listed # None =>
         attempt[a].public /\ attempt[a].listed = attempt[a].score
  /\ "board" \in done =>
       \A a \in Attempts : attempt[a].public => attempt[a].listed = attempt[a].score
  /\ "fill" \in done =>
       \A p, q \in Problems \ touched :
         problem[p].slug # None /\ (p # q => problem[p].slug # problem[q].slug)
  /\ "shares" \in done =>
       \A d \in Designs \ touched, u \in People :
         design[d] # None => design[d][u] \in {None, member[d][u]}

-----------------------------------------------------------------------------
(* The invariant that the proofs use: IndexesTrue in parts, and what each  *)
(* stage knows of the records it has read.                                 *)

OnBoard(a) == attempt[a].public => attempt[a].listed = attempt[a].score

BoardTrue ==
  /\ \A a \in Attempts : attempt[a].listed # None => attempt[a].public /\ OnBoard(a)
  /\ "board" \in done => \A a \in Attempts : OnBoard(a)

\* The slug that the script gives or leaves to a problem.
Slug(p) == IF problem[p].slug = None THEN SlugOf[problem[p].title] ELSE problem[p].slug

OwnSlugs ==
  \A p, q \in Problems \ touched : Slug(p) # None /\ (p # q => Slug(p) # Slug(q))

SlugsTrue ==
  "fill" \in done =>
    OwnSlugs /\ \A p \in Problems \ touched : problem[p].slug # None

\* The collaborator u of design d, if one, has a row with the permission.
HasRow(d, u) == design[d] # None => design[d][u] \in {None, member[d][u]}

SharesTrue ==
  "shares" \in done => \A d \in Designs \ touched, u \in People : HasRow(d, u)

AsRead(p) == [id |-> p, row |-> problem[p]]

ScanSound ==
  job.stage = "scan" =>
    /\ job.page \subseteq ProblemRead /\ job.todo \subseteq Problems
    /\ \A p \in Problems \ touched : p \in job.todo \/ AsRead(p) \in job.page

FillSound ==
  job.stage = "fill" =>
    /\ job.page \subseteq ProblemRead
    /\ OwnSlugs
    /\ \A p \in Problems \ touched : problem[p].slug # None \/ AsRead(p) \in job.page

\* Of an attempt that was not saved since, the score that was read is the score.
BoardSound ==
  job.stage = "board" =>
    /\ job.page \subseteq AttemptRead /\ job.todo \subseteq Attempts
    /\ \A read \in job.page :
         LET item == attempt[read.id] IN
         /\ read.row.at <= writes
         /\ item.at = read.row.at => item.score = read.row.score
         /\ item = read.row \/ OnBoard(read.id)
    /\ \A a \in Attempts :
         a \in job.todo \/ OnBoard(a) \/ \E read \in job.page : read.id = a

SharesSound ==
  job.stage = "shares" =>
    /\ job.page \subseteq Put /\ job.todo \subseteq Designs
    /\ \A put \in job.page :
         put.id \notin touched =>
           design[put.id] # None /\ design[put.id][put.who] = put.right
    /\ \A d \in Designs \ touched, u \in People :
         \/ d \in job.todo
         \/ HasRow(d, u)
         \/ \E put \in job.page : put.id = d /\ put.who = u

BackfillConsistent ==
  /\ BackfillTypeOK
  /\ \A a \in Attempts : attempt[a].at <= writes
  /\ BoardTrue /\ SlugsTrue /\ SharesTrue
  /\ ScanSound /\ FillSound /\ BoardSound /\ SharesSound

=============================================================================
