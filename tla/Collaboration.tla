---------------------------- MODULE Collaboration ----------------------------
(***************************************************************************)
(* Live collaboration on one design: the WebSocket endpoints of            *)
(* routers/collaboration.py in one server process.                         *)
(*                                                                         *)
(* The endpoints are tasks of one event loop: what a task does between two *)
(* awaits is one step, and every send is an await.  They share the list of *)
(* connections, which a broadcast iterates by position while others append *)
(* to it, take dead connections off it in place, or bind its name to a new *)
(* list; and the one debounced save.                                       *)
(*                                                                         *)
(* Connections are numbered in the order in which they arrive and each is  *)
(* appended once, so that a list is the set of its members: their order is *)
(* that of their numbers.                                                  *)
(*                                                                         *)
(* The owner changes permissions at any time, so that each check of access *)
(* may go either way and keeps no state here.  Connections that are        *)
(* refused, and messages that only get a reply (malformed, unknown, too    *)
(* many, of a reader, pings), change nothing and are left out.             *)
(***************************************************************************)
EXTENDS Naturals, FiniteSets

CONSTANTS
  MaxConnections,  \* bound: connections that ever arrive
  Users,
  None,
  MaxUpdates,      \* bound: updates that are accepted
  Faults           \* {"restart"}: a new process knows of no connection and no save; or {}

ASSUME CollaborationAssumption ==
  /\ MaxConnections \in Nat
  /\ None \notin Users
  /\ MaxUpdates \in Nat
  /\ Faults \subseteq {"restart"}

Connections == 1..MaxConnections

VARIABLES
  entry,      \* active_connections has an entry for the design
  list,       \* that entry
  user,       \* of each connection
  pc,         \* of each endpoint
  cast,       \* the broadcast of each endpoint
  gone,       \* connections that are closed, whether or not anyone noticed
  accepted,   \* how many updates were accepted: they are numbered 1 .. accepted
  tasks,      \* save tasks that sleep: the update of each
  settled     \* the update whose save was last carried out, or forgotten by a restart

vars == <<entry, list, user, pc, cast, gone, accepted, tasks, settled>>

Broadcasting == {"joining", "updating", "moving", "leaving"}

\* Endpoints whose connection belongs on the list.
Serving == {"joining", "welcome", "receive", "updating", "moving"}

\* notify_collaborators as a loop over a list that others change.
Broadcast == [live : BOOLEAN,               \* it iterates the list of the entry
              old : SUBSET Connections,     \* or the one the entry had before
              at : Nat,                     \* the next position, from 0
              exclude : Users \cup {None},
              dead : SUBSET Connections,    \* sends that raised
              due : SUBSET Connections,     \* listed when it began, and not sent to yet
              disturbed : BOOLEAN]          \* since, someone was taken off in place

NoBroadcast == [live |-> FALSE, old |-> {}, at |-> 0, exclude |-> None, dead |-> {},
                due |-> {}, disturbed |-> FALSE]

TypeOK ==
  /\ entry \in BOOLEAN
  /\ list \subseteq Connections
  /\ user \in [Connections -> Users \cup {None}]
  /\ pc \in [Connections -> Serving \cup {"new", "leaving", "done"}]
  /\ cast \in [Connections -> Broadcast]
  /\ gone \subseteq Connections
  /\ accepted \in 0..MaxUpdates
  /\ tasks \subseteq 1..MaxUpdates
  /\ settled \in 0..MaxUpdates

-----------------------------------------------------------------------------
(* Broadcasts *)

Iterated(c) == IF cast[c].live THEN list ELSE cast[c].old

Position(x, connections) == Cardinality({y \in connections : y < x})

\* Whom the loop has still to send to; the user's own connections are passed over
\* without an await.
Ahead(c) ==
  {x \in Iterated(c) : /\ Position(x, Iterated(c)) >= cast[c].at
                       /\ user[x] # cast[c].exclude}

Started(connections, exclude) ==
  [live |-> TRUE, old |-> {}, at |-> 0, exclude |-> exclude, dead |-> {},
   due |-> {x \in connections : user[x] # exclude}, disturbed |-> FALSE]

Close(c) == gone' = gone \cup {c}

\* One send: to a closed connection it raises, or is not yet known to be lost.
Send(c) ==
  /\ pc[c] \in Broadcasting
  /\ \E x \in Ahead(c) :
       /\ \A y \in Ahead(c) : x <= y
       /\ \E dead \in {{}} \cup (IF x \in gone THEN {{x}} ELSE {}) :
            cast' = [cast EXCEPT ![c].at = Position(x, Iterated(c)) + 1,
                                 ![c].due = @ \ {x},
                                 ![c].dead = @ \cup dead]
  /\ UNCHANGED <<entry, list, user, pc, gone, accepted, tasks, settled>>

\* Mutant: with a dead connection, all those of its user.
CleanedOfUsers(dead) == {x \in list : \A y \in dead : user[x] # user[y]}

\* The list of the entry without the dead connections.
Cleaned(dead) == list \ dead

\* Where an endpoint is when its broadcast returns.
After(phase) ==
  CASE phase = "joining" -> "welcome"
    [] phase = "leaving" -> "done"
    [] OTHER             -> "receive"

\* Another broadcast when connections are taken off the list in place.
Disturbed(d) ==
  IF cast[d].live /\ list' # list THEN [cast[d] EXCEPT !.disturbed = TRUE] ELSE cast[d]

\* The end of the loop, and the removal of the dead connections.
EndBroadcast(c) ==
  /\ pc[c] \in Broadcasting
  /\ Ahead(c) = {}
  /\ cast[c].dead = {} \/ entry
  /\ list' = Cleaned(cast[c].dead)
  /\ cast' = [d \in Connections |-> IF d = c THEN NoBroadcast ELSE Disturbed(d)]
  /\ pc' = [pc EXCEPT ![c] = After(pc[c])]
  /\ UNCHANGED <<entry, user, gone, accepted, tasks, settled>>

\* The removal raises a KeyError when the entry is gone.  An update reports it to its
\* sender, if it can; another endpoint ends, and finds nothing to remove.
FailBroadcast(c) ==
  /\ pc[c] \in Broadcasting
  /\ Ahead(c) = {}
  /\ cast[c].dead # {} /\ ~entry
  /\ cast' = [cast EXCEPT ![c] = NoBroadcast]
  /\ \/ /\ pc[c] = "updating"
        /\ pc' = [pc EXCEPT ![c] = "receive"]
        /\ UNCHANGED gone
     \/ /\ pc[c] = "updating" => c \in gone
        /\ pc' = [pc EXCEPT ![c] = "done"]
        /\ Close(c)
  /\ UNCHANGED <<entry, list, user, accepted, tasks, settled>>

-----------------------------------------------------------------------------
(* Endpoints *)

\* The endpoint up to its first send: authentication, the place on the list, the data
\* for the welcome, and the broadcast to others that a user joined.
Connect(c) ==
  /\ pc[c] = "new"
  /\ \A d \in 1..(c - 1) : pc[d] # "new"
  /\ \E u \in Users : user' = [user EXCEPT ![c] = u]
  /\ entry' = TRUE
  /\ list' = list \cup {c}
  /\ pc' = [pc EXCEPT ![c] = "joining"]
  /\ cast' = [cast EXCEPT ![c] = Started(list, user'[c])]
  /\ UNCHANGED <<gone, accepted, tasks, settled>>

Welcome(c) ==
  /\ pc[c] = "welcome"
  /\ pc' = [pc EXCEPT ![c] = "receive"]
  /\ UNCHANGED <<entry, list, user, cast, gone, accepted, tasks, settled>>

\* Without an entry there is nobody to tell.
BeginBroadcast(c, phase, exclude) ==
  /\ pc[c] = "receive"
  /\ IF entry
     THEN /\ pc' = [pc EXCEPT ![c] = phase]
          /\ cast' = [cast EXCEPT ![c] = Started(list, exclude)]
     ELSE UNCHANGED <<pc, cast>>
  /\ UNCHANGED <<entry, list, user, gone, settled>>

\* A cursor_move, which the other users are told of.
MoveCursor(c) ==
  /\ BeginBroadcast(c, "moving", user[c])
  /\ UNCHANGED <<accepted, tasks>>

\* Mutant: the save that sleeps is not cancelled.
ScheduledBeside(update) == tasks \cup {update}

\* Mutant: a save that sleeps is left to do the work.
ScheduledOnce(update) == IF tasks = {} THEN {update} ELSE tasks

\* debounced_save_diagram: the new task takes the place of one that still sleeps.
Scheduled(update) == {update}

\* A diagram_update of someone who may edit; everyone is told, the sender too.
Update(c) ==
  /\ accepted < MaxUpdates
  /\ accepted' = accepted + 1
  /\ tasks' = Scheduled(accepted')
  /\ BeginBroadcast(c, "updating", None)

\* Mutant: the user stays as long as another connection of theirs is listed.
RemainingTabs(c) ==
  IF \E x \in list : x # c /\ user[x] = user[c] THEN list
  ELSE {x \in list : user[x] # user[c]}

\* _remove_collaborator keeps the connections of the other users.
Remaining(c) == {x \in list : user[x] # user[c]}

\* Mutant: the broadcast sees the list that everyone sees.
Followed(d) == cast[d]

\* A broadcast that runs when the entry is bound to a new list goes on with the old one.
Frozen(d) ==
  IF cast[d].live THEN [cast[d] EXCEPT !.live = FALSE, !.old = list] ELSE cast[d]

\* The end of an endpoint up to the broadcast that the user left; with nobody left the
\* entry is deleted, and without an entry there is nothing to do.
Leave(c) ==
  /\ pc[c] \in {"welcome", "receive"}
  /\ list' = Remaining(c)
  /\ entry' = (entry /\ list' # {})
  /\ pc' = [pc EXCEPT ![c] = IF entry' THEN "leaving" ELSE "done"]
  /\ UNCHANGED <<user, accepted, tasks, settled>>
  /\ cast' = [d \in Connections |->
       IF d # c THEN Frozen(d) ELSE IF entry' THEN Started(list', None) ELSE NoBroadcast]
  /\ Close(c)

\* The welcome, a reply or the next receive shows that the connection is closed.
Disconnect(c) == c \in gone /\ Leave(c)

\* The session is found to be invalid or revoked, at most five seconds late.
Expire(c) == pc[c] = "receive" /\ Leave(c)

-----------------------------------------------------------------------------
(* The save, and what happens around the endpoints *)

\* The body of save_after_delay, which has no await.  The user's access is looked up
\* again and the design written, or the failure logged: either way the save is over.
Save(update) ==
  /\ update \in tasks
  /\ tasks' = tasks \ {update}
  /\ settled' = update
  /\ UNCHANGED <<entry, list, user, pc, cast, gone, accepted>>

\* A tab is closed, or its connection lost.
Lose(c) ==
  /\ pc[c] \in Serving
  /\ c \notin gone
  /\ Close(c)
  /\ UNCHANGED <<entry, list, user, pc, cast, accepted, tasks, settled>>

\* The process ends and another takes its place, which knows of nobody and has no save
\* to carry out: what slept is lost.
Restart ==
  /\ "restart" \in Faults
  /\ entry \/ tasks # {}
  /\ entry' = FALSE
  /\ list' = {}
  /\ pc' = [c \in Connections |-> IF pc[c] = "new" THEN "new" ELSE "done"]
  /\ cast' = [c \in Connections |-> NoBroadcast]
  /\ gone' = {c \in Connections : pc[c] # "new"}
  /\ tasks' = {}
  /\ settled' = accepted
  /\ UNCHANGED <<user, accepted>>

\* Every connection has come and gone.
Rest ==
  /\ \A c \in Connections : pc[c] = "done"
  /\ tasks = {}
  /\ UNCHANGED vars

Init ==
  /\ entry = FALSE
  /\ list = {}
  /\ user = [c \in Connections |-> None]
  /\ pc = [c \in Connections |-> "new"]
  /\ cast = [c \in Connections |-> NoBroadcast]
  /\ gone = {}
  /\ accepted = 0
  /\ tasks = {}
  /\ settled = 0

Endpoint(c) ==
  \/ Connect(c)
  \/ Send(c)
  \/ EndBroadcast(c)
  \/ FailBroadcast(c)
  \/ Welcome(c)
  \/ MoveCursor(c)
  \/ Update(c)
  \/ Disconnect(c)
  \/ Expire(c)

Next ==
  \/ \E c \in Connections : Endpoint(c) \/ Lose(c)
  \/ \E update \in tasks : Save(update)
  \/ Restart
  \/ Rest

Spec == Init /\ [][Next]_vars

\* The event loop resumes every task that can go on: a send ends, if only because the
\* server closes a connection that answers no pings; a receive returns after five
\* seconds at the latest, and the messages before a disconnect are finitely many; the
\* sleep of a save that is not cancelled ends.
Fairness ==
  /\ \A c \in Connections :
       /\ WF_vars(Send(c) \/ EndBroadcast(c) \/ FailBroadcast(c) \/ Welcome(c))
       /\ SF_vars(Disconnect(c))
  /\ \A update \in 1..MaxUpdates : WF_vars(Save(update))

FairSpec == Spec /\ Fairness

-----------------------------------------------------------------------------
(* Properties *)

\* Although several tasks change the list, or rebind it, between each other's awaits,
\* whoever is on it has an endpoint that has still to take them off, and a list that
\* is not empty is never forgotten.
ListedServed ==
  /\ \A c \in list : pc[c] \in Serving
  /\ list # {} => entry

\* A broadcast reaches everyone who was on the list when it began, unless another
\* broadcast takes someone off the list meanwhile (notify_collaborators): connects and
\* disconnects at any of its awaits make it miss nobody.
MissesExplained ==
  \A c \in Connections :
    pc[c] \in Broadcasting /\ ~cast[c].disturbed => cast[c].due \subseteq Ahead(c)

\* An open connection is on the list unless another connection of the same user has
\* left (_remove_collaborator): broadcasts take only closed connections off.
UnlistedExplained ==
  \A c \in Connections :
    pc[c] \in Serving /\ c \notin gone =>
      \/ c \in list
      \/ \E d \in Connections \ {c} : user[d] = user[c] /\ pc[d] \in {"leaving", "done"}

\* What a broadcast knows: everyone it iterates has arrived, and who is dead is gone.
BroadcastOK(c) ==
  /\ \A x \in cast[c].old : pc[x] # "new"
  /\ cast[c].dead \subseteq gone

\* The inductive invariant: connections arrive in order, so that appending one leaves
\* the positions of the others alone, and only the newest update waits to be saved.
Consistent ==
  /\ TypeOK
  /\ \A c, d \in Connections : c < d /\ pc[c] = "new" => pc[d] = "new"
  /\ \A c \in Connections : BroadcastOK(c)
  /\ ListedServed
  /\ MissesExplained
  /\ UnlistedExplained
  /\ tasks \subseteq {accepted}

\* A save stores the newest update that was accepted, although the one before it may
\* be about to be stored when it comes (debounced_save_diagram).
SavesNewest == [][settled' # settled => settled' = accepted]_vars

\* The save of every update is carried out, or of a newer one, unless the process ends
\* first: with bounded updates, that is, people who pause for five seconds, no save is
\* put off for ever or lost among the tasks that cancel each other
\* (debounced_save_diagram).
SaveSettles == \A n \in 1..MaxUpdates : (accepted >= n) ~> (settled >= n)

\* A connection that is gone leaves the list, whatever its endpoint was doing.
GoneAreUnlisted == \A c \in Connections : (c \in gone) ~> (c \notin list)

=============================================================================
