------------------------------ MODULE Accounts ------------------------------
(***************************************************************************)
(* The accounts of one e-mail address: sign-up, activation by a mailed     *)
(* link, sign-in with Google and edits of the profile, of routers/auth.py  *)
(* over the users table of DynamoDBService.                                *)
(*                                                                         *)
(* Accounts are found by address and by Google identity in global indexes, *)
(* which follow the table with a delay; reading and writing are separate   *)
(* calls.  A link is saved before it is mailed, and taken back when the    *)
(* mail could not be sent.  A link's number stands for its hash, the time  *)
(* it was sent and the time it expires, which are written together; clocks *)
(* are left out: whether a link has expired, or is too recent to be        *)
(* replaced, is open whenever the code asks.                               *)
(***************************************************************************)
EXTENDS Servers, Naturals, FiniteSets

CONSTANTS
  Ids,           \* bound: ids of accounts, fresh for each of them
  Fields,        \* attributes that a user or an administrator edits one by one
  MaxVisits      \* bound: requests and edits that ever arrive

VARIABLES
  users,         \* the table: the account of each id, or None
  index,         \* what the indexes have of it
  visit,         \* the request of each handler
  links,         \* number of the newest link
  mails,         \* links that reached the mailbox
  visits,        \* requests and edits that have arrived
  sent,          \* history: links whose mail was accepted, as the client was told
  used, reused,  \* history: links that activated an account, once and again
  restored,      \* history: links that a failed delivery put back
  edits          \* history: edits that were acknowledged

accountVars == <<users, index, visit, links, mails, visits,
                 sent, used, reused, restored, edits>>

User == [verified : BOOLEAN, google : BOOLEAN,
         link : Nat,                   \* 0: no link is pending
         details : [Fields -> Nat]]

ASSUME AccountsAssumption == MaxVisits \in Nat /\ None \notin Ids \cup User

Link == [id : Ids, number : Nat]

Visit == [op : {"none", "signup", "resend", "verify", "google"},
          pc : {"idle", "lookup", "create", "put", "refind", "issue", "send",
                "restore", "mark", "identity", "link"},
          id : Maybe(Ids),
          read : Maybe(User),          \* the account as this request read it
          number : Nat]                \* the link it made or was given

NoVisit == [op |-> "none", pc |-> "idle", id |-> None, read |-> None, number |-> 0]

AccountsTypeOK ==
  /\ users \in [Ids -> Maybe(User)]
  /\ index \in [Ids -> Maybe(User)]
  /\ visit \in [Handlers -> Visit]
  /\ links \in Nat /\ visits \in Nat
  /\ mails \subseteq Link /\ sent \subseteq Link
  /\ used \subseteq Link /\ reused \subseteq Link /\ restored \subseteq Link
  /\ edits \in [Ids -> [Fields -> Nat]]

-----------------------------------------------------------------------------
(* Accounts and lookups *)

\* _build_user_item.
NewUser(google) ==
  [verified |-> google, google |-> google, link |-> 0,
   details |-> [f \in Fields |-> 0]]

\* _is_email_verified.
Active(user) == user.verified \/ user.google

ByEmail == {id \in Ids : index[id] # None}

ByGoogle == {id \in ByEmail : index[id].google}

\* A query returns some matching account; a failed one is taken for no match.
Lookup(matches) ==
  IF matches = {} \/ "abort" \in Faults THEN Maybe(matches) ELSE matches

-----------------------------------------------------------------------------
(* Steps of a request *)

In(h, pc) == visit[h].pc = pc

Go(h, v) == visit' = [visit EXCEPT ![h] = v]

Answer(h) == Go(h, NoVisit)

To(h, pc, id, user) == Go(h, [visit[h] EXCEPT !.pc = pc, !.id = id, !.read = user])

History == <<sent, used, reused, restored, edits>>

\* Nothing but the request moves on.
OnlyRequest == UNCHANGED <<users, index, links, mails, visits, History>>

Arrive == visits < MaxVisits /\ visits' = visits + 1

\* A client signs up, asks for another link, opens a mailed link or presents a Google
\* identity of the address.
Begin(h) ==
  /\ In(h, "idle")
  /\ Arrive
  /\ \/ \E op \in {"signup", "resend"} :
          Go(h, [NoVisit EXCEPT !.op = op, !.pc = "lookup"])
     \/ Go(h, [NoVisit EXCEPT !.op = "google", !.pc = "identity"])
     \/ \E m \in mails :
          Go(h, [NoVisit EXCEPT !.op = "verify", !.pc = "lookup",
                                !.id = m.id, !.number = m.number])
  /\ UNCHANGED <<users, index, links, mails, History>>

\* signup: a link for an account that is not active, unless its last one is too recent;
\* without an account, sign-up makes one.
FindForSignup(h) ==
  /\ In(h, "lookup") /\ visit[h].op = "signup"
  /\ \E id \in Lookup(ByEmail) :
       \/ id = None /\ To(h, "create", None, None)
       \/ id # None /\ ~Active(index[id]) /\ To(h, "issue", id, index[id])
       \/ id # None /\ (Active(index[id]) \/ index[id].link # 0) /\ Answer(h)
  /\ OnlyRequest

\* resend_verification: the same for an existing account, and nothing without one.
FindForResend(h) ==
  /\ In(h, "lookup") /\ visit[h].op = "resend"
  /\ \E id \in Lookup(ByEmail) :
       \/ id # None /\ ~Active(index[id]) /\ To(h, "issue", id, index[id])
       \/ id = None /\ Answer(h)
       \/ id # None /\ (Active(index[id]) \/ index[id].link # 0) /\ Answer(h)
  /\ OnlyRequest

\* What a request does with an account that it takes for its own: sign-up mails a
\* link whatever the account's state, a Google identity is linked or signs in.
Adopt(h, id, user) ==
  IF visit[h].op = "signup" THEN To(h, "issue", id, user)
  ELSE IF ~user.google THEN To(h, "link", id, user)
  ELSE Answer(h)

\* create_user up to the write: it looks for the address again.
CreateAccount(h) ==
  /\ In(h, "create")
  /\ \E id \in Lookup(ByEmail) :
       IF id # None THEN Adopt(h, id, index[id]) ELSE To(h, "put", None, None)
  /\ OnlyRequest

\* _save_new_user.  Its condition is on a fresh id, so that only the repetition of the
\* same write can fail it.
PutAccount(h) ==
  /\ In(h, "put")
  /\ \E id \in {i \in Ids : users[i] = None} :
       LET user == NewUser(visit[h].op = "google") IN
       /\ users' = [users EXCEPT ![id] = user]
       /\ \/ IF visit[h].op = "signup" THEN To(h, "issue", id, user) ELSE Answer(h)
          \/ "resend" \in Faults /\ To(h, "refind", None, None)
  /\ UNCHANGED <<index, links, mails, visits, History>>

\* _save_new_user after the failed condition: the account by its address, or an error.
Refind(h) ==
  /\ In(h, "refind")
  /\ \E id \in Lookup(ByEmail) :
       IF id = None THEN Answer(h)
       ELSE IF visit[h].op = "signup" THEN To(h, "issue", id, index[id])
       ELSE IF Active(index[id]) THEN Answer(h)
       ELSE To(h, "mark", id, index[id])
  /\ OnlyRequest

\* save_email_verification_token: whatever the account has, it has the new link now.
IssueLink(h) ==
  /\ In(h, "issue")
  /\ links' = links + 1
  /\ users' = [users EXCEPT ![visit[h].id].link = links + 1]
  /\ Go(h, [visit[h] EXCEPT !.pc = "send", !.number = links + 1])
  /\ UNCHANGED <<index, mails, visits, History>>

Requested(h) == [id |-> visit[h].id, number |-> visit[h].number]

\* send_verification_email: a mail whose acceptance is not known may still arrive.
SendMail(h) ==
  /\ In(h, "send")
  /\ \/ /\ mails' = mails \cup {Requested(h)}
        /\ sent' = sent \cup {Requested(h)}
        /\ Answer(h)
     \/ /\ "undelivered" \in Faults
        /\ mails' \in {mails, mails \cup {Requested(h)}}
        /\ Go(h, [visit[h] EXCEPT !.pc = "restore"])
        /\ UNCHANGED sent
  /\ UNCHANGED <<users, index, links, visits, used, reused, restored, edits>>

\* Mutant: the link that was read is put back whatever the account has now.
RestoreLinkAlways(h) ==
  /\ In(h, "restore")
  /\ users' = [users EXCEPT ![visit[h].id].link = visit[h].read.link]
  /\ restored' = restored \cup {[id |-> visit[h].id, number |-> visit[h].read.link]}
  /\ Answer(h)
  /\ UNCHANGED <<index, links, mails, visits, sent, used, reused, edits>>

\* restore_email_verification_state: only over the link that this request saved.
RestoreLink(h) ==
  /\ In(h, "restore")
  /\ IF users[visit[h].id].link = visit[h].number
     THEN /\ users' = [users EXCEPT ![visit[h].id].link = visit[h].read.link]
          /\ restored' =
               restored \cup {[id |-> visit[h].id, number |-> visit[h].read.link]}
     ELSE UNCHANGED <<users, restored>>
  /\ Answer(h)
  /\ UNCHANGED <<index, links, mails, visits, sent, used, reused, edits>>

\* verify_email up to the write: refused unless the link is the account's, and if it has
\* expired.
ReadLink(h) ==
  /\ In(h, "lookup") /\ visit[h].op = "verify"
  /\ \/ /\ users[visit[h].id].link = visit[h].number
        /\ To(h, "mark", visit[h].id, users[visit[h].id])
     \/ Answer(h)
  /\ OnlyRequest

\* Mutant: the account is activated on what was read.
ActivateAsRead(h) ==
  /\ In(h, "mark") /\ visit[h].op = "verify"
  /\ users' = [users EXCEPT ![visit[h].id].verified = TRUE,
                            ![visit[h].id].link = 0]
  /\ used' = used \cup {Requested(h)}
  /\ reused' = reused \cup ({Requested(h)} \cap used)
  /\ Answer(h)
  /\ UNCHANGED <<index, links, mails, visits, sent, restored, edits>>

\* mark_email_verified with the hash it expects: the link is used up with it.
Activate(h) ==
  /\ In(h, "mark") /\ visit[h].op = "verify"
  /\ IF users[visit[h].id].link = visit[h].number
     THEN /\ users' = [users EXCEPT ![visit[h].id].verified = TRUE,
                                    ![visit[h].id].link = 0]
          /\ used' = used \cup {Requested(h)}
          /\ reused' = reused \cup ({Requested(h)} \cap used)
     ELSE UNCHANGED <<users, used, reused>>
  /\ Answer(h)
  /\ UNCHANGED <<index, links, mails, visits, sent, restored, edits>>

\* _authenticate_google_credential: by Google identity, else by address.
FindIdentity(h) ==
  /\ In(h, "identity")
  /\ \E id \in Lookup(ByGoogle) :
       IF id # None THEN Answer(h) ELSE To(h, "lookup", None, None)
  /\ OnlyRequest

\* An account without a Google identity gets this one if Google vouches for the
\* address, and the sign-in is refused otherwise.
FindGoogleAccount(h) ==
  /\ In(h, "lookup") /\ visit[h].op = "google"
  /\ \E id \in Lookup(ByEmail) :
       \/ id = None /\ To(h, "create", None, None)
       \/ id # None /\ ~index[id].google /\ To(h, "link", id, index[id])
       \/ id # None /\ Answer(h)
  /\ OnlyRequest

\* Mutant: the account is written back as it was read.
LinkIdentityWhole(h) ==
  /\ In(h, "link")
  /\ users' = [users EXCEPT ![visit[h].id] = [visit[h].read EXCEPT !.google = TRUE]]
  /\ Answer(h)
  /\ UNCHANGED <<index, links, mails, visits, History>>

\* update_user_google_id.  If it fails the sign-in goes on with the account as it was
\* read, and activates it.
LinkIdentity(h) ==
  /\ In(h, "link")
  /\ \/ /\ users' = [users EXCEPT ![visit[h].id].google = TRUE]
        /\ Answer(h)
     \/ /\ "abort" \in Faults
        /\ IF Active(visit[h].read) THEN Answer(h)
           ELSE To(h, "mark", visit[h].id, visit[h].read)
        /\ UNCHANGED users
  /\ UNCHANGED <<index, links, mails, visits, History>>

\* mark_email_verified without an expected hash: whatever link is pending goes.
ActivateByGoogle(h) ==
  /\ In(h, "mark") /\ visit[h].op = "google"
  /\ users' = [users EXCEPT ![visit[h].id].verified = TRUE,
                            ![visit[h].id].link = 0]
  /\ Answer(h)
  /\ UNCHANGED <<index, links, mails, visits, History>>

\* The process stops after a write, or a call after it raises.  (A request that fails
\* before its first write leaves nothing behind.)
Fail(h) ==
  /\ "abort" \in Faults
  /\ visit[h].pc \in {"refind", "send", "restore"}
  /\ Answer(h)
  /\ OnlyRequest

Serve(h) ==
  \/ Begin(h)
  \/ FindForSignup(h)
  \/ FindForResend(h)
  \/ CreateAccount(h)
  \/ PutAccount(h)
  \/ Refind(h)
  \/ IssueLink(h)
  \/ SendMail(h)
  \/ RestoreLink(h)
  \/ ReadLink(h)
  \/ Activate(h)
  \/ FindIdentity(h)
  \/ FindGoogleAccount(h)
  \/ LinkIdentity(h)
  \/ ActivateByGoogle(h)
  \/ Fail(h)

-----------------------------------------------------------------------------
(* Edits and the indexes *)

\* get_current_user serves active accounts only.
SignedIn(id) == users[id] # None /\ Active(users[id])

\* Profile, avatar, preferences and roles: each sets its own attributes in one call.
Edited(user, f) == [user EXCEPT !.details[f] = @ + 1]

Edit(id, f) ==
  /\ SignedIn(id)
  /\ Arrive
  /\ users' = [users EXCEPT ![id] = Edited(@, f)]
  /\ edits' = [edits EXCEPT ![id][f] = @ + 1]
  /\ UNCHANGED <<index, visit, links, mails, sent, used, reused, restored>>

\* The indexes catch up with an account.
Propagate(id) ==
  /\ index[id] # users[id]
  /\ index' = [index EXCEPT ![id] = users[id]]
  /\ UNCHANGED <<users, visit, links, mails, visits, History>>

\* Nothing is left to do within the bounds on visits and on ids.
AccountsRest ==
  /\ visits = MaxVisits
  /\ \A h \in Handlers : visit[h].pc \in {"idle", "put"}
  /\ UNCHANGED accountVars

\* No account yet, or one that signed up earlier and has not opened its link.
AccountInit ==
  /\ \/ users = [id \in Ids |-> None] /\ links = 0
     \/ /\ \E id \in Ids :
             users = [i \in Ids |->
                        IF i = id THEN [NewUser(FALSE) EXCEPT !.link = 1] ELSE None]
        /\ links = 1
  /\ index = users
  /\ visit = [h \in Handlers |-> NoVisit]
  /\ mails = {m \in [id : Ids, number : {1}] : users[m.id] # None}
  /\ sent = mails
  /\ visits = 0
  /\ used = {} /\ reused = {} /\ restored = {}
  /\ edits = [id \in Ids |-> [f \in Fields |-> 0]]

AccountNext ==
  \/ \E h \in Handlers : Serve(h)
  \/ \E id \in Ids, f \in Fields : Edit(id, f)
  \/ \E id \in Ids : Propagate(id)
  \/ AccountsRest

AccountSpec == AccountInit /\ [][AccountNext]_accountVars

-----------------------------------------------------------------------------
(* Safety *)

Pending(link) == users[link.id] # None /\ users[link.id].link = link.number

\* A mailed link whose acceptance the client was told of stays valid until it is used,
\* a Google sign-in activates its account, or a newer link is saved: no failed
\* delivery of another request takes it away (_issue_verification_email,
\* restore_email_verification_state).
SentLinkKept ==
  [][\A m \in sent : Pending(m) /\ ~Pending(m)' =>
       users'[m.id].verified \/ users'[m.id].link = links + 1]_accountVars

\* A link activates an account at most once, however many requests carry it at the
\* same time and whatever links are made meanwhile, unless a failed delivery put it
\* back (mark_email_verified's condition).
LinkUsedOnce == reused \subseteq restored

\* Acknowledged edits are kept: linking, activating and issuing write their own
\* attributes, although they compute with an account read earlier.
EditsKept == \A id \in Ids : users[id] # None => users[id].details = edits[id]

-----------------------------------------------------------------------------
(* The inductive invariant *)

Mailing(v) == v.pc \in {"send", "restore"}

\* A request is about an account that exists; a link that it may take back was not
\* accepted.
VisitSound(v) ==
  /\ v.id # None => users[v.id] # None
  /\ v.pc \in {"issue", "send", "restore", "mark", "link"} => v.id # None /\ v.read # None
  /\ v.op = "verify" =>
       v.pc \in {"lookup", "mark"} /\ v.id # None /\ v.number \in 1..links
  /\ Mailing(v) =>
       v.number \in 1..links /\ [id |-> v.id, number |-> v.number] \notin sent

\* Links are numbered as they are saved; one that was used is pending only if it was put
\* back; and the details of an account are its edits.
AccountsConsistent ==
  /\ AccountsTypeOK
  /\ \A id \in Ids :
       /\ index[id] # None => users[id] # None
       /\ edits[id] = IF users[id] = None THEN [f \in Fields |-> 0] ELSE users[id].details
  /\ \A m \in mails \cup sent \cup used : users[m.id] # None /\ m.number \in 1..links
  /\ \A m \in used : Pending(m) => m \in restored
  /\ reused \subseteq restored
  /\ \A h \in Handlers : VisitSound(visit[h])
  /\ \A g, h \in Handlers :
       g # h /\ Mailing(visit[g]) /\ Mailing(visit[h]) => visit[g].number # visit[h].number

=============================================================================
