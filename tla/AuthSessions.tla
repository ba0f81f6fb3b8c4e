---------------------------- MODULE AuthSessions ----------------------------
(***************************************************************************)
(* The sessions of one user: services/auth_sessions.py and the endpoints   *)
(* of routers/auth.py that sign in, rotate and sign out, with the one-time *)
(* codes of the Google redirect (services/google_auth_handoff.py).         *)
(*                                                                         *)
(* A token is usable while it has not expired and its session item is      *)
(* active; a legacy token, made before sessions existed, has an item only  *)
(* once it is revoked.  Revoking reads the item and then updates it.  The  *)
(* table forgets items of expired tokens, redis forgets codes.             *)
(***************************************************************************)
EXTENDS Servers, Naturals, FiniteSets

CONSTANTS
  Tokens,        \* bound: tokens that are ever issued, fresh each time
  Legacy,        \* those of them without a session id, issued before
  Codes,         \* bound: one-time codes, fresh each time
  MaxCalls       \* bound: requests that ever arrive

ASSUME SessionsAssumption ==
  /\ Legacy \subseteq Tokens /\ MaxCalls \in Nat
  /\ None \notin Tokens \cup Codes /\ Tokens \cap {"none", "verifier"} = {}

VARIABLES
  session,       \* the item of each token
  expired,       \* tokens whose time is over
  code,          \* what redis has for each code
  call,          \* the request of each handler
  held,          \* tokens that a client has
  urls,          \* codes that a browser was sent to
  calls,         \* requests that have arrived
  gone,          \* history: tokens whose sign-out was acknowledged
  rotated        \* history: pairs of an old token and the one that replaced it

sessionVars == <<session, expired, code, call, held, urls, calls,
                 gone, rotated>>

\* A stub is what an update leaves of an item that was gone.
Items == {"none", "active", "revoked", "stub"}

\* Under a code: nothing, the verifier of a sign-in that was sent to Google, or a token.
Contents == {"none", "verifier"} \cup Tokens

Call == [op : {"none", "login", "redirect", "start", "callback", "exchange",
               "upgrade", "logout"},
         pc : {"idle", "consume", "validate", "register", "handoff", "revoke",
               "mark", "undo", "start"},
         asked : SUBSET Tokens,        \* tokens that the client sent
         old : SUBSET Tokens,          \* those still to be revoked
         at : Maybe(Tokens),           \* the one whose item was read
         new : Maybe(Tokens),          \* the token made for this request
         code : Maybe(Codes)]

NoCall == [op |-> "none", pc |-> "idle", asked |-> {}, old |-> {}, at |-> None,
           new |-> None, code |-> None]

SessionsTypeOK ==
  /\ session \in [Tokens -> Items]
  /\ expired \subseteq Tokens
  /\ code \in [Codes -> Contents]
  /\ call \in [Handlers -> Call]
  /\ held \subseteq Tokens /\ urls \subseteq Codes
  /\ calls \in Nat
  /\ gone \subseteq Tokens /\ rotated \subseteq Tokens \X Tokens

-----------------------------------------------------------------------------
(* Tokens *)

\* AuthSessionService.validate.
Usable(t) ==
  /\ t \notin expired
  /\ session[t] = IF t \in Legacy THEN "none" ELSE "active"

\* Tokens that nobody has been issued.
Unissued ==
  {t \in Tokens \ Legacy :
     /\ session[t] = "none" /\ t \notin expired
     /\ \A h \in Handlers : call[h].new # t}

Unused == {c \in Codes : code[c] = "none" /\ c \notin urls}

-----------------------------------------------------------------------------
(* Steps of a request *)

CallAt(h, pc) == call[h].pc = pc

Proceed(h, c) == call' = [call EXCEPT ![h] = c]

Respond(h) == Proceed(h, NoCall)

Turn(h, pc) == Proceed(h, [call[h] EXCEPT !.pc = pc])

SessionHistory == <<gone, rotated>>

\* Sign-in (with a password or a Google identity), the redirect of a sign-in with
\* Google, its start and its callback, the exchange of a code, rotation of a token and
\* sign-out with a cookie and a bearer token.
Receive(h) ==
  /\ CallAt(h, "idle")
  /\ calls < MaxCalls /\ calls' = calls + 1
  /\ \/ \E op \in {"login", "redirect"} :
          Proceed(h, [NoCall EXCEPT !.op = op, !.pc = "register"])
     \/ Proceed(h, [NoCall EXCEPT !.op = "start", !.pc = "start"])
     \/ \E op \in {"callback", "exchange"}, c \in urls :
          Proceed(h, [NoCall EXCEPT !.op = op, !.pc = "consume", !.code = c])
     \/ \E t \in held :
          Proceed(h, [NoCall EXCEPT !.op = "upgrade", !.pc = "validate",
                                    !.old = {t}, !.asked = {t}])
     \/ \E ts \in SUBSET held :
          /\ Cardinality(ts) \in 1 .. 2
          /\ Proceed(h, [NoCall EXCEPT !.op = "logout", !.pc = "revoke",
                                       !.old = ts, !.asked = ts])
  /\ UNCHANGED <<session, expired, code, held, urls, SessionHistory>>

\* google_auth_redirect_start: the verifier under a new code, which Google gives back.
StartRedirect(h) ==
  /\ CallAt(h, "start")
  /\ \E c \in Unused :
       /\ code' = [code EXCEPT ![c] = "verifier"]
       /\ urls' = urls \cup {c}
  /\ Respond(h)
  /\ UNCHANGED <<session, expired, held, calls, SessionHistory>>

\* The client has the token: in its answer, or in the browser's cookie.
Give(t) == held' = held \cup {t}

\* google_auth_oauth_callback: a verifier that Google exchanges leads to a sign-in.
CalledBack(h, contents) ==
  /\ call[h].op = "callback"
  /\ \/ contents = "verifier" /\ Turn(h, "register")
     \/ Respond(h)
  /\ UNCHANGED held

\* exchange_google_auth_handoff: only a session can be handed to the client.
Exchanged(h, contents) ==
  /\ call[h].op = "exchange"
  /\ IF contents \in Tokens THEN Give(contents) ELSE UNCHANGED held
  /\ Respond(h)

Opened(h, contents) == CalledBack(h, contents) \/ Exchanged(h, contents)

\* consume: one GETDEL.  An answer that is lost takes the code with it.
ConsumeCode(h) ==
  /\ CallAt(h, "consume")
  /\ code' = [code EXCEPT ![call[h].code] = "none"]
  /\ \/ /\ code[call[h].code] # "none"
        /\ Opened(h, code[call[h].code])
     \/ /\ code[call[h].code] = "none" \/ "abort" \in Faults
        /\ Respond(h)
        /\ UNCHANGED held
  /\ UNCHANGED <<session, expired, urls, calls, gone, rotated>>

\* upgrade_browser_session up to its first write.
Validate(h) ==
  /\ CallAt(h, "validate")
  /\ IF \A t \in call[h].asked : Usable(t) THEN Turn(h, "register") ELSE Respond(h)
  /\ UNCHANGED <<session, expired, code, held, urls, calls, SessionHistory>>

\* register, and what each request does next.  Its condition refuses a repeated write.
Register(h) ==
  /\ CallAt(h, "register")
  /\ \E t \in Unissued :
       /\ session' = [session EXCEPT ![t] = "active"]
       /\ \/ /\ call[h].op = "login"
             /\ Give(t)
             /\ Respond(h)
          \/ /\ call[h].op # "login"
             /\ Proceed(h, [call[h] EXCEPT !.new = t,
                  !.pc = IF call[h].op = "upgrade" THEN "revoke" ELSE "handoff"])
             /\ UNCHANGED held
          \/ /\ "resend" \in Faults
             /\ Respond(h)
             /\ UNCHANGED held
  /\ UNCHANGED <<expired, code, urls, calls, SessionHistory>>

\* RedisGoogleAuthHandoffStore.create with the session as payload.
CreateHandoff(h) ==
  /\ CallAt(h, "handoff")
  /\ \E c \in Unused :
       /\ code' = [code EXCEPT ![c] = call[h].new]
       /\ urls' = urls \cup {c}
  /\ Respond(h)
  /\ UNCHANGED <<session, expired, held, calls, SessionHistory>>

\* The update of a session names it by its key only: an item that is gone becomes a stub.
Revoked(t) ==
  [session EXCEPT ![t] =
     IF t \notin Legacy /\ @ \in {"none", "stub"} THEN "stub" ELSE "revoked"]

\* Mutant: the answer comes with the first token revoked.
RevokedFirst(h, t) ==
  /\ Respond(h)
  /\ IF call[h].op = "logout"
     THEN gone' = gone \cup call[h].asked /\ UNCHANGED <<held, rotated>>
     ELSE /\ Give(call[h].new)
          /\ rotated' = rotated \cup {<<t, call[h].new>>}
          /\ UNCHANGED gone

\* With every token revoked or expired the client gets its answer, else the next token
\* is revoked.
RevokedOne(h, t) ==
  IF call[h].old = {t}
  THEN /\ Respond(h)
       /\ IF call[h].op = "logout"
          THEN /\ gone' = gone \cup call[h].asked
               /\ UNCHANGED <<held, rotated>>
          ELSE /\ Give(call[h].new)
               /\ rotated' = rotated \cup {<<t, call[h].new>>}
               /\ UNCHANGED gone
  ELSE /\ Proceed(h, [call[h] EXCEPT !.pc = "revoke", !.old = @ \ {t}, !.at = None])
       /\ UNCHANGED <<held, gone, rotated>>

\* revoke up to its update: a legacy token gets a revoked item at once, another one that
\* is active is to be updated, and for the rest nothing is left to do.
ReadSession(h) ==
  /\ CallAt(h, "revoke")
  /\ \E t \in call[h].old \ expired :
       \/ /\ t \in Legacy
          /\ session' = Revoked(t)
          /\ RevokedOne(h, t)
       \/ /\ t \notin Legacy /\ session[t] = "active"
          /\ Proceed(h, [call[h] EXCEPT !.pc = "mark", !.at = t])
          /\ UNCHANGED <<session, held, gone, rotated>>
       \/ /\ t \notin Legacy /\ session[t] # "active"
          /\ RevokedOne(h, t)
          /\ UNCHANGED session
  /\ UNCHANGED <<expired, code, urls, calls>>

MarkRevoked(h) ==
  /\ CallAt(h, "mark")
  /\ session' = Revoked(call[h].at)
  /\ RevokedOne(h, call[h].at)
  /\ UNCHANGED <<expired, code, urls, calls>>

\* A token that has expired cannot be decoded: sign-out takes it for revoked, rotation
\* fails.
TokenExpired(h) ==
  /\ CallAt(h, "revoke")
  /\ \E t \in call[h].old \cap expired :
       IF call[h].op = "logout"
       THEN RevokedOne(h, t)
       ELSE Turn(h, "undo") /\ UNCHANGED <<held, gone, rotated>>
  /\ UNCHANGED <<session, expired, code, urls, calls>>

\* An error of the table, with or without the write: sign-out fails with it, rotation
\* withdraws the new session first.
Outage(h) ==
  /\ "abort" \in Faults
  /\ call[h].pc \in {"revoke", "mark"}
  /\ session' \in {session} \cup
       {Revoked(t) : t \in IF CallAt(h, "mark") THEN {call[h].at}
                           ELSE (call[h].old \cap Legacy) \ expired}
  /\ IF call[h].op = "logout" THEN Respond(h) ELSE Turn(h, "undo")
  /\ UNCHANGED <<expired, code, held, urls, calls, SessionHistory>>

\* revoke(new_token): nobody else has the token, so that its read and its update are one
\* step; a second error is logged.
WithdrawNew(h) ==
  /\ CallAt(h, "undo")
  /\ \/ /\ call[h].new \notin expired /\ session[call[h].new] = "active"
        /\ session' = [session EXCEPT ![call[h].new] = "revoked"]
     \/ /\ "abort" \in Faults \/ call[h].new \in expired
        /\ UNCHANGED session
  /\ Respond(h)
  /\ UNCHANGED <<expired, code, held, urls, calls, SessionHistory>>

\* The process stops after the session was registered, or a later call raises.
Stop(h) ==
  /\ "abort" \in Faults
  /\ call[h].new # None
  /\ Respond(h)
  /\ UNCHANGED <<session, expired, code, held, urls, calls, SessionHistory>>

Work(h) ==
  \/ Receive(h)
  \/ StartRedirect(h)
  \/ ConsumeCode(h)
  \/ Validate(h)
  \/ Register(h)
  \/ CreateHandoff(h)
  \/ ReadSession(h)
  \/ MarkRevoked(h)
  \/ TokenExpired(h)
  \/ Outage(h)
  \/ WithdrawNew(h)
  \/ Stop(h)

-----------------------------------------------------------------------------
(* Time *)

\* A token's time is over.
Expire(t) ==
  /\ t \notin expired
  /\ t \in Legacy \/ session[t] # "none"
  /\ expired' = expired \cup {t}
  /\ UNCHANGED <<session, code, call, held, urls, calls, SessionHistory>>

\* The table removes an item whose expiresAt has passed; a stub has none.
Collect(t) ==
  /\ t \in expired
  /\ session[t] \in {"active", "revoked"}
  /\ session' = [session EXCEPT ![t] = "none"]
  /\ UNCHANGED <<expired, code, call, held, urls, calls, SessionHistory>>

\* A code lives for a minute.
ForgetCode(c) ==
  /\ code[c] # "none"
  /\ code' = [code EXCEPT ![c] = "none"]
  /\ UNCHANGED <<session, expired, call, held, urls, calls, SessionHistory>>

\* Nothing is left to do within the bounds on requests, tokens and codes.
SessionsRest ==
  /\ calls = MaxCalls
  /\ \A h \in Handlers :
       call[h].pc \in {"idle", "register", "handoff", "start"}
  /\ UNCHANGED sessionVars

\* Clients have legacy tokens, or none.
SessionInit ==
  /\ session = [t \in Tokens |-> "none"]
  /\ expired = {}
  /\ code = [c \in Codes |-> "none"]
  /\ call = [h \in Handlers |-> NoCall]
  /\ held = Legacy
  /\ urls = {} /\ calls = 0
  /\ gone = {} /\ rotated = {}

SessionNext ==
  \/ \E h \in Handlers : Work(h)
  \/ \E t \in Tokens : Expire(t) \/ Collect(t)
  \/ \E c \in Codes : ForgetCode(c)
  \/ SessionsRest

SessionSpec == SessionInit /\ [][SessionNext]_sessionVars

-----------------------------------------------------------------------------
(* Safety *)

\* A token whose sign-out was acknowledged, or that was given back for a new one, is
\* never usable again, although revoking reads and writes separately, two sign-outs or
\* rotations may work on it at once, any call may fail, and the table forgets items
\* (logout, upgrade_browser_session, AuthSessionService.revoke).
EndedStaysEnded == \A t \in gone \cup {p[1] : p \in rotated} : ~Usable(t)

-----------------------------------------------------------------------------
(* The inductive invariant *)

\* Not to be usable again: no write makes a revoked session active.
Ended(t) == t \in expired \/ session[t] \in {"revoked", "stub"}

\* Not to be issued again.
Issued(t) == t \in Legacy \cup expired \/ session[t] # "none"

\* What a request has and has done so far.
CallSound(c) ==
  /\ \A t \in c.asked : Issued(t)
  /\ c.old \subseteq c.asked
  /\ c.new # None => Issued(c.new)
  /\ c.pc = "consume" => c.code # None
  /\ c.pc \in {"handoff", "undo"} => c.new # None
  /\ c.pc = "mark" => c.at \in c.old
  /\ c.pc \in {"validate", "revoke", "mark"} => c.op \in {"logout", "upgrade"}
  /\ c.pc \in {"revoke", "mark"} =>
       /\ c.op = "upgrade" => c.new # None
       /\ c.op = "logout" => \A t \in c.asked \ c.old : Ended(t)

\* What somebody has was issued, and what was answered to be ended is.
SessionsConsistent ==
  /\ SessionsTypeOK
  /\ \A t \in held : Issued(t)
  /\ \A c \in Codes : code[c] \in Tokens => Issued(code[c])
  /\ \A h \in Handlers : CallSound(call[h])
  /\ \A t \in gone : Ended(t)
  /\ \A p \in rotated : Ended(p[1])

=============================================================================
