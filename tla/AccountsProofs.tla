--------------------------- MODULE AccountsProofs ---------------------------
(***************************************************************************)
(* Proofs about AuthSessions and Accounts, for any number of processes,    *)
(* tokens, codes, accounts and requests, and whichever faults happen.      *)
(***************************************************************************)
EXTENDS Accounts, AuthSessions, TLAPS

-----------------------------------------------------------------------------
(* Sessions: what is ended and what is issued stays so *)

\* Revoking ends a token and takes nothing back.
LEMMA RevokedIsEnded ==
  ASSUME SessionsTypeOK, NEW t \in Tokens
  PROVE  /\ Revoked(t) \in [Tokens -> Items]
         /\ Revoked(t)[t] \in {"revoked", "stub"}
         /\ \A u \in Tokens : u # t => Revoked(t)[u] = session[u]
  BY DEF SessionsTypeOK, Revoked, Items

\* What a step may do to the table: expire, revoke, issue afresh, or forget what has
\* expired.
TokensMove ==
  /\ expired \subseteq expired'
  /\ \A t \in Tokens :
       \/ session'[t] = session[t]
       \/ session'[t] \in {"revoked", "stub"}
       \/ session[t] = "none" /\ t \notin Legacy \cup expired
       \/ t \in expired

LEMMA EndedStays ==
  ASSUME SessionsTypeOK, TokensMove, NEW t \in Tokens
  PROVE  /\ Ended(t) => Ended(t)'
         /\ Issued(t) => Issued(t)'
  BY DEF TokensMove, Ended, Issued

\* The facts about a request that a step does not touch stay.
LEMMA CallStays ==
  ASSUME SessionsTypeOK, TokensMove, NEW c \in Call, CallSound(c)
  PROVE  CallSound(c)'
<1>1. c.asked \subseteq Tokens /\ c.old \subseteq Tokens /\ c.new \in Tokens \cup {None}
  BY DEF Call, Maybe
<1>2. QED  BY <1>1, EndedStays DEF CallSound

\* A step of one process keeps the invariant if the request it leaves is sound and
\* what it hands out or acknowledges is issued or ended.
LEMMA StepSound ==
  ASSUME SessionsConsistent, TokensMove, NEW h \in Handlers, NEW c \in Call,
         call' = [call EXCEPT ![h] = c], CallSound(c)',
         session' \in [Tokens -> Items], expired' \subseteq Tokens,
         code' \in [Codes -> Contents], calls' \in Nat, urls' \subseteq Codes,
         held' \subseteq Tokens, gone' \subseteq Tokens,
         rotated' \subseteq Tokens \X Tokens,
         \A t \in held' \ held : Issued(t)',
         \A d \in Codes : code'[d] \in Tokens /\ code'[d] # code[d] => Issued(code[d])',
         \A t \in gone' \ gone : Ended(t)',
         \A p \in rotated' \ rotated : Ended(p[1])'
  PROVE  SessionsConsistent'
<1>1. SessionsTypeOK'
  BY DEF SessionsConsistent, SessionsTypeOK
<1>2. \A t \in held' : Issued(t)'
  BY EndedStays DEF SessionsConsistent, SessionsTypeOK
<1>3. \A d \in Codes : code'[d] \in Tokens => Issued(code[d])'
  <2> SUFFICES ASSUME NEW d \in Codes, code'[d] \in Tokens, code'[d] = code[d]
               PROVE  Issued(code[d])'
    OBVIOUS
  <2>1. Issued(code[d])
    BY DEF SessionsConsistent
  <2>2. PICK t \in Tokens : t = code[d]
    OBVIOUS
  <2>3. Issued(t)'
    BY <2>1, <2>2, EndedStays DEF SessionsConsistent
  <2>4. QED  BY <2>2, <2>3 DEF Issued
<1>4. \A g \in Handlers : CallSound(call[g])'
  <2> SUFFICES ASSUME NEW g \in Handlers PROVE CallSound(call[g])'
    OBVIOUS
  <2>1. CASE g = h
    <3>1. call'[g] = c
      BY <2>1 DEF SessionsConsistent, SessionsTypeOK
    <3>2. QED  BY <3>1 DEF CallSound, Issued, Ended
  <2>2. CASE g # h
    <3>1. call'[g] = call[g] /\ call[g] \in Call /\ CallSound(call[g])
      BY <2>2 DEF SessionsConsistent, SessionsTypeOK
    <3>2. CallSound(call[g])'
      BY <3>1, CallStays DEF SessionsConsistent
    <3>3. QED  BY <3>1, <3>2 DEF CallSound, Issued, Ended
  <2>3. QED  BY <2>1, <2>2
<1>5. \A t \in gone' : Ended(t)'
  BY EndedStays DEF SessionsConsistent, SessionsTypeOK
<1>6. \A p \in rotated' : Ended(p[1])'
  <2> SUFFICES ASSUME NEW p \in rotated PROVE Ended(p[1])'
    OBVIOUS
  <2>1. p[1] \in Tokens /\ Ended(p[1])
    BY DEF SessionsConsistent, SessionsTypeOK
  <2>2. PICK t \in Tokens : t = p[1]
    BY <2>1
  <2>3. Ended(t)'
    BY <2>1, <2>2, EndedStays DEF SessionsConsistent
  <2>4. QED  BY <2>2, <2>3 DEF Ended
<1>7. QED  BY <1>1, <1>2, <1>3, <1>4, <1>5, <1>6 DEF SessionsConsistent

LEMMA NoCallSound == NoCall \in Call /\ CallSound(NoCall) /\ CallSound(NoCall)'
  BY SessionsAssumption DEF NoCall, Call, CallSound, Maybe

\* A step that answers or turns and writes no session.
LEMMA SessionsUntouched ==
  ASSUME SessionsConsistent, UNCHANGED <<session, expired>>
  PROVE  /\ TokensMove
         /\ session' \in [Tokens -> Items] /\ expired' \subseteq Tokens
         /\ \A t : Issued(t)' <=> Issued(t)
         /\ \A t : Ended(t)' <=> Ended(t)
         /\ \A c : CallSound(c)' <=> CallSound(c)
<1>1. /\ \A t : Issued(t)' <=> Issued(t)
      /\ \A t : Ended(t)' <=> Ended(t)
  BY DEF Issued, Ended
<1>2. QED  BY <1>1 DEF TokensMove, SessionsConsistent, SessionsTypeOK, CallSound

\* A request that only turns to another stage.
LEMMA TurnSound ==
  ASSUME SessionsConsistent, NEW h \in Handlers, NEW pc \in {"register", "undo"}, Turn(h, pc),
         pc = "undo" => call[h].new # None
  PROVE  \E c \in Call : call' = [call EXCEPT ![h] = c] /\ CallSound(c)
<1> DEFINE c == [call[h] EXCEPT !.pc = pc]
<1>1. call[h] \in Call /\ CallSound(call[h])
  BY DEF SessionsConsistent, SessionsTypeOK
<1>2. c \in Call
  BY <1>1 DEF Call
<1>3. CallSound(c)
  BY <1>1 DEF Call, CallSound
<1>4. QED  BY <1>2, <1>3 DEF Turn, Proceed

LEMMA ReceiveSound ==
  ASSUME SessionsConsistent, NEW h \in Handlers, Receive(h)
  PROVE  SessionsConsistent'
<1>1. PICK c \in Call : call' = [call EXCEPT ![h] = c] /\ CallSound(c)
  <2> DEFINE Sound(c) == c \in Call /\ CallSound(c)
  <2>1. ASSUME NEW op \in {"login", "redirect"}
        PROVE  Sound([NoCall EXCEPT !.op = op, !.pc = "register"])
    BY DEF NoCall, Call, CallSound, Maybe
  <2>2. Sound([NoCall EXCEPT !.op = "start", !.pc = "start"])
    BY DEF NoCall, Call, CallSound, Maybe
  <2>3. ASSUME NEW op \in {"callback", "exchange"}, NEW d \in urls
        PROVE  Sound([NoCall EXCEPT !.op = op, !.pc = "consume", !.code = d])
    <3>1. d \in Codes /\ d # None
      BY SessionsAssumption DEF SessionsConsistent, SessionsTypeOK
    <3>2. QED  BY <3>1 DEF NoCall, Call, CallSound, Maybe
  <2>4. ASSUME NEW ts \in SUBSET held
        PROVE  /\ Sound([NoCall EXCEPT !.op = "logout", !.pc = "revoke",
                                       !.old = ts, !.asked = ts])
               /\ Sound([NoCall EXCEPT !.op = "upgrade", !.pc = "validate",
                                       !.old = ts, !.asked = ts])
    <3>1. ts \subseteq Tokens /\ \A t \in ts : Issued(t)
      BY DEF SessionsConsistent, SessionsTypeOK
    <3>2. QED  BY <3>1 DEF NoCall, Call, CallSound, Maybe
  <2>5. \E c : Proceed(h, c) /\ Sound(c)
    <3> HIDE DEF Sound
    <3>1. CASE \E t \in held :
                 Proceed(h, [NoCall EXCEPT !.op = "upgrade", !.pc = "validate",
                                           !.old = {t}, !.asked = {t}])
      <4>1. PICK t \in held :
                   Proceed(h, [NoCall EXCEPT !.op = "upgrade", !.pc = "validate",
                                             !.old = {t}, !.asked = {t}])
        BY <3>1
      <4>2. {t} \in SUBSET held
        OBVIOUS
      <4>3. QED  BY <2>4, <4>1, <4>2
    <3>2. CASE ~\E t \in held :
                 Proceed(h, [NoCall EXCEPT !.op = "upgrade", !.pc = "validate",
                                           !.old = {t}, !.asked = {t}])
      BY <2>1, <2>2, <2>3, <2>4, <3>2 DEF Receive
    <3>3. QED  BY <3>1, <3>2
  <2>6. QED  BY <2>5 DEF Proceed
<1>2. UNCHANGED <<session, expired, code, held, urls, gone, rotated>> /\ calls' \in Nat
  <2>1. UNCHANGED <<session, expired, code, held, urls, SessionHistory>> /\ calls' = calls + 1
    BY DEF Receive
  <2>2. calls \in Nat
    BY DEF SessionsConsistent, SessionsTypeOK
  <2>3. QED  BY <2>1, <2>2 DEF SessionHistory
<1>3. CallSound(c)' /\ TokensMove
  BY <1>1, <1>2, SessionsUntouched
<1>4. QED
  BY <1>1, <1>2, <1>3, StepSound DEF SessionsConsistent, SessionsTypeOK

LEMMA StartRedirectSound ==
  ASSUME SessionsConsistent, NEW h \in Handlers, StartRedirect(h)
  PROVE  SessionsConsistent'
<1>1. PICK d \in Codes : code' = [code EXCEPT ![d] = "verifier"] /\ urls' = urls \cup {d}
  BY DEF StartRedirect, Unused
<1>2. code' \in [Codes -> Contents] /\ \A e \in Codes : code'[e] # code[e] => code'[e] \notin Tokens
  BY <1>1, SessionsAssumption DEF SessionsConsistent, SessionsTypeOK, Contents
<1>3. UNCHANGED <<session, expired, held, calls, gone, rotated>>
  BY DEF StartRedirect, SessionHistory
<1>4. call' = [call EXCEPT ![h] = NoCall]
  BY DEF StartRedirect, Respond, Proceed
<1>5. QED
  BY <1>1, <1>2, <1>3, <1>4, NoCallSound, SessionsUntouched, StepSound
     DEF SessionsConsistent, SessionsTypeOK

LEMMA ConsumeCodeSound ==
  ASSUME SessionsConsistent, NEW h \in Handlers, ConsumeCode(h)
  PROVE  SessionsConsistent'
<1> DEFINE d == call[h].code
<1>1. d \in Codes
  BY SessionsAssumption
     DEF SessionsConsistent, SessionsTypeOK, ConsumeCode, CallAt, CallSound, Call, Maybe
<1>2. /\ code' \in [Codes -> Contents]
      /\ \A e \in Codes : code'[e] # code[e] => code'[e] \notin Tokens
      /\ UNCHANGED <<session, expired, urls, calls, gone, rotated>>
  BY <1>1, SessionsAssumption DEF SessionsConsistent, SessionsTypeOK, Contents, ConsumeCode
<1>3. held' \subseteq Tokens /\ \A t \in held' \ held : Issued(t)
  BY <1>1 DEF ConsumeCode, Opened, CalledBack, Exchanged, Give, SessionsConsistent, SessionsTypeOK
<1>4. PICK c \in Call : call' = [call EXCEPT ![h] = c] /\ CallSound(c)
  <2>1. CASE Respond(h)
    BY <2>1, NoCallSound DEF Respond, Proceed
  <2>2. CASE Turn(h, "register")
    BY <2>2, TurnSound
  <2>3. QED  BY <2>1, <2>2 DEF ConsumeCode, Opened, CalledBack, Exchanged
<1>5. QED
  BY <1>2, <1>3, <1>4, SessionsUntouched, StepSound DEF SessionsConsistent, SessionsTypeOK

LEMMA ValidateSound ==
  ASSUME SessionsConsistent, NEW h \in Handlers, Validate(h)
  PROVE  SessionsConsistent'
<1>1. PICK c \in Call : call' = [call EXCEPT ![h] = c] /\ CallSound(c)
  <2>1. CASE Respond(h)
    BY <2>1, NoCallSound DEF Respond, Proceed
  <2>2. CASE Turn(h, "register")
    BY <2>2, TurnSound
  <2>3. QED  BY <2>1, <2>2 DEF Validate
<1>2. UNCHANGED <<session, expired, code, held, urls, calls, gone, rotated>>
  BY DEF Validate, SessionHistory
<1>3. QED
  BY <1>1, <1>2, SessionsUntouched, StepSound DEF SessionsConsistent, SessionsTypeOK

LEMMA RegisterSound ==
  ASSUME SessionsConsistent, NEW h \in Handlers, Register(h)
  PROVE  SessionsConsistent'
<1>1. PICK t \in Unissued :
        /\ session' = [session EXCEPT ![t] = "active"]
        /\ \/ call[h].op = "login" /\ Give(t) /\ Respond(h)
           \/ /\ call[h].op # "login"
              /\ Proceed(h, [call[h] EXCEPT !.new = t,
                   !.pc = IF call[h].op = "upgrade" THEN "revoke" ELSE "handoff"])
              /\ UNCHANGED held
           \/ Respond(h) /\ UNCHANGED held
  BY DEF Register
<1>2. t \in Tokens \ Legacy /\ session[t] = "none" /\ t \notin expired /\ t # None
  BY SessionsAssumption DEF Unissued
<1>3. UNCHANGED <<expired, code, urls, calls, gone, rotated>>
  BY DEF Register, SessionHistory
<1>4. session' \in [Tokens -> Items] /\ TokensMove /\ Issued(t)'
  BY <1>1, <1>2, <1>3
     DEF TokensMove, SessionsConsistent, SessionsTypeOK, Items, Issued
<1>5. held' \subseteq Tokens /\ held' \subseteq held \cup {t}
  BY <1>1, <1>2 DEF Give, SessionsConsistent, SessionsTypeOK
<1>6. \E c \in Call : call' = [call EXCEPT ![h] = c] /\ CallSound(c)'
  <2>1. CASE Respond(h)
    BY <2>1, NoCallSound DEF Respond, Proceed
  <2>2. CASE /\ call[h].op # "login"
             /\ Proceed(h, [call[h] EXCEPT !.new = t,
                  !.pc = IF call[h].op = "upgrade" THEN "revoke" ELSE "handoff"])
    <3>1. PICK b \in Call : b = call[h] /\ CallSound(b) /\ b.pc = "register"
      BY DEF SessionsConsistent, SessionsTypeOK, Register, CallAt
    <3> DEFINE c == [b EXCEPT !.new = t, !.pc = IF b.op = "upgrade" THEN "revoke" ELSE "handoff"]
    <3>2. CallSound(b)'
      BY <1>4, <3>1, CallStays DEF SessionsConsistent
    <3>3. c \in Call
      BY <1>2, <3>1 DEF Call, Maybe
    <3>4. CallSound(c)'
      BY <1>2, <1>4, <3>1, <3>2 DEF Call, CallSound
    <3>5. QED  BY <2>2, <3>1, <3>3, <3>4 DEF Proceed
  <2>3. QED  BY <1>1, <2>1, <2>2
<1>7. QED
  BY <1>3, <1>4, <1>5, <1>6, StepSound DEF SessionsConsistent, SessionsTypeOK

LEMMA CreateHandoffSound ==
  ASSUME SessionsConsistent, NEW h \in Handlers, CreateHandoff(h)
  PROVE  SessionsConsistent'
<1>1. PICK d \in Codes : code' = [code EXCEPT ![d] = call[h].new] /\ urls' = urls \cup {d}
  BY DEF CreateHandoff, Unused
<1>2. call[h].new \in Tokens /\ Issued(call[h].new)
  BY SessionsAssumption
     DEF CreateHandoff, CallAt, SessionsConsistent, SessionsTypeOK, CallSound, Call, Maybe
<1>3. UNCHANGED <<session, expired, held, calls, gone, rotated>>
  BY DEF CreateHandoff, SessionHistory
<1>4. /\ code' \in [Codes -> Contents]
      /\ \A e \in Codes : code'[e] # code[e] => Issued(code[e])'
  BY <1>1, <1>2, <1>3 DEF SessionsConsistent, SessionsTypeOK, Contents, Issued
<1>5. call' = [call EXCEPT ![h] = NoCall]
  BY DEF CreateHandoff, Respond, Proceed
<1>6. QED
  BY <1>1, <1>3, <1>4, <1>5, NoCallSound, SessionsUntouched, StepSound
     DEF SessionsConsistent, SessionsTypeOK

\* With its token ended a request answers, and then all its tokens are ended, or turns
\* to the next one.
LEMMA RevokedOneSound ==
  ASSUME SessionsConsistent, TokensMove, NEW h \in Handlers, NEW t \in call[h].old,
         call[h].pc \in {"revoke", "mark"}, Ended(t)', RevokedOne(h, t),
         session' \in [Tokens -> Items], UNCHANGED <<expired, code, urls, calls>>
  PROVE  SessionsConsistent'
<1>0. PICK b \in Call : b = call[h] /\ CallSound(b)
  BY DEF SessionsConsistent, SessionsTypeOK
<1>1. CallSound(b)'
  BY <1>0, CallStays DEF SessionsConsistent
<1>2. /\ b.asked \subseteq Tokens /\ b.old \subseteq b.asked
      /\ \A u \in b.asked : Issued(u)'
      /\ b.op = "logout" => \A u \in b.asked \ b.old : Ended(u)'
      /\ b.op \in {"logout", "upgrade"}
      /\ b.op = "upgrade" => b.new \in Tokens /\ Issued(b.new)'
  BY <1>0, <1>1 DEF Call, CallSound, Maybe
<1>3. CASE b.old = {t}
  <2>1. call' = [call EXCEPT ![h] = NoCall]
    BY <1>0, <1>3 DEF RevokedOne, Respond, Proceed
  <2>2. b.op = "logout" => \A u \in b.asked : Ended(u)'
    BY <1>2, <1>3
  <2>3. CASE b.op = "logout"
    <3>1. gone' = gone \cup b.asked /\ UNCHANGED <<held, rotated>>
      BY <1>0, <1>3, <2>3 DEF RevokedOne
    <3>2. gone' \subseteq Tokens /\ \A u \in gone' \ gone : Ended(u)'
      BY <1>2, <2>2, <2>3, <3>1 DEF SessionsConsistent, SessionsTypeOK
    <3>3. QED
      BY <2>1, <3>1, <3>2, NoCallSound, StepSound DEF SessionsConsistent, SessionsTypeOK
  <2>4. CASE b.op = "upgrade"
    <3>1. /\ held' = held \cup {b.new} /\ rotated' = rotated \cup {<<t, b.new>>}
          /\ UNCHANGED gone
      BY <1>0, <1>3, <2>4 DEF RevokedOne, Give
    <3>2. t \in Tokens /\ b.new \in Tokens /\ Issued(b.new)'
      BY <1>0, <1>2, <2>4
    <3>3. /\ held' \subseteq Tokens /\ \A u \in held' \ held : Issued(u)'
          /\ rotated' \subseteq Tokens \X Tokens /\ \A p \in rotated' \ rotated : Ended(p[1])'
      BY <3>1, <3>2 DEF SessionsConsistent, SessionsTypeOK
    <3>4. QED
      BY <2>1, <3>1, <3>3, NoCallSound, StepSound DEF SessionsConsistent, SessionsTypeOK
  <2>5. QED  BY <1>2, <2>3, <2>4
<1>4. CASE b.old # {t}
  <2> DEFINE c == [b EXCEPT !.pc = "revoke", !.old = @ \ {t}, !.at = None]
  <2>1. call' = [call EXCEPT ![h] = c] /\ UNCHANGED <<held, gone, rotated>>
    BY <1>0, <1>4 DEF RevokedOne, Proceed
  <2>2. c \in Call
    BY <1>0 DEF Call, Maybe
  <2>3. CallSound(c)'
    BY <1>0, <1>1, <1>2 DEF Call, CallSound
  <2>4. QED
    BY <2>1, <2>2, <2>3, StepSound DEF SessionsConsistent, SessionsTypeOK
<1>5. QED  BY <1>3, <1>4

LEMMA ReadSessionSound ==
  ASSUME SessionsConsistent, NEW h \in Handlers, ReadSession(h)
  PROVE  SessionsConsistent'
<1>1. UNCHANGED <<expired, code, urls, calls>> /\ call[h].pc = "revoke"
  BY DEF ReadSession, CallAt
<1>2. PICK b \in Call : b = call[h] /\ CallSound(b)
  BY DEF SessionsConsistent, SessionsTypeOK
<1>3. PICK t \in b.old \ expired :
        \/ t \in Legacy /\ session' = Revoked(t) /\ RevokedOne(h, t)
        \/ /\ t \notin Legacy /\ session[t] = "active"
           /\ Proceed(h, [call[h] EXCEPT !.pc = "mark", !.at = t])
           /\ UNCHANGED <<session, held, gone, rotated>>
        \/ t \notin Legacy /\ session[t] # "active" /\ RevokedOne(h, t) /\ UNCHANGED session
  BY <1>2 DEF ReadSession
<1>4. t \in Tokens /\ Issued(t)
  BY <1>2 DEF Call, CallSound
<1>5. CASE t \in Legacy /\ session' = Revoked(t) /\ RevokedOne(h, t)
  <2>1. session' \in [Tokens -> Items] /\ Ended(t)' /\ TokensMove
    BY <1>1, <1>4, <1>5, RevokedIsEnded DEF SessionsConsistent, TokensMove, Ended
  <2>2. QED  BY <1>1, <1>2, <1>5, <2>1, RevokedOneSound
<1>6. CASE /\ t \notin Legacy /\ session[t] # "active"
           /\ RevokedOne(h, t) /\ UNCHANGED session
  <2>1. session[t] \in {"revoked", "stub"}
    BY <1>3, <1>4, <1>6 DEF SessionsConsistent, SessionsTypeOK, Items, Issued
  <2>2. Ended(t)' /\ TokensMove /\ session' \in [Tokens -> Items]
    BY <1>1, <1>6, <2>1, SessionsUntouched DEF Ended
  <2>3. QED  BY <1>1, <1>2, <1>6, <2>2, RevokedOneSound
<1>7. CASE /\ Proceed(h, [call[h] EXCEPT !.pc = "mark", !.at = t])
           /\ UNCHANGED <<session, held, gone, rotated>>
  <2> DEFINE c == [b EXCEPT !.pc = "mark", !.at = t]
  <2>1. c \in Call
    BY <1>4 DEF Call, Maybe
  <2>2. CallSound(c)
    BY <1>1, <1>2, <1>3 DEF Call, CallSound
  <2>3. CallSound(c)'
    BY <1>1, <1>7, <2>2, SessionsUntouched
  <2>4. call' = [call EXCEPT ![h] = c]
    BY <1>2, <1>7 DEF Proceed
  <2>5. QED
    BY <1>1, <1>7, <2>1, <2>3, <2>4, SessionsUntouched, StepSound
       DEF SessionsConsistent, SessionsTypeOK
<1>8. QED  BY <1>3, <1>5, <1>6, <1>7

LEMMA MarkRevokedSound ==
  ASSUME SessionsConsistent, NEW h \in Handlers, MarkRevoked(h)
  PROVE  SessionsConsistent'
<1>1. PICK b \in Call : b = call[h] /\ CallSound(b) /\ b.pc = "mark"
  BY DEF SessionsConsistent, SessionsTypeOK, MarkRevoked, CallAt
<1>2. b.at \in b.old /\ b.at \in Tokens
  BY <1>1 DEF Call, CallSound
<1>3. /\ session' = Revoked(b.at) /\ RevokedOne(h, b.at)
      /\ UNCHANGED <<expired, code, urls, calls>>
  BY <1>1 DEF MarkRevoked
<1>4. session' \in [Tokens -> Items] /\ Ended(b.at)' /\ TokensMove
  BY <1>2, <1>3, RevokedIsEnded DEF SessionsConsistent, TokensMove, Ended
<1>5. QED  BY <1>1, <1>2, <1>3, <1>4, RevokedOneSound

LEMMA TokenExpiredSound ==
  ASSUME SessionsConsistent, NEW h \in Handlers, TokenExpired(h)
  PROVE  SessionsConsistent'
<1>1. UNCHANGED <<session, expired, code, urls, calls>> /\ call[h].pc = "revoke"
  BY DEF TokenExpired, CallAt
<1>2. CASE call[h].op = "logout"
  <2>1. PICK t \in call[h].old \cap expired : RevokedOne(h, t)
    BY <1>2 DEF TokenExpired
  <2>2. Ended(t)'
    BY <1>1, <2>1 DEF Ended
  <2>3. QED  BY <1>1, <2>1, <2>2, SessionsUntouched, RevokedOneSound
<1>3. CASE call[h].op # "logout"
  <2>1. Turn(h, "undo") /\ UNCHANGED <<held, gone, rotated>>
    BY <1>3 DEF TokenExpired
  <2>2. call[h].new # None
    BY <1>1, <1>3 DEF SessionsConsistent, CallSound
  <2>3. PICK c \in Call : call' = [call EXCEPT ![h] = c] /\ CallSound(c)
    BY <2>1, <2>2, TurnSound
  <2>4. QED
    BY <1>1, <2>1, <2>3, SessionsUntouched, StepSound DEF SessionsConsistent, SessionsTypeOK
<1>4. QED  BY <1>2, <1>3

LEMMA OutageSound ==
  ASSUME SessionsConsistent, NEW h \in Handlers, Outage(h)
  PROVE  SessionsConsistent'
<1>1. /\ UNCHANGED <<expired, code, held, urls, calls, gone, rotated>>
      /\ call[h].pc \in {"revoke", "mark"}
  BY DEF Outage, SessionHistory
<1>2. call[h] \in Call /\ CallSound(call[h])
  BY DEF SessionsConsistent, SessionsTypeOK
<1>3. session' \in [Tokens -> Items] /\ TokensMove
  <2>1. CASE session' = session
    BY <1>1, <2>1, SessionsUntouched
  <2>2. CASE session' # session
    <3>1. PICK t \in Tokens : session' = Revoked(t)
      BY <1>2, <2>2 DEF Outage, CallAt, Call, CallSound
    <3>2. QED  BY <1>1, <3>1, RevokedIsEnded DEF SessionsConsistent, TokensMove
  <2>3. QED  BY <2>1, <2>2
<1>4. PICK c \in Call : call' = [call EXCEPT ![h] = c] /\ CallSound(c)
  <2>1. CASE call[h].op = "logout"
    BY <2>1, NoCallSound DEF Outage, Respond, Proceed
  <2>2. CASE call[h].op # "logout"
    BY <1>1, <1>2, <2>2, TurnSound DEF Outage, CallSound
  <2>3. QED  BY <2>1, <2>2
<1>5. CallSound(c)'
  BY <1>3, <1>4, CallStays DEF SessionsConsistent
<1>6. QED
  BY <1>1, <1>3, <1>4, <1>5, StepSound DEF SessionsConsistent, SessionsTypeOK

LEMMA WithdrawNewSound ==
  ASSUME SessionsConsistent, NEW h \in Handlers, WithdrawNew(h)
  PROVE  SessionsConsistent'
<1>1. /\ UNCHANGED <<expired, code, held, urls, calls, gone, rotated>>
      /\ call' = [call EXCEPT ![h] = NoCall]
  BY DEF WithdrawNew, SessionHistory, Respond, Proceed
<1>2. call[h].new \in Tokens
  BY DEF WithdrawNew, CallAt, SessionsConsistent, SessionsTypeOK, CallSound, Call, Maybe
<1>3. session' \in [Tokens -> Items] /\ TokensMove
  BY <1>1, <1>2 DEF WithdrawNew, SessionsConsistent, SessionsTypeOK, Items, TokensMove
<1>4. QED
  BY <1>1, <1>3, NoCallSound, StepSound DEF SessionsConsistent, SessionsTypeOK

\* Time: tokens expire, the table and Redis forget.
LEMMA TimeSound ==
  ASSUME SessionsConsistent,
         \/ \E t \in Tokens : Expire(t) \/ Collect(t)
         \/ \E c \in Codes : ForgetCode(c)
  PROVE  SessionsConsistent'
<1>1. /\ UNCHANGED <<call, held, urls, calls, gone, rotated>>
      /\ expired \subseteq expired' /\ expired' \subseteq Tokens
      /\ session' \in [Tokens -> Items] /\ TokensMove
  BY DEF Expire, Collect, ForgetCode, SessionHistory, SessionsConsistent, SessionsTypeOK,
         Items, TokensMove
<1>2. /\ code' \in [Codes -> Contents]
      /\ \A c \in Codes : code'[c] \in Tokens => code'[c] = code[c]
  BY SessionsAssumption
     DEF Expire, Collect, ForgetCode, SessionsConsistent, SessionsTypeOK, Contents
<1>3. \A t \in Tokens : (Issued(t) => Issued(t)') /\ (Ended(t) => Ended(t)')
  BY <1>1, EndedStays DEF SessionsConsistent
<1>4. \A c \in Codes : code'[c] \in Tokens => Issued(code[c])'
  <2> SUFFICES ASSUME NEW c \in Codes, code'[c] \in Tokens PROVE Issued(code[c])'
    OBVIOUS
  <2>1. PICK t \in Tokens : t = code'[c] /\ t = code[c]
    BY <1>2
  <2>2. Issued(t)'
    BY <1>3, <2>1 DEF SessionsConsistent
  <2>3. QED  BY <2>1, <2>2 DEF Issued
<1>5. \A h \in Handlers : CallSound(call[h])'
  <2> SUFFICES ASSUME NEW h \in Handlers PROVE CallSound(call[h])'
    OBVIOUS
  <2>1. PICK c \in Call : c = call[h] /\ CallSound(c)
    BY DEF SessionsConsistent, SessionsTypeOK
  <2>2. CallSound(c)'
    BY <1>1, <2>1, CallStays DEF SessionsConsistent
  <2>3. QED  BY <1>1, <2>1, <2>2 DEF CallSound, Issued, Ended
<1>6. \A p \in rotated' : Ended(p[1])'
  <2> SUFFICES ASSUME NEW p \in rotated PROVE Ended(p[1])'
    BY <1>1
  <2>1. PICK t \in Tokens : t = p[1] /\ Ended(t)
    BY DEF SessionsConsistent, SessionsTypeOK
  <2>2. QED  BY <1>3, <2>1 DEF Ended
<1>7. SessionsTypeOK'
  BY <1>1, <1>2 DEF SessionsConsistent, SessionsTypeOK
<1>8. QED
  BY <1>1, <1>3, <1>4, <1>5, <1>6, <1>7 DEF SessionsConsistent, SessionsTypeOK

\* The inductive invariant: what a client, a code or a request has was issued, so that
\* no process can issue it again, and what was answered to be ended has expired or is
\* revoked (auth_sessions.py).
THEOREM SessionsConsistentCorrect == SessionSpec => []SessionsConsistent
<1>1. SessionInit => SessionsConsistent
  <2> SUFFICES ASSUME SessionInit PROVE SessionsConsistent
    OBVIOUS
  <2>1. SessionsTypeOK
    BY SessionsAssumption, NoCallSound DEF SessionInit, SessionsTypeOK, Items, Contents
  <2>2. \A t \in held : Issued(t)
    BY DEF SessionInit, Issued
  <2>3. \A c \in Codes : code[c] \notin Tokens
    BY SessionsAssumption DEF SessionInit
  <2>4. \A h \in Handlers : CallSound(call[h])
    BY NoCallSound DEF SessionInit
  <2>5. QED  BY <2>1, <2>2, <2>3, <2>4 DEF SessionInit, SessionsConsistent
<1>2. SessionsConsistent /\ [SessionNext]_sessionVars => SessionsConsistent'
  <2> SUFFICES ASSUME SessionsConsistent, [SessionNext]_sessionVars PROVE SessionsConsistent'
    OBVIOUS
  <2>1. ASSUME NEW h \in Handlers, Work(h) PROVE SessionsConsistent'
    <3>1. CASE Stop(h)
      BY <3>1, NoCallSound, SessionsUntouched, StepSound
         DEF Stop, Respond, Proceed, SessionHistory, SessionsConsistent, SessionsTypeOK
    <3>2. QED
      BY <2>1, <3>1, ReceiveSound, StartRedirectSound, ConsumeCodeSound, ValidateSound,
         RegisterSound, CreateHandoffSound, ReadSessionSound, MarkRevokedSound,
         TokenExpiredSound, OutageSound, WithdrawNewSound DEF Work
  <2>2. CASE UNCHANGED sessionVars
    BY <2>2 DEF sessionVars, SessionsConsistent, SessionsTypeOK, CallSound, Issued, Ended
  <2>3. QED  BY <2>1, <2>2, TimeSound DEF SessionNext, SessionsRest
<1>3. QED  BY <1>1, <1>2, PTL DEF SessionSpec

\* A token that was signed out of or given back for a new one is never usable again.
THEOREM EndedIsForGood == SessionSpec => []EndedStaysEnded
<1>1. SessionsConsistent => EndedStaysEnded
  BY DEF SessionsConsistent, SessionsTypeOK, EndedStaysEnded, Ended, Usable
<1>2. QED  BY <1>1, SessionsConsistentCorrect, PTL

-----------------------------------------------------------------------------
(* Accounts *)

LEMMA NoVisitSound == NoVisit \in Visit /\ VisitSound(NoVisit) /\ ~Mailing(NoVisit)
  BY AccountsAssumption DEF NoVisit, Visit, VisitSound, Mailing, Maybe

\* Accounts are never removed, links only get numbers that are new, and what was not
\* mailed by others stays so.
AccountsMove ==
  /\ \A id \in Ids : users[id] # None => users'[id] # None
  /\ links <= links' /\ links' \in Nat

LEMMA VisitStays ==
  ASSUME AccountsConsistent, AccountsMove, NEW v \in Visit, VisitSound(v),
         Mailing(v) => [id |-> v.id, number |-> v.number] \notin sent'
  PROVE  VisitSound(v)'
<1>1. v.id \in Ids \cup {None} /\ v.number \in Nat /\ links \in Nat
  BY DEF Visit, Maybe, AccountsConsistent, AccountsTypeOK
<1>2. QED  BY <1>1 DEF VisitSound, AccountsMove, Mailing

\* The request of one process changes: the others are as sound as before.
LEMMA VisitsSound ==
  ASSUME AccountsConsistent, AccountsMove, NEW h \in Handlers, NEW v \in Visit,
         visit' = [visit EXCEPT ![h] = v], VisitSound(v)',
         \A g \in Handlers : g # h /\ Mailing(visit[g]) =>
           /\ [id |-> visit[g].id, number |-> visit[g].number] \notin sent'
           /\ Mailing(v) => visit[g].number # v.number
  PROVE  /\ visit' \in [Handlers -> Visit]
         /\ \A g \in Handlers : VisitSound(visit[g])'
         /\ \A f, g \in Handlers :
              f # g /\ Mailing(visit'[f]) /\ Mailing(visit'[g]) =>
                visit'[f].number # visit'[g].number
<1>1. visit' \in [Handlers -> Visit]
  BY DEF AccountsConsistent, AccountsTypeOK
<1>2. ASSUME NEW g \in Handlers PROVE VisitSound(visit[g])'
  <2>1. CASE g = h
    <3>1. visit'[g] = v
      BY <2>1 DEF AccountsConsistent, AccountsTypeOK
    <3>2. QED  BY <3>1 DEF VisitSound, Mailing
  <2>2. CASE g # h
    <3>1. PICK w \in Visit : w = visit[g] /\ w = visit'[g] /\ VisitSound(w)
      BY <2>2 DEF AccountsConsistent, AccountsTypeOK
    <3>2. VisitSound(w)'
      BY <2>2, <3>1, VisitStays
    <3>3. QED  BY <3>1, <3>2 DEF VisitSound, Mailing
  <2>3. QED  BY <2>1, <2>2
<1>3. ASSUME NEW f \in Handlers, NEW g \in Handlers, f # g,
             Mailing(visit'[f]), Mailing(visit'[g])
      PROVE  visit'[f].number # visit'[g].number
  <2>1. /\ f # h => visit'[f] = visit[f]
        /\ g # h => visit'[g] = visit[g]
        /\ visit'[h] = v
    BY DEF AccountsConsistent, AccountsTypeOK
  <2>2. CASE f = h
    BY <1>3, <2>1, <2>2
  <2>3. CASE g = h
    BY <1>3, <2>1, <2>3
  <2>4. CASE f # h /\ g # h
    BY <1>3, <2>1, <2>4 DEF AccountsConsistent
  <2>5. QED  BY <2>2, <2>3, <2>4
<1>4. QED  BY <1>1, <1>2, <1>3

\* A step that only changes the request of one process, to a stage in which it has no
\* mail under way, or in which it has the one it had.
LEMMA OnlyRequestSound ==
  ASSUME AccountsConsistent, NEW h \in Handlers, NEW v \in Visit,
         visit' = [visit EXCEPT ![h] = v], VisitSound(v),
         Mailing(v) => Mailing(visit[h]) /\ v.number = visit[h].number,
         UNCHANGED <<users, index, links, mails, sent, used, reused, restored, edits>>,
         visits' \in Nat
  PROVE  AccountsConsistent'
<1>1. AccountsMove
  BY DEF AccountsMove, AccountsConsistent, AccountsTypeOK
<1>2. VisitSound(v)'
  BY DEF VisitSound, Mailing
<1>3. \A g \in Handlers : g # h /\ Mailing(visit[g]) =>
        /\ [id |-> visit[g].id, number |-> visit[g].number] \notin sent'
        /\ Mailing(v) => visit[g].number # v.number
  BY DEF AccountsConsistent, VisitSound
<1>4. /\ visit' \in [Handlers -> Visit]
      /\ \A g \in Handlers : VisitSound(visit[g])'
      /\ \A f, g \in Handlers :
           f # g /\ Mailing(visit'[f]) /\ Mailing(visit'[g]) =>
             visit'[f].number # visit'[g].number
  BY <1>1, <1>2, <1>3, VisitsSound
<1>5. AccountsTypeOK'
  BY <1>4 DEF AccountsConsistent, AccountsTypeOK
<1>6. (\A m \in used : Pending(m) => m \in restored)'
  BY DEF AccountsConsistent, Pending
<1>7. (\A id \in Ids :
       /\ index[id] # None => users[id] # None
       /\ edits[id] = IF users[id] = None THEN [f \in Fields |-> 0] ELSE users[id].details)'
  BY DEF AccountsConsistent
<1>8. (\A m \in mails \cup sent \cup used : users[m.id] # None /\ m.number \in 1..links)'
      /\ (reused \subseteq restored)'
  BY DEF AccountsConsistent
<1>9. (\A f, g \in Handlers :
        f # g /\ Mailing(visit[f]) /\ Mailing(visit[g]) => visit[f].number # visit[g].number)'
  BY <1>4 DEF Mailing
<1>10. QED
  BY <1>4, <1>5, <1>6, <1>7, <1>8, <1>9 DEF AccountsConsistent

\* A lookup answers with no account or with one that exists.
LEMMA LookupFinds ==
  ASSUME AccountsConsistent, NEW matches \in SUBSET ByEmail, NEW id \in Lookup(matches)
  PROVE  \/ id = None
         \/ id \in Ids /\ id # None /\ index[id] \in User /\ index[id] # None /\ users[id] # None
  BY DEF Lookup, Maybe, ByEmail, AccountsConsistent, AccountsTypeOK

\* A request that turns to another stage with an account that it found, or with none.
LEMMA ToSound ==
  ASSUME AccountsConsistent, NEW h \in Handlers, NEW pc, NEW id, NEW user, To(h, pc, id, user),
         \/ id = None /\ user = None /\ pc \in {"lookup", "create", "put", "refind"}
         \/ /\ id \in Ids /\ users[id] # None /\ user \in User
            /\ pc \in {"issue", "link", "mark"},
         visit[h].op = "verify" => id # None /\ pc = "mark"
  PROVE  \E v \in Visit : visit' = [visit EXCEPT ![h] = v] /\ VisitSound(v) /\ ~Mailing(v)
<1> DEFINE v == [visit[h] EXCEPT !.pc = pc, !.id = id, !.read = user]
<1>1. visit[h] \in Visit /\ VisitSound(visit[h])
  BY DEF AccountsConsistent, AccountsTypeOK
<1>2. v \in Visit
  BY <1>1 DEF Visit, Maybe
<1>3. VisitSound(v) /\ ~Mailing(v)
  BY <1>1, AccountsAssumption DEF Visit, VisitSound, Mailing
<1>4. QED  BY <1>2, <1>3 DEF To, Go

\* The steps that only read, or that answer.
LEMMA ReadsSound ==
  ASSUME AccountsConsistent, NEW h \in Handlers,
         \/ FindForSignup(h) \/ FindForResend(h) \/ CreateAccount(h) \/ Refind(h)
         \/ ReadLink(h) \/ FindIdentity(h) \/ FindGoogleAccount(h) \/ Fail(h)
  PROVE  AccountsConsistent'
<1> DEFINE Moved == \E v \in Visit : visit' = [visit EXCEPT ![h] = v] /\ VisitSound(v) /\ ~Mailing(v)
           Found(id) == \/ id = None
                        \/ /\ id \in Ids /\ id # None /\ users[id] # None
                           /\ index[id] \in User
<1>1. Answer(h) => Moved
  BY NoVisitSound DEF Answer, Go
<1>2. \A id \in Lookup(ByEmail) \cup Lookup(ByGoogle) : Found(id)
  BY LookupFinds DEF ByGoogle
<1>3. /\ \A id \in Ids, pc \in {"issue", "link", "mark"} :
           users[id] # None /\ index[id] \in User /\ visit[h].op # "verify" =>
             (To(h, pc, id, index[id]) => Moved)
      /\ \A pc \in {"lookup", "create", "put", "refind"} :
           visit[h].op # "verify" => (To(h, pc, None, None) => Moved)
  <2> HIDE DEF Moved
  <2>1. ASSUME NEW id \in Ids, NEW pc \in {"issue", "link", "mark"},
               users[id] # None, index[id] \in User, visit[h].op # "verify",
               To(h, pc, id, index[id])
        PROVE  Moved
    BY <2>1, ToSound DEF Moved
  <2>2. ASSUME NEW pc \in {"lookup", "create", "put", "refind"}, visit[h].op # "verify",
               To(h, pc, None, None)
        PROVE  Moved
    BY <2>2, ToSound DEF Moved
  <2>3. QED  BY <2>1, <2>2
<1>4. VisitSound(visit[h]) /\ visit[h] \in Visit
  BY DEF AccountsConsistent, AccountsTypeOK
<1>5. Moved
  <2> HIDE DEF Moved, Found
  <2>1. CASE FindForSignup(h)
    <3>1. PICK id \in Lookup(ByEmail) :
            \/ id = None /\ To(h, "create", None, None)
            \/ id # None /\ To(h, "issue", id, index[id])
            \/ Answer(h)
      BY <2>1 DEF FindForSignup
    <3>2. visit[h].op # "verify"
      BY <2>1 DEF FindForSignup
    <3>3. QED  BY <1>1, <1>2, <1>3, <3>1, <3>2 DEF Found
  <2>2. CASE FindForResend(h)
    <3>1. PICK id \in Lookup(ByEmail) :
            \/ id # None /\ To(h, "issue", id, index[id])
            \/ Answer(h)
      BY <2>2 DEF FindForResend
    <3>2. visit[h].op # "verify"
      BY <2>2 DEF FindForResend
    <3>3. QED  BY <1>1, <1>2, <1>3, <3>1, <3>2 DEF Found
  <2>3. CASE CreateAccount(h)
    <3>1. PICK id \in Lookup(ByEmail) :
            IF id # None THEN Adopt(h, id, index[id]) ELSE To(h, "put", None, None)
      BY <2>3 DEF CreateAccount
    <3>2. visit[h].op # "verify"
      BY <1>4, <2>3 DEF CreateAccount, In, VisitSound
    <3>3. QED  BY <1>1, <1>2, <1>3, <3>1, <3>2 DEF Found, Adopt
  <2>4. CASE Refind(h)
    <3>1. PICK id \in Lookup(ByEmail) :
            \/ Answer(h)
            \/ id # None /\ (To(h, "issue", id, index[id]) \/ To(h, "mark", id, index[id]))
      BY <2>4 DEF Refind
    <3>2. visit[h].op # "verify"
      BY <1>4, <2>4 DEF Refind, In, VisitSound
    <3>3. QED  BY <1>1, <1>2, <1>3, <3>1, <3>2 DEF Found
  <2>5. CASE ReadLink(h)
    <3>1. visit[h].id \in Ids /\ users[visit[h].id] \in User /\ users[visit[h].id] # None
      BY <1>4, <2>5, AccountsAssumption
         DEF ReadLink, VisitSound, Visit, Maybe, AccountsConsistent, AccountsTypeOK
    <3>2. CASE To(h, "mark", visit[h].id, users[visit[h].id])
      <4>1. visit[h].id # None
        BY <3>1, AccountsAssumption
      <4>2. QED  BY <3>1, <3>2, <4>1, ToSound DEF Moved
    <3>3. QED  BY <1>1, <2>5, <3>2 DEF ReadLink
  <2>6. CASE FindIdentity(h)
    <3>1. Answer(h) \/ To(h, "lookup", None, None)
      BY <2>6 DEF FindIdentity
    <3>2. visit[h].op # "verify"
      BY <1>4, <2>6 DEF FindIdentity, In, VisitSound
    <3>3. QED  BY <1>1, <1>3, <3>1, <3>2
  <2>7. CASE FindGoogleAccount(h)
    <3>1. PICK id \in Lookup(ByEmail) :
            \/ id = None /\ To(h, "create", None, None)
            \/ id # None /\ To(h, "link", id, index[id])
            \/ Answer(h)
      BY <2>7 DEF FindGoogleAccount
    <3>2. visit[h].op # "verify"
      BY <2>7 DEF FindGoogleAccount
    <3>3. QED  BY <1>1, <1>2, <1>3, <3>1, <3>2 DEF Found
  <2>8. CASE Fail(h)
    BY <1>1, <2>8 DEF Fail
  <2>9. QED  BY <2>1, <2>2, <2>3, <2>4, <2>5, <2>6, <2>7, <2>8
<1>6. OnlyRequest
  BY DEF FindForSignup, FindForResend, CreateAccount, Refind, ReadLink, FindIdentity,
         FindGoogleAccount, Fail
<1>7. QED
  BY <1>5, <1>6, OnlyRequestSound DEF OnlyRequest, History, AccountsConsistent, AccountsTypeOK

LEMMA BeginSound ==
  ASSUME AccountsConsistent, NEW h \in Handlers, Begin(h)
  PROVE  AccountsConsistent'
<1>1. \E v \in Visit : visit' = [visit EXCEPT ![h] = v] /\ VisitSound(v) /\ ~Mailing(v)
  <2> DEFINE Sound(v) == v \in Visit /\ VisitSound(v) /\ ~Mailing(v)
  <2>1. ASSUME NEW op \in {"signup", "resend"}
        PROVE  Sound([NoVisit EXCEPT !.op = op, !.pc = "lookup"])
    BY NoVisitSound DEF NoVisit, Visit, VisitSound, Mailing
  <2>2. Sound([NoVisit EXCEPT !.op = "google", !.pc = "identity"])
    BY NoVisitSound DEF NoVisit, Visit, VisitSound, Mailing
  <2>3. ASSUME NEW m \in mails
        PROVE  Sound([NoVisit EXCEPT !.op = "verify", !.pc = "lookup",
                                     !.id = m.id, !.number = m.number])
    <3>1. m.id \in Ids /\ m.id # None /\ m.number \in Nat /\ users[m.id] # None
      BY AccountsAssumption DEF AccountsConsistent, AccountsTypeOK, Link
    <3>2. m.number \in 1..links
      BY DEF AccountsConsistent
    <3>3. QED  BY <3>1, <3>2, NoVisitSound DEF NoVisit, Visit, VisitSound, Mailing, Maybe
  <2> HIDE DEF Sound
  <2>4. \E v : Go(h, v) /\ Sound(v)
    BY <2>1, <2>2, <2>3 DEF Begin
  <2>5. QED  BY <2>4 DEF Go, Sound
<1>2. /\ UNCHANGED <<users, index, links, mails, sent, used, reused, restored, edits>>
      /\ visits' = visits + 1
  BY DEF Begin, Arrive, History
<1>3. visits' \in Nat
  BY <1>2 DEF AccountsConsistent, AccountsTypeOK
<1>4. QED  BY <1>1, <1>2, <1>3, OnlyRequestSound

\* An account gets new contents, with the details of its edits.
Rewritten(id, user) == user.details = edits[id] /\ users' = [users EXCEPT ![id] = user]

\* Then a link counts as used only if it was before or the account has none now, and one
\* that the account has again is said to be restored.
LinksAccounted(id, user) ==
  /\ used' \subseteq Link /\ reused' \subseteq Link /\ restored' \subseteq Link
  /\ restored \subseteq restored' /\ reused' \subseteq restored'
  /\ \A m \in used' : m \in used \/ (m.id = id /\ m.number \in 1..links /\ user.link = 0)
  /\ \A m \in used' : m.id = id /\ m.number = user.link => m \in restored'

\* What remains to be shown of a step that rewrites the account of a request.
LEMMA WriteSound ==
  ASSUME AccountsConsistent, NEW h \in Handlers, NEW v \in Visit, NEW id \in Ids, NEW user \in User,
         Go(h, v), VisitSound(v)', Rewritten(id, user), LinksAccounted(id, user),
         ~Mailing(v) \/ v.number = links',
         Mailing(v) => links' = links + 1,
         links' \in {links, links + 1},
         UNCHANGED <<index, mails, visits, sent, edits>>
  PROVE  AccountsConsistent'
<1> USE DEF Go, Rewritten, LinksAccounted
<1>1. /\ links \in Nat /\ links' \in Nat
      /\ users' \in [Ids -> Maybe(User)] /\ \A i \in Ids : users[i] # None => users'[i] # None
      /\ users'[id] # None
  BY AccountsAssumption DEF AccountsConsistent, AccountsTypeOK, Maybe
<1>2. AccountsMove
  BY <1>1 DEF AccountsMove
<1>3. \A g \in Handlers : g # h /\ Mailing(visit[g]) =>
        /\ [id |-> visit[g].id, number |-> visit[g].number] \notin sent'
        /\ Mailing(v) => visit[g].number # v.number
  BY <1>1 DEF AccountsConsistent, VisitSound
<1>4. /\ visit' \in [Handlers -> Visit]
      /\ \A g \in Handlers : VisitSound(visit[g])'
      /\ \A f, g \in Handlers :
           f # g /\ Mailing(visit'[f]) /\ Mailing(visit'[g]) =>
             visit'[f].number # visit'[g].number
  BY <1>2, <1>3, VisitsSound
<1>5. AccountsTypeOK'
  BY <1>1, <1>4 DEF AccountsConsistent, AccountsTypeOK
<1>6. (\A i \in Ids :
       /\ index[i] # None => users[i] # None
       /\ edits[i] = IF users[i] = None THEN [f \in Fields |-> 0] ELSE users[i].details)'
  <2> SUFFICES ASSUME NEW i \in Ids
               PROVE  /\ index'[i] # None => users'[i] # None
                      /\ edits'[i] = IF users'[i] = None THEN [f \in Fields |-> 0]
                                     ELSE users'[i].details
    OBVIOUS
  <2>1. CASE i = id
    BY <1>1, <2>1 DEF AccountsConsistent, AccountsTypeOK
  <2>2. CASE i # id
    BY <1>1, <2>2 DEF AccountsConsistent, AccountsTypeOK
  <2>3. QED  BY <2>1, <2>2
<1>7. (\A m \in mails \cup sent \cup used : users[m.id] # None /\ m.number \in 1..links)'
  <2> SUFFICES ASSUME NEW m \in mails \cup sent \cup used'
               PROVE  users'[m.id] # None /\ m.number \in 1..links'
    OBVIOUS
  <2>1. CASE m \in mails \cup sent \cup used
    <3>1. users[m.id] # None /\ m.number \in 1..links /\ m.id \in Ids
      BY <2>1 DEF AccountsConsistent, AccountsTypeOK, Link
    <3>2. QED  BY <1>1, <3>1
  <2>2. CASE m \notin mails \cup sent \cup used
    BY <1>1, <2>2
  <2>3. QED  BY <2>1, <2>2
<1>8. (\A f, g \in Handlers :
        f # g /\ Mailing(visit[f]) /\ Mailing(visit[g]) => visit[f].number # visit[g].number)'
  BY <1>4 DEF Mailing
<1>9. (\A m \in used : Pending(m) => m \in restored)'
  <2> SUFFICES ASSUME NEW m \in used', Pending(m)' PROVE m \in restored'
    OBVIOUS
  <2>1. CASE m.id = id
    BY <2>1 DEF Pending, AccountsConsistent, AccountsTypeOK
  <2>2. CASE m.id # id
    <3>1. m \in used /\ m.id \in Ids
      BY <2>2 DEF AccountsConsistent, AccountsTypeOK, Link
    <3>2. QED  BY <2>2, <3>1 DEF Pending, AccountsConsistent, AccountsTypeOK
  <2>3. QED  BY <2>1, <2>2
<1>10. (reused \subseteq restored)'
  OBVIOUS
<1>11. QED
  BY <1>4, <1>5, <1>6, <1>7, <1>8, <1>9, <1>10 DEF AccountsConsistent

LEMMA AccountOf ==
  ASSUME AccountsConsistent, NEW h \in Handlers,
         visit[h].pc \in {"issue", "send", "restore", "mark", "link"}
  PROVE  /\ visit[h].id \in Ids /\ visit[h].read \in User
         /\ users[visit[h].id] \in User /\ users[visit[h].id] # None
         /\ visit[h] \in Visit /\ VisitSound(visit[h]) /\ visit[h].number \in Nat
         /\ links \in Nat
<1>1. visit[h] \in Visit /\ VisitSound(visit[h]) /\ links \in Nat
  BY DEF AccountsConsistent, AccountsTypeOK
<1>2. visit[h].id \in Ids /\ visit[h].read \in User /\ users[visit[h].id] # None
  BY <1>1 DEF Visit, Maybe, VisitSound
<1>3. users[visit[h].id] \in User
  BY <1>2 DEF AccountsConsistent, AccountsTypeOK, Maybe
<1>4. QED  BY <1>1, <1>2, <1>3 DEF Visit

LEMMA IssueLinkSound ==
  ASSUME AccountsConsistent, NEW h \in Handlers, IssueLink(h)
  PROVE  AccountsConsistent'
<1>1. visit[h].pc = "issue"
  BY DEF IssueLink, In
<1> PICK b \in Visit : b = visit[h] /\ VisitSound(b) /\ b.pc = "issue"
  BY <1>1, AccountOf
<1> PICK id \in Ids : id = b.id /\ users[id] # None
  BY <1>1, AccountOf
<1> PICK account \in User : account = users[id] /\ account.details = edits[id]
  BY <1>1, AccountOf DEF AccountsConsistent
<1> PICK n \in Nat : n = links + 1
  BY <1>1, AccountOf
<1>2. /\ links \in Nat /\ links' = links + 1
      /\ UNCHANGED <<index, mails, visits, sent, used, reused, restored, edits>>
  BY <1>1, AccountOf DEF IssueLink, History
<1>3. PICK user \in User : Rewritten(id, user) /\ user.link = n
  <2>1. users' = [users EXCEPT ![id] = [account EXCEPT !.link = n]]
    BY DEF IssueLink
  <2>2. /\ [account EXCEPT !.link = n] \in User
        /\ [account EXCEPT !.link = n].details = edits[id]
        /\ [account EXCEPT !.link = n].link = n
    BY DEF User
  <2>3. QED  BY <2>1, <2>2 DEF Rewritten
<1>4. PICK v \in Visit : /\ Go(h, v) /\ v.pc = "send" /\ v.number = n
                         /\ v.op = b.op /\ v.id = id /\ v.read = b.read
  <2>1. Go(h, [b EXCEPT !.pc = "send", !.number = n])
    BY DEF IssueLink
  <2>2. /\ [b EXCEPT !.pc = "send", !.number = n] \in Visit
        /\ [b EXCEPT !.pc = "send", !.number = n].pc = "send"
        /\ [b EXCEPT !.pc = "send", !.number = n].number = n
        /\ [b EXCEPT !.pc = "send", !.number = n].op = b.op
        /\ [b EXCEPT !.pc = "send", !.number = n].id = id
        /\ [b EXCEPT !.pc = "send", !.number = n].read = b.read
    BY DEF Visit
  <2>3. QED  BY <2>1, <2>2
<1>5. VisitSound(v)'
  <2>1. [id |-> id, number |-> n] \notin sent'
    <3>1. \A m \in sent : m.number \in 1..links
      BY DEF AccountsConsistent
    <3>2. QED  BY <1>2, <3>1
  <2>2. users'[id] # None
    BY <1>3, AccountsAssumption DEF Rewritten, AccountsConsistent, AccountsTypeOK
  <2>3. b.op # "verify" /\ id # None /\ b.read # None
    BY AccountsAssumption DEF VisitSound
  <2>4. QED  BY <1>2, <1>4, <2>1, <2>2, <2>3 DEF VisitSound, Mailing
<1>6. LinksAccounted(id, user)
  BY <1>2, <1>3 DEF LinksAccounted, AccountsConsistent, AccountsTypeOK
<1>7. Mailing(v) /\ v.number = links' /\ links' \in {links, links + 1}
  BY <1>2, <1>4 DEF Mailing
<1>8. QED
  BY <1>2, <1>3, <1>4, <1>5, <1>6, <1>7, WriteSound

\* A request that ends with a write.
LEMMA EndingWriteSound ==
  ASSUME AccountsConsistent, NEW h \in Handlers, NEW id \in Ids, NEW user \in User,
         Answer(h), Rewritten(id, user), LinksAccounted(id, user),
         UNCHANGED <<index, links, mails, visits, sent, edits>>
  PROVE  AccountsConsistent'
<1>1. /\ Go(h, NoVisit) /\ NoVisit \in Visit /\ ~Mailing(NoVisit)
      /\ VisitSound(NoVisit)'
  BY NoVisitSound DEF Answer, VisitSound, NoVisit, Mailing
<1>2. QED  BY <1>1, WriteSound

\* It takes back its own link only, and says so.
LEMMA RestoreLinkSound ==
  ASSUME AccountsConsistent, NEW h \in Handlers, RestoreLink(h)
  PROVE  AccountsConsistent'
<1>1. visit[h].pc = "restore" /\ visit[h].op # "verify"
  BY AccountOf DEF RestoreLink, In, VisitSound
<1> PICK id \in Ids : id = visit[h].id
  BY <1>1, AccountOf
<1> PICK n \in Nat : n = visit[h].read.link
  BY <1>1, AccountOf DEF User
<1> PICK account \in User : account = users[id] /\ users[id] # None /\ account.details = edits[id]
  BY <1>1, AccountOf DEF AccountsConsistent
<1>2. Answer(h) /\ UNCHANGED <<index, links, mails, visits, sent, used, reused, edits>>
  BY DEF RestoreLink
<1>3. CASE users[id].link = visit[h].number
  <2>1. PICK user \in User : Rewritten(id, user) /\ user.link = n
    <3>1. users' = [users EXCEPT ![id] = [account EXCEPT !.link = n]]
      BY <1>3 DEF RestoreLink
    <3>2. /\ [account EXCEPT !.link = n] \in User
          /\ [account EXCEPT !.link = n].details = edits[id]
          /\ [account EXCEPT !.link = n].link = n
      BY DEF User
    <3>3. QED  BY <3>1, <3>2 DEF Rewritten
  <2>2. /\ restored' = restored \cup {[id |-> id, number |-> n]}
        /\ [id |-> id, number |-> n] \in Link
    BY <1>3 DEF RestoreLink, Link
  <2>3. \A m \in used' : m.id = id /\ m.number = n => m = [id |-> id, number |-> n]
    BY <1>2 DEF AccountsConsistent, AccountsTypeOK, Link
  <2>4. LinksAccounted(id, user)
    BY <1>2, <2>1, <2>2, <2>3 DEF LinksAccounted, AccountsConsistent, AccountsTypeOK
  <2>5. QED
    BY <1>2, <2>1, <2>4, EndingWriteSound
<1>4. CASE users[id].link # visit[h].number
  <2>1. UNCHANGED <<users, restored>>
    BY <1>4 DEF RestoreLink
  <2>2. QED
    BY <1>2, <2>1, NoVisitSound, OnlyRequestSound
       DEF Answer, Go, AccountsConsistent, AccountsTypeOK
<1>5. QED  BY <1>3, <1>4

\* A link is used up by the account that it activates; one that activates it again was
\* put back in between.
LEMMA ActivateSound ==
  ASSUME AccountsConsistent, NEW h \in Handlers, Activate(h) \/ ActivateByGoogle(h)
  PROVE  AccountsConsistent'
<1>1. visit[h].pc = "mark"
  BY DEF Activate, ActivateByGoogle, In
<1> PICK id \in Ids : id = visit[h].id
  BY <1>1, AccountOf
<1> PICK account \in User : account = users[id] /\ users[id] # None /\ account.details = edits[id]
  BY <1>1, AccountOf DEF AccountsConsistent
<1>2. Answer(h) /\ UNCHANGED <<index, links, mails, visits, sent, restored, edits>>
  BY DEF Activate, ActivateByGoogle, History
<1>3. CASE UNCHANGED <<users, used, reused>>
  BY <1>2, <1>3, NoVisitSound, OnlyRequestSound
     DEF Answer, Go, AccountsConsistent, AccountsTypeOK
<1>4. CASE ~UNCHANGED <<users, used, reused>>
  <2>1. PICK user \in User : Rewritten(id, user) /\ user.link = 0
    <3>1. users' = [users EXCEPT ![id] = [account EXCEPT !.verified = TRUE, !.link = 0]]
      BY <1>4 DEF Activate, ActivateByGoogle
    <3>2. /\ [account EXCEPT !.verified = TRUE, !.link = 0] \in User
          /\ [account EXCEPT !.verified = TRUE, !.link = 0].details = edits[id]
          /\ [account EXCEPT !.verified = TRUE, !.link = 0].link = 0
      BY DEF User
    <3>3. QED  BY <3>1, <3>2 DEF Rewritten
  <2>2. \/ UNCHANGED <<used, reused>>
        \/ /\ users[id].link = visit[h].number /\ visit[h].op = "verify"
           /\ used' = used \cup {Requested(h)}
           /\ reused' = reused \cup ({Requested(h)} \cap used)
    BY <1>4 DEF Activate, ActivateByGoogle, History
  <2>3. \A m \in used' : m \in used \/ (m.id = id /\ m.number \in 1..links /\ user.link = 0)
    BY <1>1, <2>1, <2>2, AccountOf DEF VisitSound, Requested
  <2>4. \A m \in used' : m.number \in 1..links
    BY <2>3 DEF AccountsConsistent
  <2>5. used' \subseteq Link /\ reused' \subseteq Link
    <3>1. Requested(h) \in Link
      BY <1>1, AccountOf DEF Requested, Link
    <3>2. QED  BY <2>2, <3>1 DEF AccountsConsistent, AccountsTypeOK
  <2>6. reused' \subseteq restored
    <3>1. CASE UNCHANGED <<used, reused>>
      BY <3>1 DEF AccountsConsistent
    <3>2. CASE users[id].link = visit[h].number /\ reused' = reused \cup ({Requested(h)} \cap used)
      <4>1. Pending(Requested(h))
        BY <3>2 DEF Pending, Requested
      <4>2. QED  BY <3>2, <4>1 DEF AccountsConsistent
    <3>3. QED  BY <2>2, <3>1, <3>2
  <2>7. LinksAccounted(id, user)
    <3>1. restored' \subseteq Link /\ restored' = restored
      BY <1>2 DEF AccountsConsistent, AccountsTypeOK
    <3>2. QED  BY <2>1, <2>3, <2>4, <2>5, <2>6, <3>1 DEF LinksAccounted
  <2>8. QED
    BY <1>2, <2>1, <2>7, EndingWriteSound
<1>5. QED  BY <1>3, <1>4

LEMMA LinkIdentitySound ==
  ASSUME AccountsConsistent, NEW h \in Handlers, LinkIdentity(h)
  PROVE  AccountsConsistent'
<1>1. visit[h].pc = "link" /\ visit[h].op # "verify"
  BY AccountOf DEF LinkIdentity, In, VisitSound
<1> PICK id \in Ids : id = visit[h].id
  BY <1>1, AccountOf
<1> PICK account \in User : account = users[id] /\ users[id] # None /\ account.details = edits[id]
  BY <1>1, AccountOf DEF AccountsConsistent
<1>2. UNCHANGED <<index, links, mails, visits, sent, used, reused, restored, edits>>
  BY DEF LinkIdentity, History
<1>3. CASE Answer(h) /\ users' = [users EXCEPT ![visit[h].id].google = TRUE]
  <2>1. PICK user \in User : Rewritten(id, user) /\ user.link = users[id].link
    <3>1. users' = [users EXCEPT ![id] = [account EXCEPT !.google = TRUE]]
      BY <1>3
    <3>2. /\ [account EXCEPT !.google = TRUE] \in User
          /\ [account EXCEPT !.google = TRUE].details = edits[id]
          /\ [account EXCEPT !.google = TRUE].link = users[id].link
      BY DEF User
    <3>3. QED  BY <3>1, <3>2 DEF Rewritten
  <2>2. \A m \in used : m.id = id /\ m.number = users[id].link => m \in restored
    BY DEF AccountsConsistent, Pending
  <2>3. LinksAccounted(id, user)
    BY <1>2, <2>1, <2>2 DEF LinksAccounted, AccountsConsistent, AccountsTypeOK
  <2>4. QED
    BY <1>2, <1>3, <2>1, <2>3, EndingWriteSound
<1>4. CASE UNCHANGED users /\ (Answer(h) \/ To(h, "mark", visit[h].id, visit[h].read))
  <2>1. \E v \in Visit : visit' = [visit EXCEPT ![h] = v] /\ VisitSound(v) /\ ~Mailing(v)
    <3>1. CASE Answer(h)
      BY <3>1, NoVisitSound DEF Answer, Go
    <3>2. CASE To(h, "mark", visit[h].id, visit[h].read)
      BY <1>1, <3>2, AccountOf, ToSound
    <3>3. QED  BY <1>4, <3>1, <3>2
  <2>2. QED
    BY <1>2, <1>4, <2>1, OnlyRequestSound DEF AccountsConsistent, AccountsTypeOK
<1>5. QED  BY <1>3, <1>4 DEF LinkIdentity

\* _save_new_user: an account that did not exist, for which nothing was mailed or edited.
LEMMA PutAccountSound ==
  ASSUME AccountsConsistent, NEW h \in Handlers, PutAccount(h)
  PROVE  AccountsConsistent'
<1>1. visit[h].pc = "put"
  BY DEF PutAccount, In
<1> PICK b \in Visit : b = visit[h] /\ VisitSound(b) /\ b.pc = "put" /\ b.op # "verify"
  BY <1>1 DEF AccountsConsistent, AccountsTypeOK, VisitSound
<1>2. PICK id \in Ids, user \in User :
        /\ users[id] = None /\ user = NewUser(visit[h].op = "google")
        /\ users' = [users EXCEPT ![id] = user]
        /\ \/ To(h, "issue", id, user)
           \/ Answer(h)
           \/ To(h, "refind", None, None)
  <2>1. NewUser(visit[h].op = "google") \in User
    BY DEF NewUser, User
  <2>2. QED  BY <2>1 DEF PutAccount
<1>3. UNCHANGED <<index, links, mails, visits, sent, used, reused, restored, edits>>
  BY DEF PutAccount, History
<1>4. Rewritten(id, user) /\ user.link = 0
  BY <1>2 DEF Rewritten, NewUser, AccountsConsistent
<1>5. users'[id] # None
  BY <1>2, AccountsAssumption DEF AccountsConsistent, AccountsTypeOK
<1>6. PICK v \in Visit : Go(h, v) /\ ~Mailing(v) /\ VisitSound(v)'
  <2>1. CASE To(h, "issue", id, user)
    <3> DEFINE w == [b EXCEPT !.pc = "issue", !.id = id, !.read = user]
    <3>1. /\ w \in Visit /\ w.pc = "issue" /\ w.op # "verify"
          /\ w.id = id /\ w.read = user
      BY DEF Visit, Maybe
    <3>2. Go(h, w)
      BY <2>1 DEF To
    <3> HIDE DEF w
    <3>3. VisitSound(w)' /\ ~Mailing(w)
      BY <1>5, <3>1, AccountsAssumption DEF VisitSound, Mailing
    <3>4. QED  BY <3>1, <3>2, <3>3
  <2>2. CASE Answer(h)
    BY <2>2, NoVisitSound DEF Answer, VisitSound, NoVisit, Mailing
  <2>3. CASE To(h, "refind", None, None)
    <3> DEFINE w == [b EXCEPT !.pc = "refind", !.id = None, !.read = None]
    <3>1. /\ w \in Visit /\ w.pc = "refind" /\ w.op # "verify" /\ w.id = None
      BY DEF Visit, Maybe
    <3>2. Go(h, w)
      BY <2>3 DEF To
    <3> HIDE DEF w
    <3>3. VisitSound(w)' /\ ~Mailing(w)
      BY <3>1 DEF VisitSound, Mailing
    <3>4. QED  BY <3>1, <3>2, <3>3
  <2>4. QED  BY <1>2, <2>1, <2>2, <2>3
<1>7. LinksAccounted(id, user)
  <2>1. \A m \in used' : m \in used /\ m.number \in 1..links
    BY <1>3 DEF AccountsConsistent
  <2>2. links \in Nat
    BY DEF AccountsConsistent, AccountsTypeOK
  <2>3. QED
    BY <1>3, <1>4, <2>1, <2>2 DEF LinksAccounted, AccountsConsistent, AccountsTypeOK
<1>8. QED
  BY <1>3, <1>4, <1>6, <1>7, WriteSound

\* A mail carries a link that no other request can take back.
LEMMA SendMailSound ==
  ASSUME AccountsConsistent, NEW h \in Handlers, SendMail(h)
  PROVE  AccountsConsistent'
<1>1. visit[h].pc = "send"
  BY DEF SendMail, In
<1> PICK b \in Visit : b = visit[h] /\ VisitSound(b) /\ b.pc = "send"
  BY <1>1, AccountOf
<1> PICK m \in Link : m = Requested(h) /\ m.id = b.id /\ m.number = b.number
  <2>1. Requested(h) = [id |-> b.id, number |-> b.number]
    BY DEF Requested
  <2>2. [id |-> b.id, number |-> b.number] \in Link
    BY <1>1, AccountOf DEF Link
  <2>3. QED  BY <2>1, <2>2
<1>2. /\ UNCHANGED <<users, index, links, visits, used, reused, restored, edits>>
      /\ mails' \in {mails, mails \cup {m}} /\ sent' \in {sent, sent \cup {m}}
  BY DEF SendMail
<1>3. AccountsMove /\ users[m.id] # None /\ m.number \in 1..links
  BY <1>2 DEF AccountsMove, AccountsConsistent, AccountsTypeOK, VisitSound, Mailing
<1>4. PICK v \in Visit : /\ visit' = [visit EXCEPT ![h] = v] /\ VisitSound(v)'
                         /\ Mailing(v) => v.number = b.number
  <2>1. CASE Answer(h)
    BY <2>1, NoVisitSound DEF Answer, Go, NoVisit, VisitSound, Mailing
  <2>2. CASE Go(h, [visit[h] EXCEPT !.pc = "restore"]) /\ UNCHANGED sent
    <3> DEFINE w == [b EXCEPT !.pc = "restore"]
    <3>1. /\ w \in Visit /\ w.pc = "restore" /\ w.op = b.op /\ w.id = b.id
          /\ w.read = b.read /\ w.number = b.number
      BY DEF Visit
    <3>2. visit' = [visit EXCEPT ![h] = w]
      BY <2>2 DEF Go
    <3> HIDE DEF w
    <3>3. VisitSound(w)'
      BY <1>2, <2>2, <3>1 DEF VisitSound, Mailing
    <3>4. QED  BY <3>1, <3>2, <3>3
  <2>3. QED  BY <2>1, <2>2 DEF SendMail
<1>5. \A g \in Handlers : g # h /\ Mailing(visit[g]) =>
        /\ [id |-> visit[g].id, number |-> visit[g].number] \notin sent'
        /\ Mailing(v) => visit[g].number # v.number
  <2> SUFFICES ASSUME NEW g \in Handlers, g # h, Mailing(visit[g])
               PROVE  /\ [id |-> visit[g].id, number |-> visit[g].number] \notin sent'
                      /\ Mailing(v) => visit[g].number # v.number
    OBVIOUS
  <2>1. Mailing(visit[h])
    BY <1>1 DEF Mailing
  <2>2. visit[g].number # b.number
    BY <2>1 DEF AccountsConsistent
  <2>3. [id |-> visit[g].id, number |-> visit[g].number] \notin sent
    BY DEF AccountsConsistent, VisitSound
  <2>4. [id |-> visit[g].id, number |-> visit[g].number] # m
    BY <2>2
  <2>5. QED  BY <1>2, <1>4, <2>2, <2>3, <2>4
<1>6. /\ visit' \in [Handlers -> Visit]
      /\ \A g \in Handlers : VisitSound(visit[g])'
      /\ \A f, g \in Handlers :
           f # g /\ Mailing(visit'[f]) /\ Mailing(visit'[g]) =>
             visit'[f].number # visit'[g].number
  BY <1>3, <1>4, <1>5, VisitsSound
<1>7. AccountsTypeOK'
  BY <1>2, <1>6 DEF AccountsConsistent, AccountsTypeOK
<1>8. (\A n \in mails \cup sent \cup used : users[n.id] # None /\ n.number \in 1..links)'
  BY <1>2, <1>3 DEF AccountsConsistent
<1>9. (\A n \in used : Pending(n) => n \in restored)' /\ (reused \subseteq restored)'
  BY <1>2 DEF AccountsConsistent, Pending
<1>10. (\A f, g \in Handlers :
         f # g /\ Mailing(visit[f]) /\ Mailing(visit[g]) => visit[f].number # visit[g].number)'
  BY <1>6 DEF Mailing
<1>11. QED
  BY <1>2, <1>6, <1>7, <1>8, <1>9, <1>10 DEF AccountsConsistent

\* Edits and the indexes: the requests, the links and the mails stay as they are.
LEMMA EditSound ==
  ASSUME AccountsConsistent, NEW id \in Ids, NEW f \in Fields, Edit(id, f)
  PROVE  AccountsConsistent'
<1> PICK account \in User : account = users[id] /\ users[id] # None /\ account.details = edits[id]
  BY DEF Edit, SignedIn, AccountsConsistent, AccountsTypeOK, Maybe
<1>1. /\ UNCHANGED <<index, visit, links, mails, sent, used, reused, restored>>
      /\ visits' = visits + 1
      /\ edits' = [edits EXCEPT ![id] = [edits[id] EXCEPT ![f] = @ + 1]]
  BY DEF Edit, Arrive
<1>2. PICK user \in User : /\ users' = [users EXCEPT ![id] = user] /\ user.link = users[id].link
                           /\ user.details = edits'[id] /\ edits'[id] \in [Fields -> Nat]
  <2> DEFINE details == [account.details EXCEPT ![f] = @ + 1]
  <2>1. details \in [Fields -> Nat] /\ details = edits'[id]
    BY <1>1 DEF AccountsConsistent, AccountsTypeOK, User
  <2>2. users' = [users EXCEPT ![id] = [account EXCEPT !.details = details]]
    BY DEF Edit, Edited
  <2> HIDE DEF details
  <2>3. /\ [account EXCEPT !.details = details] \in User
        /\ [account EXCEPT !.details = details].link = users[id].link
        /\ [account EXCEPT !.details = details].details = details
    BY <2>1 DEF User
  <2>4. QED  BY <2>1, <2>2, <2>3
<1>3. users' \in [Ids -> Maybe(User)] /\ users'[id] # None
  BY <1>2, AccountsAssumption DEF AccountsConsistent, AccountsTypeOK, Maybe
<1>4. AccountsTypeOK'
  <2>1. visits' \in Nat /\ edits' \in [Ids -> [Fields -> Nat]]
    BY <1>1, <1>2 DEF AccountsConsistent, AccountsTypeOK
  <2>2. QED  BY <1>1, <1>3, <2>1 DEF AccountsConsistent, AccountsTypeOK
<1>5. (\A i \in Ids :
       /\ index[i] # None => users[i] # None
       /\ edits[i] = IF users[i] = None THEN [g \in Fields |-> 0] ELSE users[i].details)'
  <2> SUFFICES ASSUME NEW i \in Ids
               PROVE  /\ index'[i] # None => users'[i] # None
                      /\ edits'[i] = IF users'[i] = None THEN [g \in Fields |-> 0]
                                     ELSE users'[i].details
    OBVIOUS
  <2>1. CASE i = id
    BY <1>2, <1>3, <2>1 DEF AccountsConsistent, AccountsTypeOK
  <2>2. CASE i # id
    BY <1>1, <1>2, <2>2 DEF AccountsConsistent, AccountsTypeOK
  <2>3. QED  BY <2>1, <2>2
<1>6. AccountsMove
  BY <1>1, <1>2, <1>3 DEF AccountsMove, AccountsConsistent, AccountsTypeOK
<1>7. \A h \in Handlers : VisitSound(visit[h])'
  <2> SUFFICES ASSUME NEW h \in Handlers PROVE VisitSound(visit[h])'
    OBVIOUS
  <2>1. PICK v \in Visit : v = visit[h] /\ v = visit'[h] /\ VisitSound(v)
    BY <1>1 DEF AccountsConsistent, AccountsTypeOK
  <2>2. VisitSound(v)'
    BY <1>1, <1>6, <2>1, VisitStays DEF VisitSound
  <2>3. QED  BY <2>1, <2>2 DEF VisitSound, Mailing
<1>8. (\A m \in mails \cup sent \cup used : users[m.id] # None /\ m.number \in 1..links)'
  BY <1>1, <1>6 DEF AccountsMove, AccountsConsistent, AccountsTypeOK, Link
<1>9. (\A m \in used : Pending(m) => m \in restored)' /\ (reused \subseteq restored)'
  <2> SUFFICES ASSUME NEW m \in used, Pending(m)' PROVE m \in restored
    BY <1>1 DEF AccountsConsistent
  <2>1. Pending(m)
    BY <1>2, <1>3 DEF Pending, AccountsConsistent, AccountsTypeOK, Link
  <2>2. QED  BY <2>1 DEF AccountsConsistent
<1>10. (\A g, h \in Handlers :
         g # h /\ Mailing(visit[g]) /\ Mailing(visit[h]) => visit[g].number # visit[h].number)'
  BY <1>1 DEF AccountsConsistent, Mailing
<1>11. QED
  BY <1>4, <1>5, <1>7, <1>8, <1>9, <1>10 DEF AccountsConsistent

LEMMA PropagateSound ==
  ASSUME AccountsConsistent, NEW id \in Ids, Propagate(id)
  PROVE  AccountsConsistent'
<1>1. /\ UNCHANGED <<users, visit, links, mails, visits, sent, used, reused, restored, edits>>
      /\ index' = [index EXCEPT ![id] = users[id]]
  BY DEF Propagate, History
<1>2. AccountsTypeOK'
  BY <1>1 DEF AccountsConsistent, AccountsTypeOK
<1>3. (\A i \in Ids :
       /\ index[i] # None => users[i] # None
       /\ edits[i] = IF users[i] = None THEN [g \in Fields |-> 0] ELSE users[i].details)'
  BY <1>1 DEF AccountsConsistent, AccountsTypeOK
<1>4. \A h \in Handlers : VisitSound(visit[h])'
  BY <1>1 DEF AccountsConsistent, VisitSound, Mailing
<1>5. QED
  BY <1>1, <1>2, <1>3, <1>4 DEF AccountsConsistent, Pending, Mailing

LEMMA ServeSound ==
  ASSUME AccountsConsistent, NEW h \in Handlers, Serve(h)
  PROVE  AccountsConsistent'
BY BeginSound, ReadsSound, PutAccountSound, IssueLinkSound, SendMailSound, RestoreLinkSound,
   ActivateSound, LinkIdentitySound DEF Serve

LEMMA AccountStepSound ==
  ASSUME AccountsConsistent, [AccountNext]_accountVars
  PROVE  AccountsConsistent'
<1>1. CASE UNCHANGED accountVars
  BY <1>1 DEF accountVars, AccountsConsistent, AccountsTypeOK, VisitSound, Mailing, Pending
<1>2. QED
  BY <1>1, ServeSound, EditSound, PropagateSound DEF AccountNext, AccountsRest

\* The inductive invariant: requests are about accounts that exist, the links they may
\* take back are their own and were not accepted, and a link that was used is pending only
\* if a failed delivery put it back (routers/auth.py, DynamoDBService's users).
THEOREM AccountsConsistentCorrect == AccountSpec => []AccountsConsistent
<1>1. AccountInit => AccountsConsistent
  <2> SUFFICES ASSUME AccountInit PROVE AccountsConsistent
    OBVIOUS
  <2>1. NewUser(FALSE) \in User /\ [NewUser(FALSE) EXCEPT !.link = 1] \in User
        /\ [NewUser(FALSE) EXCEPT !.link = 1].details = [f \in Fields |-> 0]
    BY DEF NewUser, User
  <2>2. /\ links \in Nat /\ users \in [Ids -> Maybe(User)]
        /\ \A id \in Ids : users[id] # None =>
             links = 1 /\ users[id].details = [f \in Fields |-> 0]
    <3>1. CASE users = [id \in Ids |-> None] /\ links = 0
      BY <3>1 DEF Maybe
    <3>2. CASE links = 1 /\ \E id \in Ids :
                 users = [i \in Ids |->
                            IF i = id THEN [NewUser(FALSE) EXCEPT !.link = 1] ELSE None]
      <4> PICK user \in User : user = [NewUser(FALSE) EXCEPT !.link = 1]
                              /\ user.details = [f \in Fields |-> 0]
        BY <2>1
      <4>1. PICK id \in Ids : users = [i \in Ids |-> IF i = id THEN user ELSE None]
        BY <3>2
      <4>2. QED  BY <3>2, <4>1 DEF Maybe
    <3>3. QED  BY <3>1, <3>2 DEF AccountInit
  <2>3. mails \subseteq Link /\ \A m \in mails : users[m.id] # None /\ m.number \in 1..links
    <3>1. \A m \in mails : m \in [id : Ids, number : {1}] /\ users[m.id] # None
      BY DEF AccountInit
    <3>2. \A m \in [id : Ids, number : {1}] : m \in Link /\ m.id \in Ids /\ m.number = 1
      BY DEF Link
    <3>3. QED  BY <2>2, <3>1, <3>2
  <2>4. AccountsTypeOK
    BY <2>2, <2>3, NoVisitSound DEF AccountInit, AccountsTypeOK
  <2>5. \A h \in Handlers : VisitSound(visit[h]) /\ ~Mailing(visit[h])
    BY NoVisitSound DEF AccountInit
  <2>6. \A id \in Ids :
          /\ index[id] # None => users[id] # None
          /\ edits[id] = IF users[id] = None THEN [f \in Fields |-> 0] ELSE users[id].details
    BY <2>2 DEF AccountInit
  <2>7. QED  BY <2>3, <2>4, <2>5, <2>6 DEF AccountInit, AccountsConsistent
<1>2. QED  BY <1>1, AccountStepSound, PTL DEF AccountSpec

\* A link activates an account at most once, unless a failed delivery put it back
\* (mark_email_verified's condition).
THEOREM LinkUsedOnceCorrect == AccountSpec => []LinkUsedOnce
<1>1. AccountsConsistent => LinkUsedOnce
  BY DEF AccountsConsistent, LinkUsedOnce
<1>2. QED  BY <1>1, AccountsConsistentCorrect, PTL

\* No write of a request takes an acknowledged edit away (update_user and its kin).
THEOREM EditsAreKept == AccountSpec => []EditsKept
<1>1. AccountsConsistent => EditsKept
  BY DEF AccountsConsistent, EditsKept
<1>2. QED  BY <1>1, AccountsConsistentCorrect, PTL

\* The writes of requests and edits to an account's link.
LEMMA SentStaysPending ==
  ASSUME AccountsConsistent, [AccountNext]_accountVars, NEW m \in sent,
         Pending(m), ~Pending(m)'
  PROVE  users'[m.id].verified \/ users'[m.id].link = links + 1
<1>1. m.id \in Ids /\ users[m.id] \in User /\ m.number \in Nat /\ m.number # 0
  BY DEF AccountsConsistent, AccountsTypeOK, Link, Maybe, Pending
<1>2. PICK id \in Ids, account \in User : id = m.id /\ account = users[id] /\ account.link = m.number
  BY <1>1 DEF Pending
<1>3. users' # users
  BY DEF Pending
<1>4. ASSUME NEW h \in Handlers, Serve(h)
      PROVE  users'[m.id].verified \/ users'[m.id].link = links + 1
  <2>1. CASE PutAccount(h)
    <3>1. PICK i \in Ids : users[i] = None /\ \E user : users' = [users EXCEPT ![i] = user]
      BY <2>1 DEF PutAccount
    <3>2. i # id
      BY <1>2, <3>1 DEF Pending
    <3>3. QED  BY <1>2, <3>1, <3>2 DEF Pending, AccountsConsistent, AccountsTypeOK
  <2>2. CASE IssueLink(h)
    <3>1. visit[h].id \in Ids /\ users[visit[h].id] \in User
      BY <2>2, AccountOf DEF IssueLink, In
    <3>2. CASE visit[h].id = id
      BY <1>2, <2>2, <3>1, <3>2 DEF IssueLink, User, AccountsConsistent, AccountsTypeOK
    <3>3. CASE visit[h].id # id
      BY <1>2, <2>2, <3>1, <3>3 DEF IssueLink, Pending, AccountsConsistent, AccountsTypeOK
    <3>4. QED  BY <3>2, <3>3
  <2>3. CASE RestoreLink(h)
    <3>1. /\ visit[h].id \in Ids /\ users[visit[h].id] \in User
          /\ [id |-> visit[h].id, number |-> visit[h].number] \notin sent
      BY <2>3, AccountOf DEF RestoreLink, In, VisitSound, Mailing
    <3>2. m = [id |-> m.id, number |-> m.number]
      BY DEF AccountsConsistent, AccountsTypeOK, Link
    <3>3. /\ users[visit[h].id].link = visit[h].number
          /\ users' = [users EXCEPT ![visit[h].id].link = visit[h].read.link]
      BY <1>3, <2>3 DEF RestoreLink
    <3>4. visit[h].id # id
      BY <1>2, <3>1, <3>2, <3>3
    <3>5. QED  BY <1>2, <3>1, <3>3, <3>4 DEF Pending, AccountsConsistent, AccountsTypeOK
  <2>4. CASE Activate(h) \/ ActivateByGoogle(h)
    <3>1. visit[h].id \in Ids /\ users[visit[h].id] \in User
      BY <2>4, AccountOf DEF Activate, ActivateByGoogle, In
    <3>2. users' = [users EXCEPT ![visit[h].id].verified = TRUE, ![visit[h].id].link = 0]
      BY <1>3, <2>4 DEF Activate, ActivateByGoogle
    <3>3. CASE visit[h].id = id
      BY <1>2, <3>1, <3>2, <3>3 DEF User, AccountsConsistent, AccountsTypeOK
    <3>4. CASE visit[h].id # id
      BY <1>2, <3>1, <3>2, <3>4 DEF Pending, AccountsConsistent, AccountsTypeOK
    <3>5. QED  BY <3>3, <3>4
  <2>5. CASE LinkIdentity(h)
    <3>1. visit[h].id \in Ids /\ users[visit[h].id] \in User /\ users[visit[h].id] # None
      BY <2>5, AccountOf DEF LinkIdentity, In
    <3>2. users' = [users EXCEPT ![visit[h].id].google = TRUE]
      BY <1>3, <2>5 DEF LinkIdentity
    <3>3. users'[id].link = users[id].link /\ users'[id] # None
      <4>1. users'[id] = IF id = visit[h].id THEN [account EXCEPT !.google = TRUE] ELSE account
        BY <1>2, <3>2 DEF AccountsConsistent, AccountsTypeOK
      <4>2. [account EXCEPT !.google = TRUE] \in User
            /\ [account EXCEPT !.google = TRUE].link = account.link
        BY DEF User
      <4>3. QED  BY <1>2, <4>1, <4>2, AccountsAssumption
    <3>4. QED  BY <1>2, <3>3 DEF Pending
  <2>6. QED
    BY <1>3, <1>4, <2>1, <2>2, <2>3, <2>4, <2>5
       DEF Serve, Begin, FindForSignup, FindForResend, CreateAccount, Refind, SendMail,
           ReadLink, FindIdentity, FindGoogleAccount, Fail, OnlyRequest
<1>5. ASSUME NEW i \in Ids, NEW f \in Fields, Edit(i, f)
      PROVE  FALSE
  <2>1. users' = [users EXCEPT ![i] = Edited(users[i], f)]
    BY <1>5 DEF Edit
  <2>2. users'[id] = IF id = i THEN Edited(account, f) ELSE account
    BY <1>2, <2>1 DEF AccountsConsistent, AccountsTypeOK
  <2>3. Edited(account, f) \in User /\ Edited(account, f).link = account.link
    BY DEF Edited, User
  <2>4. users'[id].link = account.link /\ users'[id] # None
    BY <2>2, <2>3, AccountsAssumption
  <2>5. QED  BY <1>2, <2>4 DEF Pending
<1>6. QED
  BY <1>3, <1>4, <1>5 DEF AccountNext, AccountsRest, accountVars, Propagate

\* A mailed link whose acceptance the client was told of stays the account's until it is
\* used, a Google sign-in activates the account or a newer link is saved
\* (restore_email_verification_state takes back the link of its own request only).
THEOREM SentLinkIsKept == AccountSpec => SentLinkKept
<1>1. AccountsConsistent /\ [AccountNext]_accountVars =>
        [\A m \in sent : Pending(m) /\ ~Pending(m)' =>
           users'[m.id].verified \/ users'[m.id].link = links + 1]_accountVars
  BY SentStaysPending
<1>2. QED  BY <1>1, AccountsConsistentCorrect, PTL DEF AccountSpec, SentLinkKept

=============================================================================
