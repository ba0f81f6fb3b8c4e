----------------------------- MODULE MCAccounts -----------------------------
(***************************************************************************)
(* Small instances of Accounts and AuthSessions.  The two share no state   *)
(* (a sign-in reads the account and then makes a session), so that each    *)
(* behaviour exercises one of them and the other one rests.                *)
(***************************************************************************)
EXTENDS Accounts, AuthSessions, TLC

CONSTANTS legacy

VARIABLE part

Init == part \in {"accounts", "sessions"} /\ AccountInit /\ SessionInit

Next ==
  \/ part = "accounts" /\ AccountNext /\ UNCHANGED <<sessionVars, part>>
  \/ part = "sessions" /\ SessionNext /\ UNCHANGED <<accountVars, part>>

Spec == Init /\ [][Next]_<<accountVars, sessionVars, part>>

Symmetry ==
  Permutations(Handlers) \cup Permutations(Ids) \cup Permutations(Tokens \ Legacy)

=============================================================================
