------------------------------ MODULE Servers ------------------------------
(***************************************************************************)
(* What the components of accounts and publications have in common: a few  *)
(* server processes, each with one request at a time, and what can fail.   *)
(***************************************************************************)
CONSTANTS
  Handlers,      \* server processes
  Faults,        \* which of the failures below may happen
  None           \* no value

(***************************************************************************)
(* "abort": a call raises or is answered by an error, or the process stops. *)
(* "resend": the AWS client repeats a write whose answer was lost.          *)
(* "undelivered": the e-mail service refuses a mail, or its answer is lost. *)
(* "slow": a lock expires while its holder works.                           *)
(***************************************************************************)
ASSUME ServersAssumption == Faults \subseteq {"abort", "resend", "undelivered", "slow"}

Maybe(S) == S \cup {None}

=============================================================================
