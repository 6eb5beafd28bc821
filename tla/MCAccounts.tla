------------------------------ MODULE MCAccounts ------------------------------
(***************************************************************************)
(* Accounts for TLC.  Two registrations of one address race, or each has   *)
(* its own; ages reach past the longer window; one fault.                  *)
(***************************************************************************)
EXTENDS Accounts
=============================================================================
