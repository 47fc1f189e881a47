---------------------------- MODULE MCAccounts ----------------------------
(* Instance of Accounts for TLC: the handlers are alike.                   *)
EXTENDS Accounts, TLC

Alike == Permutations(Handlers)
=============================================================================
