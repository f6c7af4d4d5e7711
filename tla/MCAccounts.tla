----------------------------- MODULE MCAccounts -----------------------------
(* The constants of accounts.cfg.                                           *)
EXTENDS Accounts, TLC

Symmetry == Permutations(People) \cup Permutations(Requests)
=============================================================================
