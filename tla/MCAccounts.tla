----------------------------- MODULE MCAccounts -----------------------------
(* Accounts for model checking: addresses and requests are interchangeable.  *)
EXTENDS Accounts, TLC

Symmetry == Permutations(Emails) \cup Permutations(Requests)
=============================================================================
