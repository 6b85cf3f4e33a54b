----------------------------- MODULE MCAccounts -----------------------------
(* A TLC instance of Accounts: addresses and slugs are interchangeable. *)
EXTENDS Accounts, TLC

Symmetry == Permutations(Users) \cup Permutations(Orgs)
=============================================================================
