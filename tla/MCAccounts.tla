----------------------------- MODULE MCAccounts -----------------------------
(* Instances of Accounts for TLC; model values come from the cfg.           *)
EXTENDS Accounts, TLC
Symmetry == Permutations(Requests) \union Permutations(Photos)
=============================================================================
