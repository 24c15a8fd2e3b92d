-------------------------- MODULE MCRefreshTokens --------------------------
(* Instances of RefreshTokens for TLC: handlers and principals are          *)
(* interchangeable.                                                         *)
EXTENDS RefreshTokens, TLC

Symmetry == Permutations(Requests) \cup Permutations(Principals)
=============================================================================
