------------------------------- MODULE MCOtp -------------------------------
(* An instance of Otp for TLC: handlers are interchangeable.               *)
EXTENDS Otp, TLC

Symmetry == Permutations(Requests)
=============================================================================
