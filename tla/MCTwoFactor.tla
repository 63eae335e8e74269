----------------------------- MODULE MCTwoFactor -----------------------------
(* TwoFactor with a handful of requests.                                   *)
EXTENDS TwoFactor, TLC

Symmetry == Permutations(Requests)
=============================================================================
