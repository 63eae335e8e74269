--------------------------- MODULE MCPasswordReset ---------------------------
(* PasswordReset on one account and a handful of requests.                 *)
EXTENDS PasswordReset, TLC

Symmetry == Permutations(Requests)
=============================================================================
