----------------------------- MODULE MCAuditLog -----------------------------
(* AuditLog on one or two instances with small pools.                      *)
EXTENDS AuditLog, TLC

Symmetry == Permutations(Users) \cup Permutations(Requests) \cup Permutations(Connections)
                \cup Permutations(Instances)
=============================================================================
