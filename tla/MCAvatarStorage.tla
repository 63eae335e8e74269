--------------------------- MODULE MCAvatarStorage ---------------------------
(* AvatarStorage with a handful of requests.                               *)
EXTENDS AvatarStorage, TLC

Symmetry == Permutations(Requests) \cup Permutations(Variants)
=============================================================================
