----------------------------- MODULE MCAPIKeys ------------------------------
(* Instances of APIKeys for TLC. *)
EXTENDS APIKeys, TLC

CONSTANTS a1, a2, w1, n1, n2

Symmetry == Permutations(Admins) \cup Permutations(Names)
=============================================================================
