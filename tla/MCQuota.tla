------------------------------ MODULE MCQuota -------------------------------
(* Instances of Quota for TLC. *)
EXTENDS Quota, TLC

CONSTANTS i1, i2, w1, w2, w3

Symmetry == Permutations(IPs) \cup Permutations(Workers)
=============================================================================
