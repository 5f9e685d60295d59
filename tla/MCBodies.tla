------------------------------ MODULE MCBodies ------------------------------
(* Instances of Bodies for TLC. *)
EXTENDS Bodies, TLC

CONSTANTS w1, w2, b1, b2, p1, p2, p3, p4

Symmetry == Permutations(Workers) \cup Permutations(Buffers)
            \cup Permutations(Large) \cup Permutations(Small)
=============================================================================
