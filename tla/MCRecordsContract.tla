------------------------- MODULE MCRecordsContract --------------------------
(* RecordsContract for TLC. *)
EXTENDS RecordsContract, TLC

CONSTANTS k1, k2, w1, w2, p1, p2

Symmetry == Permutations(Keys) \cup Permutations(Workers) \cup Permutations(Pastes)
=============================================================================
