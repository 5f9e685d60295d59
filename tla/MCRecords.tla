----------------------------- MODULE MCRecords ------------------------------
(* Instances of Records for TLC, and what the documentation says of them. *)
EXTENDS RecordsClaims, TLC

CONSTANTS k1, k2, w1, w2, w3, p1, p2

Symmetry == Permutations(Keys) \cup Permutations(Workers) \cup Permutations(Pastes)
=============================================================================
