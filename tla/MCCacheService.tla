--------------------------- MODULE MCCacheService ---------------------------
(* An instance of CacheService for TLC. *)
EXTENDS CacheService

CONSTANTS k1, w1, p1, p2, i1, n1, a1
=============================================================================
