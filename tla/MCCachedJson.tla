---------------------------- MODULE MCCachedJson ----------------------------
(* CachedJson for TLC, with one key whose window opens and closes again, or *)
(* two keys that compete for one place in the cache.                        *)
EXTENDS CachedJson, TLC

CONSTANTS k1, k2

OneTtl == k1 :> 1
TwoTtls == k1 :> 1 @@ k2 :> 2

MCSymmetry == Permutations(Callers) \cup Permutations(Cells) \cup Permutations(Bodies)
=============================================================================
