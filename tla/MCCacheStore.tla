---------------------------- MODULE MCCacheStore ----------------------------
(* Values of the constants of CacheStore for TLC. *)
EXTENDS CacheStore, TLC

CONSTANTS k1, k2, k3, v1, v2

MCKeys == {k1, k2, k3}
MCValues == {v1, v2}
MCSymmetry == Permutations(MCKeys) \cup Permutations(MCValues)
=============================================================================
