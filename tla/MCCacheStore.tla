---------------------------- MODULE MCCacheStore ----------------------------
(***************************************************************************)
(* Constants for the runs of CacheStore: one key more than fits, so that   *)
(* every put of a new key into a full store evicts.                        *)
(***************************************************************************)
EXTENDS CacheStore, TLC

CONSTANTS k1, k2, k3, v1, v2

CacheSymmetry == Permutations(Key) \cup Permutations(Value)
=============================================================================
