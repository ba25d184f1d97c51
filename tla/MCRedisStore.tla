---------------------------- MODULE MCRedisStore ----------------------------
(***************************************************************************)
(* RedisStore on small sets; callers, nonces and payloads are each         *)
(* interchangeable.                                                        *)
(***************************************************************************)
EXTENDS RedisStore, TLC

Symmetry ==
  Permutations(Callers) \cup Permutations(Nonces) \cup Permutations(Payloads)
=============================================================================
