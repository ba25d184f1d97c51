------------------------- MODULE MCAtLeastOnceStore -------------------------
(***************************************************************************)
(* AtLeastOnceStore on small sets; callers, nonces and payloads are each   *)
(* interchangeable.                                                        *)
(***************************************************************************)
EXTENDS AtLeastOnceStore, TLC

Symmetry ==
  Permutations(Callers) \cup Permutations(Nonces) \cup Permutations(Payloads)
=============================================================================
