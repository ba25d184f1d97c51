---------------------------- MODULE MCMemoryStore ----------------------------
(***************************************************************************)
(* MemoryStore on small sets. No symmetry is declared: the run checks a    *)
(* liveness property too, and TLC's symmetry reduction is sound for safety *)
(* only.                                                                   *)
(***************************************************************************)
EXTENDS MemoryStore
=============================================================================
