-------------------------- MODULE MCManagedPairing --------------------------
(***************************************************************************)
(* ManagedPairing on small sets.  Sessions, nonces and workers are each    *)
(* interchangeable.                                                        *)
(***************************************************************************)
EXTENDS ManagedPairing, TLC

BotTokens == [bot : Bots, ver : 0 .. MaxVer]

Symmetry == Permutations(Clients) \cup Permutations(Nonces) \cup Permutations(Workers)
=============================================================================
