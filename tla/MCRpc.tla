-------------------------------- MODULE MCRpc --------------------------------
(***************************************************************************)
(* Instances of Rpc for TLC.                                               *)
(***************************************************************************)
EXTENDS Rpc, TLC

Symmetry == Permutations(Callers) \union Permutations(Workers)
==============================================================================
