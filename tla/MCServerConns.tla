--------------------------- MODULE MCServerConns ---------------------------
(***************************************************************************)
(* Instances of ServerConns for TLC.                                       *)
(***************************************************************************)
EXTENDS ServerConns, TLC

Symmetry == Permutations(Workers)
============================================================================
