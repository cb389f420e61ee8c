--------------------------- MODULE MCClientSession ---------------------------
(***************************************************************************)
(* Instances of ClientSession for TLC.                                     *)
(***************************************************************************)
EXTENDS ClientSession, TLC

Symmetry == Permutations(UserIds) \cup Permutations(Flows)
=============================================================================
