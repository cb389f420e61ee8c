--------------------------- MODULE MCClientPages ---------------------------
(***************************************************************************)
(* Instances of ClientPages for TLC.                                       *)
(***************************************************************************)
EXTENDS ClientPages, TLC

Symmetry == Permutations(Users) \cup Permutations(Orgs) \cup Permutations(Calls)
=============================================================================
