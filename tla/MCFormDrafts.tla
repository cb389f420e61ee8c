---------------------------- MODULE MCFormDrafts ----------------------------
(***************************************************************************)
(* A small instance of FormDrafts for TLC.                                 *)
(***************************************************************************)
EXTENDS FormDrafts, TLC

Symmetry == Permutations(Texts) \cup Permutations(Items) \cup Permutations(Saves)
=============================================================================
