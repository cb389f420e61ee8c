----------------------------- MODULE MCPipeline -----------------------------
(***************************************************************************)
(* Instances of Pipeline for TLC.                                          *)
(***************************************************************************)
EXTENDS Pipeline, TLC

Symmetry ==
    Permutations(Users) \cup Permutations(Orgs) \cup Permutations(Keys)
        \cup Permutations(Conns) \cup Permutations(Requests)
=============================================================================
