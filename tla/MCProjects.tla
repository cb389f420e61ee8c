----------------------------- MODULE MCProjects -----------------------------
(***************************************************************************)
(* A small instance of Projects for TLC.                                   *)
(***************************************************************************)
EXTENDS Projects, TLC

Symmetry ==
    Permutations(Orgs) \cup Permutations(ProjectIds)
        \cup Permutations(Names) \cup Permutations(Requests)
=============================================================================
