------------------------------ MODULE MCTasks ------------------------------
(***************************************************************************)
(* Instances of Tasks for TLC.                                             *)
(***************************************************************************)
EXTENDS Tasks, TLC

Symmetry == Permutations(Orgs) \cup Permutations(ProjectIds) \cup Permutations(TaskIds)
              \cup Permutations(Users) \cup Permutations(Requests)
=============================================================================
