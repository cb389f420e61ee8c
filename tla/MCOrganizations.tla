-------------------------- MODULE MCOrganizations --------------------------
(***************************************************************************)
(* A small instance of Organizations for TLC.                              *)
(***************************************************************************)
EXTENDS Organizations, TLC

\* Users, ids, slugs and requests are interchangeable model values.
Symmetry ==
    Permutations(Users) \cup Permutations(OrgIds) \cup Permutations(MemberIds)
        \cup Permutations(Slugs) \cup Permutations(Requests)
=============================================================================
