------------------------------- MODULE MCAuth -------------------------------
(***************************************************************************)
(* A small instance of Auth for TLC.                                       *)
(***************************************************************************)
EXTENDS Auth, TLC

Symmetry ==
    Permutations(Emails) \cup Permutations(UserIds) \cup Permutations(Tokens)
        \cup Permutations(Requests)
=============================================================================
