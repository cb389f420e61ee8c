----------------------------- MODULE MCPayments -----------------------------
(***************************************************************************)
(* Instances of Payments for TLC.  A decimal(10,2) is cut down to amounts  *)
(* below one tenth: 14 is stored as 10, 15 as 20 and 96 does not fit.      *)
(***************************************************************************)
EXTENDS Payments, TLC

Symmetry == Permutations(Orgs) \cup Permutations(PaymentIds)
              \cup Permutations(ChargeIds) \cup Permutations(RefundIds)
              \cup Permutations(Requests)
=============================================================================
