--------------------------- MODULE MCNotifications ---------------------------
(***************************************************************************)
(* Instances of ClientNotifications, and with it of Notifications, for     *)
(* TLC.  JobsSurvive is a liveness property, so no symmetry is used.       *)
(***************************************************************************)
EXTENDS ClientNotifications
=============================================================================
