---------------------------- MODULE MCApiRequests ----------------------------
(***************************************************************************)
(* Small deployments of ApiRequests for TLC: those of MCSendRouting.       *)
(***************************************************************************)
EXTENDS ApiRequests, MCSendRouting
=============================================================================
