---------------------------- MODULE MCReplayDelivery ----------------------------
(***************************************************************************)
(* Two events, each sent at most twice, and two starts of the step.           *)
(***************************************************************************)
EXTENDS ReplayDelivery
================================================================================
