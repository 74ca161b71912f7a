-------------------------- MODULE MCBridgeThreads ---------------------------
(***************************************************************************)
(* Instances of BridgeThreads for TLC; the bounds are in the configurations. *)
(***************************************************************************)
EXTENDS BridgeThreads
=============================================================================
