------------------------ MODULE MCOutboundRequests -------------------------
(***************************************************************************)
(* Instances of OutboundRequests for TLC; the bounds are in the configurations. *)
(***************************************************************************)
EXTENDS OutboundRequests
=============================================================================
