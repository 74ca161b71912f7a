------------------------- MODULE MCNeighborUpdates --------------------------
(***************************************************************************)
(* An instance of NeighborUpdates for TLC; the bounds are in the           *)
(* configuration.                                                          *)
(***************************************************************************)
EXTENDS NeighborUpdates
=============================================================================
