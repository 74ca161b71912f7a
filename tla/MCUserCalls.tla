---------------------------- MODULE MCUserCalls -----------------------------
(***************************************************************************)
(* Instances of UserCalls for TLC; the bounds are in the configurations.   *)
(* The names the application registers are interchangeable.                *)
(***************************************************************************)
EXTENDS UserCalls, TLC

Symmetry == Permutations(Names)
=============================================================================
