-------------------------- MODULE MCBytesTransfer ---------------------------
(***************************************************************************)
(* Instances of BytesTransfer for TLC; the other bounds are in the         *)
(* configurations.  Two payloads of one robot can come out of order, and   *)
(* one of another robot can be mixed with either.                          *)
(***************************************************************************)
EXTENDS BytesTransfer

OneEach == [r \in Robots |-> 1]
TwoOfTheFirst == [r \in Robots |-> IF r = 1 THEN 2 ELSE 1]
=============================================================================
