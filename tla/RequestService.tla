--------------------------- MODULE RequestService ---------------------------
(***************************************************************************)
(* What the bridge promises about the messages that queueAndSend accepted, *)
(* without queue, threads, response map or connection.                     *)
(*                                                                         *)
(* Accepted messages are numbered 1, 2, ... in the order in which they     *)
(* were accepted.  The bridge takes them off its hands strictly in that    *)
(* order: a request or a greeting is handed to the serializer once, a      *)
(* message of another kind is discarded.  A request that was transmitted   *)
(* is later closed as answered or as dropped, in any order.                *)
(***************************************************************************)
EXTENDS Naturals, Sequences

VARIABLE status     \* status[n]: what became of the n-th accepted message

Statuses == {"queued", "transmitted", "greeted", "unsupported", "answered", "dropped"}

\* The n-th message is the oldest one the bridge has not dealt with.
OldestQueued(n) ==
  /\ status[n] = "queued"
  /\ \A m \in 1..(n - 1) : status[m] # "queued"

ServiceInit == status = << >>

\* queueAndSend accepts one more message.
Accept == status' = Append(status, "queued")

\* The oldest queued message leaves the bridge, or is discarded.
Process(n) ==
  /\ OldestQueued(n)
  /\ \E s \in {"transmitted", "greeted", "unsupported"} :
       status' = [status EXCEPT ![n] = s]

\* A transmitted request is closed by its response or by the drop delay.
Close(n) ==
  /\ status[n] = "transmitted"
  /\ \E s \in {"answered", "dropped"} : status' = [status EXCEPT ![n] = s]

ServiceNext == Accept \/ \E n \in 1..Len(status) : Process(n) \/ Close(n)

ServiceSpec == ServiceInit /\ [][ServiceNext]_status
=============================================================================
