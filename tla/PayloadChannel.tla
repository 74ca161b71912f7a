--------------------------- MODULE PayloadChannel ---------------------------
(***************************************************************************)
(* What sendBytes and onBytesReceived promise together, without packets,   *)
(* ids, accumulators or network: the payloads of each robot pass through a *)
(* channel of their own, whole and in the order in which they were sent.   *)
(*                                                                         *)
(* A payload is excused from delivery when it is empty, or once the swarm, *)
(* the sender's connection or a missing callback has disturbed it.  Even   *)
(* then it is delivered in its turn or not at all, and never after its     *)
(* sendBytes returned false.  Only a payload that is not excused is        *)
(* delivered no more than once.                                            *)
(***************************************************************************)
EXTENDS Naturals, Sequences

CONSTANT Robots     \* the sending hosts

VARIABLES
  begun,            \* number of payloads each robot has begun to send
  excused,          \* payloads that need not be delivered
  abandoned,        \* payloads whose sendBytes returned false
  delivered         \* the payloads given to the callback, in order

channelVars == <<begun, excused, abandoned, delivered>>

\* A payload is named by its robot and its number there.
Sent(r) == {[robot |-> r, n |-> k] : k \in 1..begun[r]}
IsDelivered(p) == \E k \in 1..Len(delivered) : delivered[k] = p

ChannelInit ==
  /\ begun = [r \in Robots |-> 0]
  /\ excused = {}
  /\ abandoned = {}
  /\ delivered = << >>

\* sendBytes is called, with some bytes or with none.
Begin(r) ==
  /\ begun' = [begun EXCEPT ![r] = @ + 1]
  /\ \E empty \in BOOLEAN :
       excused' = IF empty THEN excused \cup {[robot |-> r, n |-> begun[r] + 1]} ELSE excused
  /\ UNCHANGED <<abandoned, delivered>>

\* Something happened to a payload on its way.
Disturb(p) ==
  /\ excused' = excused \cup {p}
  /\ UNCHANGED <<begun, abandoned, delivered>>

\* sendBytes returns false.
Abandon(p) ==
  /\ ~IsDelivered(p)
  /\ excused' = excused \cup {p}
  /\ abandoned' = abandoned \cup {p}
  /\ UNCHANGED <<begun, delivered>>

\* The callback is given payload p, all of it, and none before it is pending.
Deliver(p) ==
  /\ p \notin abandoned
  /\ p \in excused \/ ~IsDelivered(p)
  /\ \A q \in Sent(p.robot) :
       /\ q.n < p.n => q \in excused \/ IsDelivered(q)
       /\ q.n > p.n => ~IsDelivered(q)
  /\ delivered' = Append(delivered, p)
  /\ UNCHANGED <<begun, excused, abandoned>>

ChannelNext ==
  \E r \in Robots :
    \/ Begin(r)
    \/ \E p \in Sent(r) : Disturb(p) \/ Abandon(p) \/ Deliver(p)

ChannelSpec == ChannelInit /\ [][ChannelNext]_channelVars
=============================================================================
