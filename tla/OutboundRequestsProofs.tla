----------------------- MODULE OutboundRequestsProofs -----------------------
(***************************************************************************)
(* Theorems about OutboundRequests, for every value of its constants.      *)
(***************************************************************************)
EXTENDS OutboundRequests, SequenceFacts, SequenceTheorems, FiniteSetTheorems, TLAPS

-----------------------------------------------------------------------------
(* The inductive invariant                                                 *)

\* A handle is READY while its message is queued, SENT once the request was
\* transmitted; only requests become SENT.
Matches(h) ==
  /\ h.seq \in 1..Len(log)
  /\ h.state = "READY" => status[h.seq] = "queued"
  /\ h.state = "SENT" => status[h.seq] = "transmitted" /\ log[h.seq].kind = "request"

\* The queue holds each open message at most once, and the messages that were
\* never transmitted in the order in which they were accepted.
QueueInv ==
  /\ \A i \in 1..Len(outboundQueue) : Matches(outboundQueue[i])
  /\ \A i, j \in 1..Len(outboundQueue) :
       i # j => outboundQueue[i].seq # outboundQueue[j].seq
  /\ \A i, j \in 1..Len(outboundQueue) :
       (i < j /\ outboundQueue[i].state = "READY" /\ outboundQueue[j].state = "READY")
         => outboundQueue[i].seq < outboundQueue[j].seq

\* The message in the outbound thread's hands is not in the queue, and is
\* older than every message of the queue that was never transmitted.
HandInv ==
  InHand =>
    /\ Matches(handle)
    /\ \A i \in 1..Len(outboundQueue) :
         /\ outboundQueue[i].seq # handle.seq
         /\ (handle.state = "READY" /\ outboundQueue[i].state = "READY")
              => handle.seq < outboundQueue[i].seq

\* What the outbound thread knows of its handle at each of its steps.
PcInv ==
  /\ PopsWhatItRead
  /\ outPc \in {"search", "erase"} => log[handle.seq].kind = "request"
  /\ outPc = "send" => handle.state = "READY" /\ log[handle.seq].kind # "other"
  /\ outPc = "push" => handle.state = "SENT"

\* An open message is in the queue or in the outbound thread's hands.
OpenInv ==
  \A n \in 1..Len(log) :
    Open(n) => \/ \E i \in 1..Len(outboundQueue) : outboundQueue[i].seq = n
               \/ InHand /\ handle.seq = n

PathInv == QueueInv /\ HandInv /\ PcInv /\ OpenInv

\* With ids that are never reused: an id names one request, and every id that
\* travels towards the response map, or is in it, was answered by a peer.
IdInv ==
  /\ \A n \in 1..Len(log) : log[n].kind = "request" => log[n].id # NoId
  /\ \A m, n \in 1..Len(log) : (m # n /\ log[m].id = log[n].id) => log[m].id = NoId
  /\ \A n \in delivered : status[n] # "queued"
  /\ \A i \in respMap : \E n \in answered : log[n].id = i
  /\ \A k \in 1..Len(inbox) : inbox[k] # NoId => \E n \in answered : log[n].id = inbox[k]
  /\ spinId # NoId => \E n \in answered : log[n].id = spinId
  /\ outPc = "erase" => handle.seq \in answered
  /\ DeletedOnlyIfAnswered

-----------------------------------------------------------------------------
(* Type correctness                                                        *)

\* PushNew keeps the types of the three sequences it extends.
LEMMA PushNewType ==
  ASSUME TypeOK, NEW m \in Messages, PushNew(m)
  PROVE  /\ log' \in Seq(Messages)
         /\ status' \in Seq(Service!Statuses)
         /\ Len(status') = Len(log')
         /\ Len(log') = Len(log) + 1
         /\ outboundQueue' \in Seq(Handles)
         /\ delivered \subseteq 1..Len(log')
<1>1. [seq |-> Len(log) + 1, state |-> "READY", delay |-> 0] \in Handles
  BY DEF TypeOK, Handles
<1>2. "queued" \in Service!Statuses
  BY DEF Service!Statuses
<1>. QED  BY <1>1, <1>2, AppendFacts DEF TypeOK, PushNew

\* The messages that are pushed are messages.
LEMMA PushedMessages ==
  /\ Requests \subseteq Messages
  /\ Greeting \in Messages
  /\ Unsupported \in Messages
BY DEF Requests, Greeting, Unsupported, Messages, Kinds

\* Changing one status keeps the statuses well typed and leaves the others.
LEMMA StatusUpdate ==
  ASSUME TypeOK, NEW n, NEW s \in Service!Statuses, status' = [status EXCEPT ![n] = s]
  PROVE  /\ status' \in Seq(Service!Statuses)
         /\ Len(status') = Len(status)
         /\ \A k \in 1..Len(status) : status'[k] = IF k = n THEN s ELSE status[k]
<1>0. status \in Seq(Service!Statuses)
  BY DEF TypeOK
<1>1. CASE n \in 1..Len(status)
  BY <1>0, <1>1, ExceptSeq
<1>2. CASE n \notin 1..Len(status)
  <2>1. status = [k \in 1..Len(status) |-> status[k]] /\ DOMAIN status = 1..Len(status)
    BY <1>0
  <2>2. [status EXCEPT ![n] = s] = status
    BY <1>2, <2>1
  <2>. QED  BY <1>0, <1>2, <2>2
<1>. QED  BY <1>1, <1>2

\* The outbound thread keeps the types.
LEMMA OutboundType ==
  ASSUME TypeOK, PathInv, OutboundThread
  PROVE  TypeOK'
<1>. USE DEF TypeOK, outVars, spinVars, connVars, peerVars, Racing
<1>s. {"unsupported", "dropped", "answered", "transmitted", "greeted"} \subseteq Service!Statuses
  BY DEF Service!Statuses
<1>1. CASE O_Top
  BY <1>1 DEF O_Top, OutPcs
<1>2. CASE O_Front
  BY <1>2, TailFacts DEF O_Front, OutPcs
<1>3. CASE O_Pop
  <2>1. outboundQueue' \in Seq(Handles)
    BY <1>3, TailFacts DEF O_Pop, PathInv, PcInv, PopsWhatItRead
  <2>2. status' \in Seq(Service!Statuses) /\ Len(status') = Len(status)
    BY <1>3, <1>s, StatusUpdate DEF O_Pop
  <2>. QED  BY <1>3, <2>1, <2>2 DEF O_Pop, OutPcs
<1>4. CASE O_Search
  <2>1. handle' \in Handles
    BY <1>4, ConstantsAssumption DEF O_Search, Find, NotSent, Handles, Bumped
  <2>2. status' \in Seq(Service!Statuses) /\ Len(status') = Len(status)
    BY <1>4, <1>s, StatusUpdate DEF O_Search, Find, NotSent
  <2>. QED  BY <1>4, <2>1, <2>2 DEF O_Search, Find, NotSent, OutPcs
<1>5. CASE O_Erase
  BY <1>5, <1>s, StatusUpdate DEF O_Erase, OutPcs, SpinPcs
<1>6. CASE O_Send
  <2>1. handle' \in Handles
    BY <1>6 DEF O_Send, Handles, Sent
  <2>2. status' \in Seq(Service!Statuses) /\ Len(status') = Len(status)
    BY <1>6, <1>s, StatusUpdate DEF O_Send
  <2>3. delivered' \subseteq 1..Len(log)
    BY <1>6 DEF O_Send, PathInv, HandInv, InHand, Matches
  <2>. QED  BY <1>6, <2>1, <2>2, <2>3 DEF O_Send, OutPcs
<1>7. CASE O_Push
  BY <1>7, AppendFacts DEF O_Push, OutPcs
<1>. QED  BY <1>1, <1>2, <1>3, <1>4, <1>5, <1>6, <1>7 DEF OutboundThread

\* The other threads and the peer keep the types.
LEMMA OtherType ==
  ASSUME TypeOK,
         \/ \E c \in Callers : QasCheck(c) \/ QasPush(c)
         \/ O_Crash \/ SpinThread
         \/ PeerRespond \/ PeerSendOther \/ PeerClose \/ NoticeClose
  PROVE  TypeOK'
<1>. USE DEF TypeOK, outVars, spinVars, connVars, peerVars, Racing
<1>1. ASSUME NEW c \in Callers, QasCheck(c)  PROVE TypeOK'
  BY <1>1 DEF QasCheck
<1>2. ASSUME NEW c \in Callers, QasPush(c)  PROVE TypeOK'
  <2>1. PICK m \in Messages : PushNew(m)
    BY <1>2, PushedMessages DEF QasPush
  <2>. QED  BY <1>2, <2>1, PushNewType DEF QasPush
<1>3. CASE O_Crash
  BY <1>3 DEF O_Crash
<1>4. CASE S_Handle
  <2>1. inbox' \in Seq(Ids \cup {NoId}) /\ spinId' \in Ids \cup {NoId}
    <3>1. inbox \in Seq(Ids \cup {NoId}) /\ spinId \in Ids \cup {NoId}
      BY DEF TypeOK
    <3>2. CASE inbox = << >>
      BY <1>4, <3>1, <3>2 DEF S_Handle
    <3>3. CASE inbox # << >>
      <4>1. Tail(inbox) \in Seq(Ids \cup {NoId}) /\ Head(inbox) \in Ids \cup {NoId}
        BY <3>1, <3>3, TailFacts
      <4>2. inbox' = Tail(inbox) /\ spinId' = Head(inbox)
        BY <1>4, <3>3 DEF S_Handle
      <4>. QED  BY <4>1, <4>2
    <3>. QED  BY <3>2, <3>3
  <2>2. spinPc' \in SpinPcs /\ (Racing' => spinId' \in Ids)
    BY <1>4, <2>1 DEF S_Handle, GivesResponseHandle, SpinPcs
  <2>. QED  BY <1>4, <2>1, <2>2 DEF S_Handle
<1>5. CASE S_Insert
  <2>1. respMap' \subseteq Ids /\ spinPc' = "keepAlive"
    BY <1>5 DEF S_Insert
  <2>. QED  BY <1>5, <2>1 DEF S_Insert, SpinPcs
<1>6. CASE S_Join
  <2>1. outPc' \in OutPcs /\ spinPc' \in SpinPcs
    BY <1>6 DEF S_Join, SpinPcs, OutPcs
  <2>. QED  BY <1>6, <2>1 DEF S_Join
<1>7. CASE S_Listen
  <2>1. conn' \in Nat
    BY <1>7 DEF S_Listen
  <2>2. /\ spinPc' \in {"greet", "keepAlive"}
        /\ sock' \in {"up", "peerClosed", "closed"}
    BY <1>7 DEF S_Listen
  <2>3. connected' \in BOOLEAN
    BY <1>7, Zenon DEF S_Listen
  <2>. QED  BY <1>7, <2>1, <2>2, <2>3 DEF S_Listen, SpinPcs
<1>8. CASE S_Greet
  BY <1>8 DEF S_Greet, SpinPcs, OutPcs
<1>9. CASE S_KeepAlive
  BY <1>9 DEF S_KeepAlive, SpinPcs
<1>10. CASE S_KaPush
  BY <1>10, PushNewType, PushedMessages DEF S_KaPush, SpinPcs
<1>11. CASE PeerRespond
  <2>1. PICK n \in delivered : /\ inbox' = Append(inbox, log[n].id)
                              /\ answered' = answered \cup {n}
    BY <1>11 DEF PeerRespond
  <2>2. log[n] \in Messages
    BY <2>1, ElementOfSeq
  <2>3. log[n].id \in Ids \cup {NoId}
    BY <2>2 DEF Messages
  <2>. QED  BY <1>11, <2>1, <2>3, AppendFacts DEF PeerRespond
<1>12. CASE PeerSendOther
  BY <1>12, AppendFacts DEF PeerSendOther
<1>13. CASE PeerClose
  BY <1>13 DEF PeerClose
<1>14. CASE NoticeClose
  BY <1>14 DEF NoticeClose
<1>. QED
  BY <1>1, <1>2, <1>3, <1>4, <1>5, <1>6, <1>7, <1>8, <1>9, <1>10, <1>11, <1>12, <1>13, <1>14
     DEF SpinThread

-----------------------------------------------------------------------------
(* The queue and the thread's handle                                       *)

\* A push by queueAndSend or by the keep-alive preserves the invariant: the
\* new message is younger than all others.
LEMMA PushNewPath ==
  ASSUME TypeOK, PathInv, NEW m \in Messages, PushNew(m),
         UNCHANGED <<outPc, handle>>
  PROVE  PathInv'
<1>n. PICK new : new = [seq |-> Len(log) + 1, state |-> "READY", delay |-> 0]
  OBVIOUS
<1>0. /\ new \in Handles
      /\ outboundQueue' = Append(outboundQueue, new)
      /\ "queued" \in Service!Statuses
  BY <1>n DEF PushNew, TypeOK, Handles, Service!Statuses
<1>1. /\ Len(outboundQueue') = Len(outboundQueue) + 1
      /\ Len(outboundQueue) \in Nat
      /\ \A i \in 1..Len(outboundQueue) : outboundQueue'[i] = outboundQueue[i]
      /\ outboundQueue'[Len(outboundQueue) + 1] = new
  BY <1>0, AppendFacts DEF TypeOK
<1>2. /\ Len(log') = Len(log) + 1
      /\ Len(log) \in Nat
      /\ \A n \in 1..Len(log) : log'[n] = log[n] /\ status'[n] = status[n]
      /\ status'[Len(log) + 1] = "queued"
  BY <1>0, AppendFacts DEF TypeOK, PushNew
<1>3. \A i \in 1..Len(outboundQueue) : Matches(outboundQueue[i])
  BY DEF PathInv, QueueInv
<1>4. QueueInv'
  <2>1. ASSUME NEW i \in 1..Len(outboundQueue')
        PROVE  Matches(outboundQueue[i])'
    <3>1. CASE i \in 1..Len(outboundQueue)
      BY <1>1, <1>2, <1>3, <3>1 DEF Matches
    <3>2. CASE i = Len(outboundQueue) + 1
      BY <1>n, <1>1, <1>2, <3>2 DEF Matches
    <3>. QED  BY <1>1, <3>1, <3>2
  <2>2. \A i \in 1..Len(outboundQueue) :
          outboundQueue[i].seq \in Nat /\ outboundQueue[i].seq < new.seq
    BY <1>n, <1>2, <1>3 DEF Matches
  <2>3. ASSUME NEW i \in 1..Len(outboundQueue'), NEW j \in 1..Len(outboundQueue'), i < j
        PROVE  /\ outboundQueue'[i].seq # outboundQueue'[j].seq
               /\ (outboundQueue'[i].state = "READY" /\ outboundQueue'[j].state = "READY")
                    => outboundQueue'[i].seq < outboundQueue'[j].seq
    <3>1. i \in 1..Len(outboundQueue) /\ outboundQueue'[i] = outboundQueue[i]
      BY <1>1, <2>3
    <3>2. CASE j \in 1..Len(outboundQueue)
      <4>1. outboundQueue'[j] = outboundQueue[j] /\ i # j
        BY <1>1, <2>3, <3>2
      <4>. QED  BY <2>3, <3>1, <3>2, <4>1 DEF PathInv, QueueInv
    <3>3. CASE j = Len(outboundQueue) + 1
      <4>1. outboundQueue'[j] = new /\ new.seq \in Nat
        BY <1>n, <1>1, <1>2, <3>3
      <4>. QED  BY <2>2, <3>1, <4>1
    <3>. QED  BY <1>1, <3>2, <3>3
  <2>4. ASSUME NEW i \in 1..Len(outboundQueue'), NEW j \in 1..Len(outboundQueue'), i # j
        PROVE  outboundQueue'[i].seq # outboundQueue'[j].seq
    <3>1. i < j \/ j < i
      BY <2>4
    <3>. QED  BY <2>3, <3>1
  <2>. QED  BY <2>1, <2>3, <2>4 DEF QueueInv
<1>5. ASSUME InHand'  PROVE HandInv'
  <2>1. InHand /\ Matches(handle)
    BY <1>5 DEF PathInv, HandInv, InHand
  <2>2. Matches(handle)'
    BY <1>2, <2>1 DEF Matches
  <2>3. handle.seq \in Nat /\ handle.seq < new.seq
    BY <1>n, <1>2, <2>1 DEF Matches
  <2>. QED  BY <1>1, <2>1, <2>2, <2>3 DEF PathInv, HandInv
<1>6. PcInv'
  BY <1>1, <1>2 DEF PathInv, PcInv, HandInv, InHand, Matches, PopsWhatItRead, TypeOK
<1>7. ASSUME NEW n \in 1..Len(log'), Open(n)'
      PROVE  \/ \E i \in 1..Len(outboundQueue') : outboundQueue'[i].seq = n
             \/ InHand' /\ handle'.seq = n
  <2>1. CASE n \in 1..Len(log)
    <3>1. Open(n)
      BY <1>2, <1>7, <2>1 DEF Open
    <3>2. CASE \E i \in 1..Len(outboundQueue) : outboundQueue[i].seq = n
      BY <1>1, <3>2
    <3>. QED  BY <2>1, <3>1, <3>2 DEF PathInv, OpenInv, InHand
  <2>2. CASE n = Len(log) + 1
    BY <1>n, <1>1, <2>2
  <2>. QED  BY <1>2, <2>1, <2>2
<1>. QED  BY <1>4, <1>5, <1>6, <1>7 DEF PathInv, OpenInv, HandInv

\* Steps that leave the outbound path alone preserve the invariant.
LEMMA FramePath ==
  ASSUME PathInv, UNCHANGED outVars
  PROVE  PathInv'
BY DEF outVars, PathInv, QueueInv, HandInv, PcInv, OpenInv, Matches, Open, InHand, PopsWhatItRead

\* So do steps that only move the outbound thread between points where it
\* holds no handle.
LEMMA IdlePath ==
  ASSUME PathInv, UNCHANGED <<outboundQueue, log, status>>,
         ~InHand, outPc' \in {"none", "top", "poll", "exited"}
  PROVE  PathInv'
<1>1. ~InHand' /\ outPc' # "pop"
  BY DEF InHand
<1>2. PcInv'
  BY DEF PcInv, PopsWhatItRead
<1>. QED  BY <1>1, <1>2 DEF PathInv, QueueInv, HandInv, OpenInv, Matches, Open

\* The thread decides the fate of the message in its hands and lets it go.
LEMMA ReleasePath ==
  ASSUME TypeOK, PathInv, InHand, UNCHANGED <<outboundQueue, log>>, outPc' = "top",
         NEW s \in Service!Statuses \ {"queued", "transmitted"},
         status' = [status EXCEPT ![handle.seq] = s]
  PROVE  PathInv'
<1>1. /\ handle.seq \in 1..Len(log)
      /\ \A k \in 1..Len(log) : status'[k] = IF k = handle.seq THEN s ELSE status[k]
  BY StatusUpdate DEF PathInv, HandInv, Matches, TypeOK
<1>2. QueueInv'
  BY <1>1 DEF PathInv, QueueInv, HandInv, Matches
<1>3. HandInv' /\ PcInv'
  BY DEF HandInv, PcInv, InHand, PopsWhatItRead
<1>4. OpenInv'
  BY <1>1 DEF PathInv, OpenInv, Open
<1>. QED  BY <1>2, <1>3, <1>4 DEF PathInv

\* The outbound thread preserves the invariant.
LEMMA OutboundPath ==
  ASSUME TypeOK, PathInv, OutboundThread
  PROVE  PathInv'
<1>s. {"unsupported", "dropped", "answered", "transmitted", "greeted"} \subseteq Service!Statuses
  BY DEF Service!Statuses
<1>1. CASE O_Top
  BY <1>1, IdlePath DEF O_Top, InHand
<1>2. CASE O_Front
  <2>1. CASE outboundQueue = << >>
    BY <1>2, <2>1, IdlePath DEF O_Front, InHand
  <2>2. CASE outboundQueue # << >>
    <3>1. ~InHand /\ ~InHand' /\ PcInv'
      BY <1>2, <2>2 DEF O_Front, InHand, PcInv, PopsWhatItRead
    <3>. QED  BY <1>2, <3>1 DEF O_Front, PathInv, QueueInv, HandInv, OpenInv, Matches, Open
  <2>. QED  BY <2>1, <2>2
<1>3. CASE O_Pop
  <2>1. /\ outboundQueue # << >>
        /\ Len(outboundQueue) \in Nat \ {0}
        /\ handle = outboundQueue[1]
        /\ Len(outboundQueue') = Len(outboundQueue) - 1
        /\ \A i \in 1..Len(outboundQueue') :
             i + 1 \in 1..Len(outboundQueue) /\ outboundQueue'[i] = outboundQueue[i + 1]
    BY <1>3, TailFacts DEF O_Pop, PathInv, PcInv, PopsWhatItRead, TypeOK
  <2>2. Matches(handle) /\ Len(log) \in Nat
    BY <2>1 DEF PathInv, QueueInv, TypeOK
  <2>3. /\ \A k \in 1..Len(log) : k # handle.seq => status'[k] = status[k]
        /\ msg.kind # "other" => status' = status
        /\ msg.kind = "other" => status'[handle.seq] = "unsupported"
    BY <1>3, <1>s, <2>2, StatusUpdate DEF O_Pop, TypeOK, Matches
  <2>4. log' = log /\ handle' = handle /\ ~InHand
    BY <1>3 DEF O_Pop, InHand
  <2>5. \A i \in 1..Len(outboundQueue') : outboundQueue'[i].seq # handle.seq
    BY <2>1 DEF PathInv, QueueInv
  <2>6. QueueInv'
    <3>1. ASSUME NEW i \in 1..Len(outboundQueue')
          PROVE  Matches(outboundQueue[i])'
      <4>1. Matches(outboundQueue[i + 1])
        BY <2>1 DEF PathInv, QueueInv
      <4>2. /\ outboundQueue'[i] = outboundQueue[i + 1]
            /\ outboundQueue[i + 1].seq # handle.seq
        BY <2>1, <2>5
      <4>. QED  BY <2>3, <2>4, <4>1, <4>2 DEF Matches
    <3>2. ASSUME NEW i \in 1..Len(outboundQueue'), NEW j \in 1..Len(outboundQueue')
          PROVE  /\ i # j => outboundQueue'[i].seq # outboundQueue'[j].seq
                 /\ (i < j /\ outboundQueue'[i].state = "READY"
                           /\ outboundQueue'[j].state = "READY")
                      => outboundQueue'[i].seq < outboundQueue'[j].seq
      <4>1. /\ i + 1 \in 1..Len(outboundQueue) /\ j + 1 \in 1..Len(outboundQueue)
            /\ outboundQueue'[i] = outboundQueue[i + 1]
            /\ outboundQueue'[j] = outboundQueue[j + 1]
            /\ i < j => i + 1 < j + 1
            /\ i # j => i + 1 # j + 1
        BY <2>1
      <4>. QED  BY <4>1 DEF PathInv, QueueInv
    <3>. QED  BY <3>1, <3>2 DEF QueueInv
  <2>7. HandInv'
    <3>1. InHand' => status' = status
      BY <1>3 DEF O_Pop, InHand
    <3>2. InHand' => Matches(handle)'
      BY <2>2, <2>4, <3>1 DEF Matches
    <3>3. ASSUME NEW i \in 1..Len(outboundQueue'),
                 handle.state = "READY", outboundQueue'[i].state = "READY"
          PROVE  handle.seq < outboundQueue'[i].seq
      BY <2>1, <3>3 DEF PathInv, QueueInv
    <3>. QED  BY <2>4, <2>5, <3>2, <3>3 DEF HandInv
  <2>8. PcInv'
    BY <1>3, <2>2, <2>4 DEF O_Pop, PcInv, PopsWhatItRead, Matches, TypeOK, Handles, msg
  <2>9. OpenInv'
    <3>1. ASSUME NEW n \in 1..Len(log), Open(n)', n # handle.seq
          PROVE  \E i \in 1..Len(outboundQueue') : outboundQueue'[i].seq = n
      <4>1. Open(n)
        BY <2>3, <2>4, <3>1 DEF Open
      <4>2. PICK i \in 1..Len(outboundQueue) : outboundQueue[i].seq = n
        BY <2>4, <4>1 DEF PathInv, OpenInv
      <4>3. i # 1
        BY <2>1, <3>1, <4>2
      <4>4. i - 1 \in 1..Len(outboundQueue') /\ outboundQueue'[i - 1] = outboundQueue[i]
        BY <2>1, <4>3
      <4>. QED  BY <4>2, <4>4
    <3>2. ASSUME Open(handle.seq)'  PROVE InHand'
      BY <1>3, <2>2, <2>3, <2>4, <3>2 DEF O_Pop, InHand, Open, Messages, Kinds, TypeOK
    <3>. QED  BY <2>4, <3>1, <3>2 DEF OpenInv
  <2>. QED  BY <2>6, <2>7, <2>8, <2>9 DEF PathInv
<1>4. CASE O_Search
  <2>1. CASE outPc' = "top"
    BY <1>4, <1>s, <2>1, ReleasePath DEF O_Search, Find, NotSent, InHand
  <2>2. CASE outPc' # "top"
    <3>1. /\ UNCHANGED <<outboundQueue, log, status>>
          /\ InHand /\ InHand'
          /\ handle'.seq = handle.seq /\ handle'.state = handle.state
      BY <1>4, <2>2 DEF O_Search, Find, NotSent, InHand, Bumped
    <3>2. QueueInv'
      BY <3>1 DEF PathInv, QueueInv, Matches
    <3>3. HandInv'
      BY <3>1 DEF PathInv, HandInv, Matches
    <3>4. PcInv'
      BY <1>4, <3>1 DEF O_Search, Find, NotSent, PathInv, PcInv, PopsWhatItRead, TypeOK, Handles
    <3>5. OpenInv'
      BY <3>1 DEF PathInv, OpenInv, Open
    <3>. QED  BY <3>2, <3>3, <3>4, <3>5 DEF PathInv
  <2>. QED  BY <2>1, <2>2
<1>5. CASE O_Erase
  BY <1>5, <1>s, ReleasePath DEF O_Erase, InHand
<1>6. CASE O_Send
  <2>1. CASE msg.kind # "request"
    BY <1>6, <1>s, <2>1, ReleasePath DEF O_Send, InHand
  <2>2. CASE msg.kind = "request"
    <3>1. /\ InHand /\ InHand' /\ outPc' = "push"
          /\ UNCHANGED <<outboundQueue, log>>
          /\ handle'.seq = handle.seq /\ handle'.state = "SENT"
      BY <1>6, <2>2 DEF O_Send, InHand, Sent
    <3>2. /\ handle.seq \in 1..Len(log)
          /\ \A k \in 1..Len(log) :
               status'[k] = IF k = handle.seq THEN "transmitted" ELSE status[k]
      BY <1>6, <1>s, <2>2, <3>1, StatusUpdate DEF O_Send, PathInv, HandInv, Matches, TypeOK
    <3>3. QueueInv'
      BY <3>1, <3>2 DEF PathInv, QueueInv, HandInv, Matches
    <3>4. HandInv'
      BY <2>2, <3>1, <3>2 DEF PathInv, HandInv, Matches, msg
    <3>5. PcInv'
      BY <3>1 DEF PcInv, PopsWhatItRead
    <3>6. OpenInv'
      BY <3>1, <3>2 DEF PathInv, OpenInv, Open
    <3>. QED  BY <3>3, <3>4, <3>5, <3>6 DEF PathInv
  <2>. QED  BY <2>1, <2>2
<1>7. CASE O_Push
  <2>1. /\ InHand /\ ~InHand' /\ outPc' = "top" /\ handle.state = "SENT"
        /\ UNCHANGED <<log, status, handle>>
        /\ Matches(handle)
    BY <1>7 DEF O_Push, InHand, PathInv, PcInv, HandInv
  <2>2. /\ Len(outboundQueue') = Len(outboundQueue) + 1
        /\ Len(outboundQueue) \in Nat
        /\ \A i \in 1..Len(outboundQueue) : outboundQueue'[i] = outboundQueue[i]
        /\ outboundQueue'[Len(outboundQueue) + 1] = handle
    BY <1>7, AppendFacts DEF O_Push, TypeOK
  <2>3. QueueInv'
    <3>1. ASSUME NEW i \in 1..Len(outboundQueue')
          PROVE  Matches(outboundQueue[i])'
      BY <2>1, <2>2 DEF PathInv, QueueInv, Matches
    <3>. QED  BY <2>1, <2>2, <3>1 DEF PathInv, QueueInv, HandInv
  <2>4. HandInv' /\ PcInv'
    BY <2>1 DEF HandInv, PcInv, PopsWhatItRead
  <2>5. OpenInv'
    BY <2>1, <2>2 DEF PathInv, OpenInv, Open
  <2>. QED  BY <2>3, <2>4, <2>5 DEF PathInv
<1>. QED  BY <1>1, <1>2, <1>3, <1>4, <1>5, <1>6, <1>7 DEF OutboundThread

\* The other threads and the peer preserve the invariant.
LEMMA OtherPath ==
  ASSUME TypeOK, PathInv, NoStaleThread,
         \/ \E c \in Callers : QasCheck(c) \/ QasPush(c)
         \/ O_Crash \/ SpinThread
         \/ PeerRespond \/ PeerSendOther \/ PeerClose \/ NoticeClose
  PROVE  PathInv'
<1>1. ASSUME NEW c \in Callers, QasPush(c)  PROVE PathInv'
  BY <1>1, PushedMessages, PushNewPath DEF QasPush
<1>2. CASE S_KaPush
  BY <1>2, PushedMessages, PushNewPath DEF S_KaPush
<1>3. CASE S_Join
  BY <1>3, IdlePath, FramePath DEF S_Join, InHand, outVars
<1>4. CASE S_Greet
  <2>1. CASE UNCHANGED outPc
    BY <1>4, <2>1, FramePath DEF S_Greet, outVars
  <2>2. CASE outPc' = "top"
    BY <1>4, <2>2, IdlePath DEF S_Greet, InHand, NoStaleThread
  <2>. QED  BY <1>4, <2>1, <2>2 DEF S_Greet
<1>5. ASSUME \/ \E c \in Callers : QasCheck(c)
             \/ O_Crash \/ S_Handle \/ S_Insert \/ S_Listen \/ S_KeepAlive
             \/ PeerRespond \/ PeerSendOther \/ PeerClose \/ NoticeClose
      PROVE  PathInv'
  BY <1>5, FramePath
     DEF QasCheck, O_Crash, S_Handle, S_Insert, S_Listen, S_KeepAlive,
         PeerRespond, PeerSendOther, PeerClose, NoticeClose
<1>. QED  BY <1>1, <1>2, <1>3, <1>4, <1>5 DEF SpinThread

\* No thread is left over while spin() waits for a client or greets it.
LEMMA StaleThreadStep ==
  ASSUME TypeOK, NoStaleThread, Next
  PROVE  NoStaleThread'
<1>. USE DEF NoStaleThread, outVars, spinVars, connVars, peerVars
<1>1. ASSUME NEW c \in Callers, QasCheck(c) \/ QasPush(c)  PROVE NoStaleThread'
  BY <1>1 DEF QasCheck, QasPush
<1>2. CASE OutboundThread
  <2>1. outPc # "none" /\ outPc' # "none"
    BY <1>2 DEF OutboundThread, O_Top, O_Front, O_Pop, O_Search, Find, NotSent, O_Erase, O_Send, O_Push
  <2>2. spinPc' = spinPc \/ spinPc' = "insertLost"
    BY <1>2 DEF OutboundThread, O_Top, O_Front, O_Pop, O_Search, Find, NotSent, O_Erase, O_Send, O_Push
  <2>. QED  BY <2>1, <2>2
<1>3. CASE SpinThread
  BY <1>3 DEF SpinThread, S_Handle, S_Insert, S_Join, S_Listen, S_Greet, S_KeepAlive, S_KaPush
<1>4. CASE O_Crash \/ PeerRespond \/ PeerSendOther \/ PeerClose \/ NoticeClose
  BY <1>4 DEF O_Crash, PeerRespond, PeerSendOther, PeerClose, NoticeClose
<1>. QED  BY <1>1, <1>2, <1>3, <1>4 DEF Next

-----------------------------------------------------------------------------
(* The invariants that hold whatever ids the application uses              *)

BaseInv == TypeOK /\ PathInv /\ NoStaleThread

\* The initial state satisfies the invariant.
LEMMA BaseInit == Init => BaseInv
<1>. SUFFICES ASSUME Init  PROVE BaseInv
  OBVIOUS
<1>1. TypeOK
  <2>1. /\ log \in Seq(Messages) /\ status \in Seq(Service!Statuses) /\ Len(status) = Len(log)
        /\ outboundQueue \in Seq(Handles) /\ inbox \in Seq(Ids \cup {NoId})
    BY DEF Init
  <2>2. handle \in Handles /\ callerPc \in [Callers -> {"idle", "push"}]
    BY DEF Init, Handles
  <2>. QED  BY <2>1, <2>2 DEF Init, TypeOK, OutPcs, SpinPcs, Racing
<1>2. PathInv /\ NoStaleThread
  BY DEF Init, PathInv, QueueInv, HandInv, PcInv, OpenInv, Open, InHand,
         PopsWhatItRead, NoStaleThread
<1>. QED  BY <1>1, <1>2 DEF BaseInv

\* Every step preserves it.
LEMMA BaseStep == BaseInv /\ [Next]_vars => BaseInv'
<1>. SUFFICES ASSUME BaseInv, [Next]_vars  PROVE BaseInv'
  OBVIOUS
<1>1. CASE Next
  BY <1>1, OutboundType, OtherType, OutboundPath, OtherPath, StaleThreadStep DEF Next, BaseInv
<1>2. CASE UNCHANGED vars
  <2>1. PathInv'
    BY <1>2, FramePath DEF vars, BaseInv
  <2>2. TypeOK' /\ NoStaleThread'
    BY <1>2 DEF vars, outVars, spinVars, connVars, peerVars, BaseInv, TypeOK, NoStaleThread, Racing
  <2>. QED  BY <2>1, <2>2 DEF BaseInv
<1>. QED  BY <1>1, <1>2

\* Type correctness of the outbound path, in every reachable state.
THEOREM TypeCorrect == Spec => []TypeOK
<1>1. BaseInv => TypeOK
  BY DEF BaseInv
<1>. QED  BY <1>1, BaseInit, BaseStep, PTL DEF Spec

\* The outbound thread pops what it read, for any number of pushing threads.
THEOREM PopIsSafe == Spec => []PopsWhatItRead
<1>1. BaseInv => PopsWhatItRead
  BY DEF BaseInv, PathInv, PcInv
<1>. QED  BY <1>1, BaseInit, BaseStep, PTL DEF Spec

\* At most one outbound thread ever works on the queue.
THEOREM OneThread == Spec => []NoStaleThread
<1>1. BaseInv => NoStaleThread
  BY DEF BaseInv
<1>. QED  BY <1>1, BaseInit, BaseStep, PTL DEF Spec

\* An accepted message is open exactly while it has one place.
THEOREM NothingLost == Spec => []OneOwner
<1>1. ASSUME BaseInv, NEW n \in 1..Len(log)
      PROVE  Cardinality({i \in 1..Len(outboundQueue) : outboundQueue[i].seq = n})
               + (IF InHand /\ handle.seq = n THEN 1 ELSE 0)
             = (IF Open(n) THEN 1 ELSE 0)
  <2>. DEFINE Places == {i \in 1..Len(outboundQueue) : outboundQueue[i].seq = n}
  <2>1. ASSUME NEW h \in Handles, Matches(h), h.seq = n  PROVE Open(n)
    BY <2>1 DEF Matches, Open, Handles
  <2>2. CASE InHand /\ handle.seq = n
    <3>1. Places = {} /\ Open(n)
      BY <1>1, <2>1, <2>2 DEF BaseInv, TypeOK, PathInv, HandInv
    <3>2. Cardinality(Places) = 0
      BY <3>1, FS_EmptySet
    <3>. QED  BY <2>2, <3>1, <3>2
  <2>3. CASE ~(InHand /\ handle.seq = n) /\ Places # {}
    <3>1. PICK i \in Places : TRUE
      BY <2>3
    <3>2. Places = {i}
      BY <1>1, <3>1 DEF BaseInv, PathInv, QueueInv
    <3>3. Cardinality(Places) = 1
      BY <3>2, FS_Singleton
    <3>4. outboundQueue[i] \in Handles /\ Matches(outboundQueue[i]) /\ outboundQueue[i].seq = n
      BY <1>1, <3>1, ElementOfSeq DEF BaseInv, TypeOK, PathInv, QueueInv
    <3>. QED  BY <2>1, <2>3, <3>3, <3>4
  <2>4. CASE ~(InHand /\ handle.seq = n) /\ Places = {}
    <3>1. ~Open(n)
      BY <1>1, <2>4 DEF BaseInv, PathInv, OpenInv
    <3>2. Cardinality(Places) = 0
      BY <2>4, FS_EmptySet
    <3>. QED  BY <2>4, <3>1, <3>2
  <2>. QED  BY <2>2, <2>3, <2>4
<1>2. BaseInv => OneOwner
  BY <1>1 DEF OneOwner
<1>. QED  BY <1>2, BaseInit, BaseStep, PTL DEF Spec

-----------------------------------------------------------------------------
(* Request ids that are never reused                                       *)

\* A push of a message with a fresh id, or with none, preserves IdInv.
LEMMA PushNewId ==
  ASSUME BaseInv, IdInv, NEW m \in Messages, PushNew(m),
         m.kind = "request" => m.id # NoId,
         \A n \in 1..Len(log) : m.id = log[n].id => m.id = NoId,
         UNCHANGED <<outPc, handle, respMap, spinId, inbox, delivered, answered>>
  PROVE  IdInv'
<1>1. /\ Len(log') = Len(log) + 1
      /\ Len(log) \in Nat
      /\ \A n \in 1..Len(log) : log'[n] = log[n] /\ status'[n] = status[n]
      /\ log'[Len(log) + 1] = m
      /\ status'[Len(log) + 1] = "queued"
      /\ answered \subseteq delivered /\ delivered \subseteq 1..Len(log)
  <2>1. "queued" \in Service!Statuses
    BY DEF Service!Statuses
  <2>. QED  BY <2>1, AppendFacts DEF PushNew, BaseInv, TypeOK
<1>2. (\A n \in 1..Len(log) : log[n].kind = "request" => log[n].id # NoId)'
  BY <1>1 DEF IdInv
<1>3. (\A k, n \in 1..Len(log) : (k # n /\ log[k].id = log[n].id) => log[k].id = NoId)'
  BY <1>1 DEF IdInv
<1>4. (\A n \in delivered : status[n] # "queued")'
  BY <1>1 DEF IdInv
<1>5. \A n \in answered : log'[n] = log[n]
  BY <1>1
<1>6. DeletedOnlyIfAnswered'
  BY <1>1 DEF IdInv, DeletedOnlyIfAnswered
<1>. QED  BY <1>2, <1>3, <1>4, <1>5, <1>6 DEF IdInv

\* A change of the status of the message in hand preserves what IdInv says
\* of statuses, when "answered" is given only to an answered request.
LEMMA StatusId ==
  ASSUME BaseInv, IdInv, NEW s \in Service!Statuses \ {"queued"},
         status' = [status EXCEPT ![handle.seq] = s],
         s = "answered" => handle.seq \in answered,
         UNCHANGED <<log, answered>>, delivered' \subseteq delivered \cup {handle.seq}
  PROVE  /\ DeletedOnlyIfAnswered'
         /\ delivered' \subseteq 1..Len(log) => (\A n \in delivered : status[n] # "queued")'
<1>1. \A k \in 1..Len(log) : status'[k] = IF k = handle.seq THEN s ELSE status[k]
  BY StatusUpdate DEF BaseInv, TypeOK
<1>. QED  BY <1>1 DEF IdInv, DeletedOnlyIfAnswered

\* The outbound thread preserves IdInv: a response it finds is one for the
\* request in its hands.
LEMMA OutboundId ==
  ASSUME BaseInv, IdInv, OutboundThread
  PROVE  IdInv'
<1>. USE DEF outVars, spinVars, connVars, peerVars
<1>s. {"unsupported", "dropped", "answered", "transmitted", "greeted"}
        \subseteq Service!Statuses \ {"queued"}
  BY DEF Service!Statuses
<1>1. CASE O_Top \/ O_Front \/ O_Push
  BY <1>1 DEF O_Top, O_Front, O_Push, IdInv, DeletedOnlyIfAnswered
<1>2. CASE O_Pop
  <2>1. DeletedOnlyIfAnswered' /\ (\A n \in delivered : status[n] # "queued")'
    <3>1. CASE UNCHANGED status
      BY <1>2, <3>1 DEF O_Pop, IdInv, DeletedOnlyIfAnswered
    <3>2. CASE ~UNCHANGED status
      BY <1>2, <1>s, <3>2, StatusId DEF O_Pop, BaseInv, TypeOK
    <3>. QED  BY <3>1, <3>2
  <2>. QED  BY <1>2, <2>1 DEF O_Pop, IdInv
<1>3. CASE O_Search
  <2>1. ASSUME MayHit  PROVE handle.seq \in answered
    <3>1. /\ handle.seq \in 1..Len(log)
          /\ log[handle.seq].kind = "request"
          /\ log[handle.seq].id # NoId
          /\ answered \subseteq 1..Len(log)
      BY <1>3 DEF O_Search, Find, NotSent, BaseInv, TypeOK, PathInv, HandInv, PcInv, InHand, Matches, IdInv
    <3>2. PICK n \in answered : log[n].id = msg.id
      BY <2>1, <3>1 DEF MayHit, IdInv, msg
    <3>3. n = handle.seq
      BY <3>1, <3>2 DEF IdInv, msg
    <3>. QED  BY <3>2, <3>3
  <2>2. DeletedOnlyIfAnswered' /\ (\A n \in delivered : status[n] # "queued")'
    <3>1. CASE UNCHANGED status
      BY <1>3, <3>1 DEF O_Search, Find, NotSent, IdInv, DeletedOnlyIfAnswered
    <3>2. CASE ~UNCHANGED status
      BY <1>3, <1>s, <3>2, StatusId DEF O_Search, Find, NotSent, BaseInv, TypeOK
    <3>. QED  BY <3>1, <3>2
  <2>3. outPc' = "erase" => handle'.seq \in answered'
    BY <1>3, <2>1 DEF O_Search, Find, NotSent
  <2>. QED  BY <1>3, <2>2, <2>3 DEF O_Search, Find, NotSent, IdInv
<1>4. CASE O_Erase
  <2>1. DeletedOnlyIfAnswered' /\ (\A n \in delivered : status[n] # "queued")'
    BY <1>4, <1>s, StatusId DEF O_Erase, BaseInv, TypeOK, IdInv
  <2>2. respMap' \subseteq respMap /\ outPc' = "top"
    BY <1>4 DEF O_Erase
  <2>. QED  BY <1>4, <2>1, <2>2 DEF O_Erase, IdInv
<1>5. CASE O_Send
  <2>1. delivered' \subseteq 1..Len(log) /\ delivered' \subseteq delivered \cup {handle.seq}
    BY <1>5, OutboundType DEF O_Send, OutboundThread, BaseInv, TypeOK
  <2>2. DeletedOnlyIfAnswered' /\ (\A n \in delivered : status[n] # "queued")'
    BY <1>5, <1>s, <2>1, StatusId DEF O_Send
  <2>3. outPc' # "erase"
    BY <1>5 DEF O_Send
  <2>. QED  BY <1>5, <2>2, <2>3 DEF O_Send, IdInv
<1>. QED  BY <1>1, <1>2, <1>3, <1>4, <1>5 DEF OutboundThread

\* The other threads and the peer preserve IdInv when ids are not reused.
LEMMA OtherId ==
  ASSUME BaseInv, IdInv, ReuseIds = FALSE,
         \/ \E c \in Callers : QasCheck(c) \/ QasPush(c)
         \/ O_Crash \/ SpinThread
         \/ PeerRespond \/ PeerSendOther \/ PeerClose \/ NoticeClose
  PROVE  IdInv'
<1>. USE DEF outVars, spinVars, connVars, peerVars
<1>1. ASSUME NEW c \in Callers, QasPush(c)  PROVE IdInv'
  <2>1. PICK m \in Requests \cup {Unsupported} : PushNew(m)
    BY <1>1 DEF QasPush
  <2>2. /\ m \in Messages
        /\ m.kind = "request" => m.id # NoId
        /\ \A n \in 1..Len(log) : m.id = log[n].id => m.id = NoId
    BY <2>1, PushedMessages, ConstantsAssumption DEF Requests, Unsupported
  <2>. QED  BY <1>1, <2>1, <2>2, PushNewId DEF QasPush
<1>2. CASE S_KaPush
  <2>1. Greeting.kind # "request" /\ Greeting.id = NoId
    BY DEF Greeting
  <2>. QED  BY <1>2, <2>1, PushedMessages, PushNewId DEF S_KaPush
<1>3. CASE S_Handle
  <2>1. CASE inbox = << >>
    BY <1>3, <2>1 DEF S_Handle, IdInv, DeletedOnlyIfAnswered
  <2>2. CASE inbox # << >>
    <3>0. inbox \in Seq(Ids \cup {NoId}) /\ inbox' = Tail(inbox) /\ spinId' = Head(inbox)
      BY <1>3, <2>2 DEF S_Handle, BaseInv, TypeOK
    <3>1. /\ Len(inbox) \in Nat \ {0}
          /\ spinId' = inbox[1]
          /\ Len(inbox') = Len(inbox) - 1
          /\ \A k \in 1..Len(inbox') : inbox'[k] = inbox[k + 1] /\ k + 1 \in 1..Len(inbox)
      BY <2>2, <3>0, TailFacts
    <3>2. UNCHANGED <<log, status, outPc, handle, respMap, delivered, answered>>
      BY <1>3 DEF S_Handle
    <3>. QED  BY <3>1, <3>2 DEF IdInv, DeletedOnlyIfAnswered
  <2>. QED  BY <2>1, <2>2
<1>4. CASE S_Insert
  <2>1. \A i \in respMap' : \E n \in answered : log[n].id = i
    BY <1>4, ConstantsAssumption DEF S_Insert, IdInv, BaseInv, TypeOK, Racing
  <2>. QED  BY <1>4, <2>1 DEF S_Insert, IdInv, DeletedOnlyIfAnswered
<1>5. CASE S_Join \/ S_Greet
  <2>1. outPc' # "erase" \/ UNCHANGED outPc
    BY <1>5 DEF S_Join, S_Greet
  <2>. QED  BY <1>5, <2>1 DEF S_Join, S_Greet, IdInv, DeletedOnlyIfAnswered
<1>6. CASE PeerRespond
  <2>1. PICK p \in delivered : /\ inbox' = Append(inbox, log[p].id)
                              /\ answered' = answered \cup {p}
    BY <1>6 DEF PeerRespond
  <2>2. log[p].id \in Ids \cup {NoId}
    <3>1. log[p] \in Messages
      BY <2>1, ElementOfSeq DEF BaseInv, TypeOK
    <3>. QED  BY <3>1 DEF Messages
  <2>3. /\ Len(inbox') = Len(inbox) + 1
        /\ Len(inbox) \in Nat
        /\ \A k \in 1..Len(inbox) : inbox'[k] = inbox[k]
        /\ inbox'[Len(inbox) + 1] = log[p].id
    BY <2>1, <2>2, AppendFacts DEF BaseInv, TypeOK
  <2>4. UNCHANGED <<log, status, outPc, handle, respMap, spinId, delivered>>
    BY <1>6 DEF PeerRespond
  <2>5. \A k \in 1..Len(inbox') : inbox'[k] # NoId => \E n \in answered' : log[n].id = inbox'[k]
    BY <2>1, <2>3 DEF IdInv
  <2>. QED  BY <2>1, <2>4, <2>5 DEF IdInv, DeletedOnlyIfAnswered
<1>7. CASE PeerSendOther
  <2>1. /\ Len(inbox') = Len(inbox) + 1
        /\ Len(inbox) \in Nat
        /\ \A k \in 1..Len(inbox) : inbox'[k] = inbox[k]
        /\ inbox'[Len(inbox) + 1] = NoId
    BY <1>7, AppendFacts DEF PeerSendOther, BaseInv, TypeOK
  <2>2. UNCHANGED <<log, status, outPc, handle, respMap, spinId, delivered, answered>>
    BY <1>7 DEF PeerSendOther
  <2>. QED  BY <2>1, <2>2 DEF IdInv, DeletedOnlyIfAnswered
<1>8. ASSUME \/ \E c \in Callers : QasCheck(c)
             \/ O_Crash \/ S_Listen \/ S_KeepAlive \/ PeerClose \/ NoticeClose
      PROVE  IdInv'
  <2>1. UNCHANGED <<log, status, outPc, handle, respMap, spinId, inbox, delivered, answered>>
    BY <1>8 DEF QasCheck, O_Crash, S_Listen, S_KeepAlive, PeerClose, NoticeClose
  <2>. QED  BY <2>1 DEF IdInv, DeletedOnlyIfAnswered
<1>. QED  BY <1>1, <1>2, <1>3, <1>4, <1>5, <1>6, <1>7, <1>8 DEF SpinThread

FullInv == BaseInv /\ IdInv

\* The whole invariant holds initially.
LEMMA FullInit == Init => FullInv
BY BaseInit DEF Init, FullInv, IdInv, DeletedOnlyIfAnswered

\* Every step preserves the whole invariant when ids are not reused.
LEMMA FullStep ==
  ASSUME ReuseIds = FALSE
  PROVE  FullInv /\ [Next]_vars => FullInv'
<1>. SUFFICES ASSUME FullInv, [Next]_vars  PROVE IdInv'
  BY BaseStep DEF FullInv
<1>1. CASE Next
  BY <1>1, OutboundId, OtherId DEF Next, FullInv
<1>2. CASE UNCHANGED vars
  BY <1>2 DEF vars, outVars, spinVars, connVars, peerVars, FullInv, IdInv, DeletedOnlyIfAnswered
<1>. QED  BY <1>1, <1>2

\* With ids that are never reused, the outbound thread deletes a request as
\* answered only when a peer answered that very request.
THEOREM AnswersMatch ==
  ASSUME ReuseIds = FALSE
  PROVE  Spec => []DeletedOnlyIfAnswered
<1>1. FullInv => DeletedOnlyIfAnswered
  BY DEF FullInv, IdInv
<1>. QED  BY <1>1, FullInit, FullStep, PTL DEF Spec

\* With ids that are never reused, m_inboundResponsesMap has entries of
\* answered requests only: it grows with answers, never with requests or with
\* the look-ups of the outbound thread.
THEOREM MapGrowsWithAnswers ==
  ASSUME ReuseIds = FALSE
  PROVE  Spec => []EntriesAreAnswered
<1>1. FullInv => EntriesAreAnswered
  BY DEF FullInv, IdInv, EntriesAreAnswered
<1>. QED  BY <1>1, FullInit, FullStep, PTL DEF Spec

-----------------------------------------------------------------------------
(* Refinement of RequestService                                            *)

\* A queued message in the thread's hands, or at the head of the queue when
\* it was popped, is the oldest queued one.
LEMMA HeldIsOldest ==
  ASSUME BaseInv, status[handle.seq] = "queued",
         InHand \/ (outPc = "pop" /\ handle.state = "READY")
  PROVE  handle.seq \in 1..Len(status) /\ Service!OldestQueued(handle.seq)
<1>1. Matches(handle) /\ handle \in Handles /\ handle.state = "READY"
  <2>1. CASE InHand
    BY <2>1 DEF BaseInv, PathInv, HandInv, TypeOK, Handles, Matches
  <2>2. CASE outPc = "pop" /\ handle.state = "READY"
    <3>1. outboundQueue # << >> /\ handle = outboundQueue[1] /\ 1 \in 1..Len(outboundQueue)
      BY <2>2, TailFacts DEF BaseInv, PathInv, PcInv, PopsWhatItRead, TypeOK
    <3>. QED  BY <2>2, <3>1 DEF BaseInv, PathInv, QueueInv, TypeOK
  <2>. QED  BY <2>1, <2>2
<1>2. Len(status) = Len(log) /\ Len(log) \in Nat /\ handle.seq \in 1..Len(log)
  BY <1>1 DEF BaseInv, TypeOK, Matches
<1>3. ASSUME NEW m \in 1..(handle.seq - 1), status[m] = "queued"
      PROVE  FALSE
  <2>1. m \in 1..Len(log) /\ Open(m) /\ m < handle.seq
    BY <1>2, <1>3 DEF Open
  <2>2. PICK i \in 1..Len(outboundQueue) : outboundQueue[i].seq = m
    BY <1>2, <2>1 DEF BaseInv, PathInv, OpenInv
  <2>3. outboundQueue[i].state = "READY"
    <3>1. outboundQueue[i] \in Handles /\ Matches(outboundQueue[i])
      BY ElementOfSeq DEF BaseInv, TypeOK, PathInv, QueueInv
    <3>. QED  BY <1>3, <2>2, <3>1 DEF Handles, Matches
  <2>4. CASE InHand
    <3>1. handle.seq < m
      BY <1>1, <2>2, <2>3, <2>4 DEF BaseInv, PathInv, HandInv
    <3>. QED  BY <1>2, <2>1, <3>1
  <2>5. CASE outPc = "pop"
    <3>1. handle = outboundQueue[1] /\ 1 \in 1..Len(outboundQueue)
      BY <2>5, TailFacts DEF BaseInv, PathInv, PcInv, PopsWhatItRead, TypeOK
    <3>2. 1 < i
      <4>1. i # 1
        BY <1>2, <2>1, <2>2, <3>1
      <4>2. i \in Nat /\ i >= 1
        BY <2>2
      <4>. QED  BY <4>1, <4>2
    <3>3. handle.seq < m
      BY <1>1, <2>2, <2>3, <3>1, <3>2 DEF BaseInv, PathInv, QueueInv
    <3>. QED  BY <1>2, <2>1, <3>3
  <2>. QED  BY <2>4, <2>5
<1>. QED  BY <1>2, <1>3 DEF Service!OldestQueued

\* Every step of the outbound path is a step of the service, or a stutter.
LEMMA ServiceStep ==
  ASSUME FullInv, Next
  PROVE  [Service!ServiceNext]_status
<1>. USE DEF outVars, spinVars, connVars, peerVars
<1>1. ASSUME NEW m, PushNew(m)  PROVE Service!ServiceNext
  BY <1>1 DEF PushNew, Service!ServiceNext, Service!Accept
<1>2. CASE O_Pop
  <2>1. CASE UNCHANGED status
    BY <2>1
  <2>2. CASE ~UNCHANGED status
    <3>1. /\ status' = [status EXCEPT ![handle.seq] = "unsupported"]
          /\ log[handle.seq].kind = "other"
          /\ outPc = "pop"
      BY <1>2, <2>2 DEF O_Pop, msg
    <3>2. handle = outboundQueue[1] /\ 1 \in 1..Len(outboundQueue) /\ handle \in Handles
      BY <3>1, TailFacts DEF FullInv, BaseInv, PathInv, PcInv, PopsWhatItRead, TypeOK
    <3>3. handle.state = "READY" /\ status[handle.seq] = "queued"
      BY <3>1, <3>2 DEF FullInv, BaseInv, PathInv, QueueInv, Matches, Handles
    <3>4. handle.seq \in 1..Len(status) /\ Service!Process(handle.seq)
      BY <3>1, <3>3, HeldIsOldest DEF FullInv, Service!Process
    <3>. QED  BY <3>4 DEF Service!ServiceNext
  <2>. QED  BY <2>1, <2>2
<1>3. CASE O_Search
  <2>1. CASE UNCHANGED status
    BY <2>1
  <2>2. CASE ~UNCHANGED status
    <3>1. /\ status' = [status EXCEPT ![handle.seq] = "dropped"]
          /\ handle.state = "SENT" /\ InHand
      BY <1>3, <2>2 DEF O_Search, Find, NotSent, InHand, FullInv, BaseInv, TypeOK, Handles
    <3>2. handle.seq \in 1..Len(status) /\ status[handle.seq] = "transmitted"
      BY <3>1 DEF FullInv, BaseInv, TypeOK, PathInv, HandInv, Matches
    <3>. QED  BY <3>1, <3>2 DEF Service!ServiceNext, Service!Close
  <2>. QED  BY <2>1, <2>2
<1>4. CASE O_Erase
  <2>1. /\ status' = [status EXCEPT ![handle.seq] = "answered"]
        /\ InHand /\ outPc = "erase"
    BY <1>4 DEF O_Erase, InHand
  <2>2. status[handle.seq] # "queued"
    BY <2>1 DEF FullInv, IdInv, BaseInv, TypeOK
  <2>3. handle.seq \in 1..Len(status) /\ status[handle.seq] = "transmitted"
    BY <2>1, <2>2 DEF FullInv, BaseInv, TypeOK, PathInv, HandInv, Matches, Handles
  <2>. QED  BY <2>1, <2>3 DEF Service!ServiceNext, Service!Close
<1>5. CASE O_Send
  <2>1. /\ \E s \in {"transmitted", "greeted"} : status' = [status EXCEPT ![handle.seq] = s]
        /\ InHand /\ outPc = "send"
    BY <1>5 DEF O_Send, InHand
  <2>2. status[handle.seq] = "queued"
    BY <2>1 DEF FullInv, BaseInv, PathInv, PcInv, HandInv, Matches
  <2>3. handle.seq \in 1..Len(status) /\ Service!Process(handle.seq)
    BY <2>1, <2>2, HeldIsOldest DEF FullInv, Service!Process
  <2>. QED  BY <2>3 DEF Service!ServiceNext
<1>6. CASE O_Top \/ O_Front \/ O_Push \/ O_Crash
  BY <1>6 DEF O_Top, O_Front, O_Push, O_Crash
<1>7. CASE SpinThread
  BY <1>1, <1>7
     DEF SpinThread, S_Handle, S_Insert, S_Join, S_Listen, S_Greet, S_KeepAlive, S_KaPush
<1>8. ASSUME NEW c \in Callers, QasCheck(c) \/ QasPush(c)
      PROVE  [Service!ServiceNext]_status
  BY <1>1, <1>8 DEF QasCheck, QasPush
<1>9. CASE PeerRespond \/ PeerSendOther \/ PeerClose \/ NoticeClose
  BY <1>9 DEF PeerRespond, PeerSendOther, PeerClose, NoticeClose
<1>. QED
  BY <1>2, <1>3, <1>4, <1>5, <1>6, <1>7, <1>8, <1>9 DEF Next, OutboundThread

\* With ids that are never reused, the outbound path implements RequestService
\* for any number of callers, messages and connections: first transmission in
\* the order of acceptance, at most once, and only transmitted requests closed.
THEOREM Refinement ==
  ASSUME ReuseIds = FALSE
  PROVE  Spec => ImplementsService
<1>1. Init => Service!ServiceInit
  BY DEF Init, Service!ServiceInit
<1>2. FullInv /\ [Next]_vars => [Service!ServiceNext]_status
  BY ServiceStep DEF vars, outVars
<1>. QED
  BY <1>1, <1>2, FullInit, FullStep, PTL DEF Spec, ImplementsService, Service!ServiceSpec
=============================================================================
