------------------------ MODULE BytesTransferProofs -------------------------
(***************************************************************************)
(* Theorems about BytesTransfer, for every value of its constants.         *)
(* Reassembly is proved for hosts that draw different ids, and for         *)
(* payloads that are no multiple of the packet size, since sendBytes       *)
(* truncates the others: the runs bytes_shared_seed and bytes_truncated    *)
(* show what happens else.                                                 *)
(***************************************************************************)
EXTENDS BytesTransfer, SequenceFacts, TLAPS

-----------------------------------------------------------------------------
(* The inductive invariant                                                 *)

Ids == (Robots \cup {0}) \X Nat
Chunks == [of : Payload, start : Nat, len : Nat]
Packets == [id : Ids, number : Nat, last : BOOLEAN, chunk : Chunks]
Accumulators == [next : Nat, bytes : Seq(Chunks)]

\* The types of the variables that TypeOK leaves open.
MoreTypes ==
  /\ chan \in [Robots -> Seq(Packets)]
  /\ acc \in [DOMAIN acc -> Accumulators]
  /\ received \in Seq(Seq(Chunks))
  /\ \A r \in Robots : /\ Len(payloads[r]) <= MaxPayloads[r]
                       /\ sending[r].busy => Len(payloads[r]) # 0

BaseInv == TypeOK /\ MoreTypes

\* The id of a payload is its robot's, and no other payload's.
IdInv ==
  /\ \A p \in Begun : \E d \in 1..draws[p.robot] : IdOf(p) = <<p.robot, d>>
  /\ \A p, q \in Begun : IdOf(p) = IdOf(q) => p = q

PacketsOf(p) == NPackets(SizeOf(p))
Sending(p) == sending[p.robot].busy /\ p = Current(p.robot)

\* What is on its way is what was sent, and a payload that was given up has no
\* last packet.
InTransit(r) == {chan[r][k] : k \in 1..Len(chan[r])}

GoodPacket(r, x) ==
  LET p == x.chunk.of
  IN /\ p \in Begun /\ p.robot = r
     /\ x.id = IdOf(p) /\ x.last = IsLast(SizeOf(p), x.number)
     /\ x.chunk = Packet(p, x.number).chunk
     /\ x.number < PacketsOf(p)
     /\ Sending(p) => x.number < sending[r].next
     /\ p \in givenUp => ~x.last

PacketInv == \A r \in Robots : \A x \in InTransit(r) : GoodPacket(r, x)

\* Packets travel in the order in which they were sent, and only those of a
\* damaged payload more than once.
Before(x, y) ==
  \/ x.chunk.of.n < y.chunk.of.n
  \/ /\ x.chunk.of.n = y.chunk.of.n
     /\ x.number <= y.number
     /\ x.chunk.of \in damaged \/ x.number < y.number

OrderInv ==
  \A r \in Robots : \A i, j \in 1..Len(chan[r]) : i < j => Before(chan[r][i], chan[r][j])

\* An accumulator holds the first chunks of the payload with its id, as they
\* were sent, and lacks at least the last one.
Assembled(chunks, p) == \A k \in 1..Len(chunks) : chunks[k] = Packet(p, k - 1).chunk

AccInv ==
  \A i \in DOMAIN acc : \E p \in Begun :
    /\ IdOf(p) = i /\ acc[i].next < PacketsOf(p)
    /\ \A k \in 1..Len(acc[i].bytes) : acc[i].bytes[k] = Packet(p, k - 1).chunk

\* The callback was given all chunks of payloads whose last packet was sent,
\* and none of a robot's later payloads while one of its packets travels.
Calls == {received[k] : k \in 1..Len(received)}

GoodCall(chunks) ==
  LET p == chunks[1].of
  IN /\ p \in Begun /\ p \notin givenUp
     /\ Len(chunks) = PacketsOf(p) /\ Len(chunks) # 0
     /\ Assembled(chunks, p)
     /\ Sending(p) => sending[p.robot].next = PacketsOf(p)
     /\ \A x \in InTransit(p.robot) : p.n <= x.chunk.of.n

ReceivedInv == \A chunks \in Calls : GoodCall(chunks)

SendingInv ==
  \A r \in Robots : sending[r].busy =>
    Current(r) \notin givenUp /\ sending[r].next <= PacketsOf(Current(r))

TransferInv == IdInv /\ PacketInv /\ OrderInv /\ AccInv /\ ReceivedInv /\ SendingInv

\* How many packets of a payload were sent, and how many taken in.
SentUpTo(p) == IF Sending(p) THEN sending[p.robot].next ELSE PacketsOf(p)
Got(p) ==
  IF IdOf(p) \in DOMAIN acc THEN acc[IdOf(p)].next
  ELSE IF Receipts(p) = {} THEN 0 ELSE PacketsOf(p)

\* Of a payload that is not damaged, exactly the packets that were sent and not
\* taken in are on their way.
Own(p) == {x \in InTransit(p.robot) : x.chunk.of = p}

Flow(p) ==
  /\ IdOf(p) \in DOMAIN acc => Receipts(p) = {}
  /\ Got(p) <= SentUpTo(p)
  /\ {x.number : x \in Own(p)} = Got(p)..(SentUpTo(p) - 1)

FlowInv == \A p \in Begun \ damaged : Flow(p)

-----------------------------------------------------------------------------
(* Payloads and packets                                                    *)

\* What it is to be a payload, and one that was begun.
LEMMA PayloadFacts ==
  /\ \A p \in Payload : /\ p = [robot |-> p.robot, n |-> p.n]
                        /\ p.robot \in Robots
                        /\ p.n \in 1..MaxPayloads[p.robot]
  /\ \A r \in Robots : \A n \in 1..MaxPayloads[r] : [robot |-> r, n |-> n] \in Payload
  /\ \A p, q \in Payload : p.robot = q.robot /\ p.n = q.n => p = q
BY DEF Payload

\* The assumption on the constants, in the form the arithmetic needs.
LEMMA ConstantFacts ==
  /\ \A r \in Robots : r \in Nat \ {0}
  /\ \A size \in Sizes : size \in Nat /\ size < 65536
  /\ PayloadMaxSize \in 1..255
  /\ \A r \in Robots : MaxPayloads[r] \in Nat
  /\ MaxFaults \in Nat
BY TransferAssumption

\* The number of packets of a payload is a number.
LEMMA NPacketsType == \A size \in Sizes : NPackets(size) \in Nat
BY ConstantFacts DEF NPackets

\* The fields of a packet have their types.
LEMMA PacketFields ==
  ASSUME NEW size \in Sizes, NEW k \in Nat
  PROVE  /\ IsLast(size, k) \in BOOLEAN
         /\ PacketSize(size, k) \in Nat
         /\ PacketStart(k) \in Nat
<1>1. /\ size \in Nat /\ PayloadMaxSize \in Nat \ {0}
  BY ConstantFacts
<1>2. \A a \in Int, b \in Nat \ {0} : a % b \in Nat
  OBVIOUS
<1>3. k * PayloadMaxSize \in Nat /\ (size - k * PayloadMaxSize) \in Int
  BY <1>1
<1>4. (size - k * PayloadMaxSize) % PayloadMaxSize \in Nat
  BY <1>1, <1>2, <1>3
<1>5. ((size - k * PayloadMaxSize) % PayloadMaxSize) % 256 \in Nat
  BY <1>2, <1>4
<1>6. PacketStart(k) \in Nat
  BY <1>2, <1>3 DEF PacketStart
<1>7. IsLast(size, k) \in BOOLEAN
  BY DEF IsLast
<1> QED BY <1>1, <1>5, <1>6, <1>7 DEF PacketSize

\* What the invariant says of a payload that was begun.
LEMMA BegunFacts ==
  ASSUME TypeOK, NEW p \in Begun
  PROVE  /\ p \in Payload
         /\ p.robot \in Robots
         /\ p.n \in 1..Len(payloads[p.robot])
         /\ payloads[p.robot][p.n] \in [size : Sizes, id : Ids]
         /\ SizeOf(p) \in Sizes /\ IdOf(p) \in Ids
         /\ PacketsOf(p) \in Nat
<1>1. p \in Payload /\ p.n <= Len(payloads[p.robot])
  BY DEF Begun
<1>2. p.robot \in Robots /\ p.n \in 1..MaxPayloads[p.robot]
  BY <1>1, PayloadFacts
<1>3. payloads[p.robot] \in Seq([size : Sizes, id : Ids])
  BY <1>2 DEF TypeOK, Ids
<1>4. MaxPayloads[p.robot] \in Nat /\ Len(payloads[p.robot]) \in Nat
  BY <1>2, <1>3, ConstantFacts
<1>5. p.n \in 1..Len(payloads[p.robot])
  BY <1>1, <1>2, <1>4
<1>6. payloads[p.robot][p.n] \in [size : Sizes, id : Ids]
  BY <1>3, <1>5, ElementFacts
<1>7. SizeOf(p) \in Sizes /\ IdOf(p) \in Ids
  BY <1>6 DEF SizeOf, IdOf
<1> QED BY <1>1, <1>2, <1>5, <1>6, <1>7, NPacketsType DEF PacketsOf

\* A packet of a begun payload is a packet.
LEMMA PacketType ==
  ASSUME TypeOK, NEW p \in Begun, NEW k \in Nat
  PROVE  /\ Packet(p, k) \in Packets
         /\ Packet(p, k).id = IdOf(p) /\ Packet(p, k).number = k
         /\ Packet(p, k).last = IsLast(SizeOf(p), k)
         /\ Packet(p, k).chunk.of = p
<1>1. p \in Payload /\ SizeOf(p) \in Sizes /\ IdOf(p) \in Ids
  BY BegunFacts
<1>2. /\ IsLast(SizeOf(p), k) \in BOOLEAN
      /\ PacketSize(SizeOf(p), k) \in Nat
      /\ PacketStart(k) \in Nat
  BY <1>1, PacketFields
<1> QED BY <1>1, <1>2 DEF Packet, Packets, Chunks

\* The payload that is being sent.
LEMMA CurrentFacts ==
  ASSUME BaseInv, NEW r \in Robots, sending[r].busy
  PROVE  /\ Current(r) \in Begun
         /\ Current(r).robot = r /\ Current(r).n = Len(payloads[r])
         /\ sending[r].next \in Nat
<1>1. /\ payloads[r] \in Seq([size : Sizes, id : Ids])
      /\ Len(payloads[r]) <= MaxPayloads[r] /\ Len(payloads[r]) # 0
      /\ sending[r] \in [busy : BOOLEAN, next : Nat]
  BY DEF BaseInv, TypeOK, MoreTypes, Ids
<1>2. Len(payloads[r]) \in 1..MaxPayloads[r]
  BY <1>1, ConstantFacts
<1>3. Current(r) \in Payload
  BY <1>2, PayloadFacts DEF Current
<1>4. Len(payloads[r]) <= Len(payloads[r])
  BY <1>1
<1> QED BY <1>1, <1>3, <1>4 DEF Current, Begun

\* The packet at the head of a channel.
LEMMA HeadFacts ==
  ASSUME BaseInv, NEW r \in Robots, chan[r] # << >>
  PROVE  /\ chan[r] \in Seq(Packets)
         /\ Head(chan[r]) = chan[r][1]
         /\ Head(chan[r]) \in Packets
         /\ 1 \in 1..Len(chan[r])
         /\ Head(chan[r]).chunk \in Chunks
         /\ Head(chan[r]).chunk.of \in Begun
<1>1. chan[r] \in Seq(Packets)
  BY DEF BaseInv, MoreTypes
<1>2. Head(chan[r]) = chan[r][1] /\ Head(chan[r]) \in Packets /\ Len(chan[r]) \in Nat \ {0}
  BY <1>1, TailFacts
<1>3. 1 \in 1..Len(chan[r])
  BY <1>2
<1>4. Head(chan[r]).chunk.of \in Begun
  BY <1>2, <1>3 DEF BaseInv, TypeOK
<1> QED BY <1>1, <1>2, <1>3, <1>4 DEF Packets

\* The accumulator of an id, new or old.
LEMMA AccumulatorType ==
  ASSUME BaseInv, NEW id
  PROVE  /\ AccumulatorOf(id) \in Accumulators
         /\ AccumulatorOf(id).next = Len(AccumulatorOf(id).bytes)
<1>1. NewAccumulator \in Accumulators /\ NewAccumulator.next = Len(NewAccumulator.bytes)
  BY DEF NewAccumulator, Accumulators
<1>2. CASE id \in DOMAIN acc
  BY <1>2 DEF AccumulatorOf, BaseInv, TypeOK, MoreTypes
<1>3. CASE id \notin DOMAIN acc
  BY <1>1, <1>3 DEF AccumulatorOf
<1> QED BY <1>2, <1>3

-----------------------------------------------------------------------------
(* Type correctness                                                        *)

\* sendBytes adds a payload and leaves the earlier ones as they are.
LEMMA BeginFacts ==
  ASSUME BaseInv, NEW r \in Robots, Begin(r)
  PROVE  /\ payloads' \in [Robots -> Seq([size : Sizes, id : Ids])]
         /\ Len(payloads'[r]) = Len(payloads[r]) + 1
         /\ Len(payloads'[r]) \in 1..MaxPayloads[r]
         /\ \A s \in Robots \ {r} : payloads'[s] = payloads[s]
         /\ \A n \in 1..Len(payloads[r]) : payloads'[r][n] = payloads[r][n]
         /\ payloads'[r][Len(payloads[r]) + 1].id = RandomId(r, draws[r] + 1)
<1>1. PICK size \in Sizes :
        payloads' = [payloads EXCEPT ![r] =
                       Append(@, [size |-> size, id |-> RandomId(r, draws[r] + 1)])]
  BY DEF Begin
<1>2. payloads \in [Robots -> Seq([size : Sizes, id : Ids])] /\ draws[r] \in Nat
  BY DEF BaseInv, TypeOK, Ids
<1>3. RandomId(r, draws[r] + 1) \in Ids
  BY <1>2 DEF RandomId, Ids
<1> DEFINE e == [size |-> size, id |-> RandomId(r, draws[r] + 1)]
<1>4. e \in [size : Sizes, id : Ids] /\ e.id = RandomId(r, draws[r] + 1)
  BY <1>3
<1> HIDE DEF e
<1>5. payloads[r] \in Seq([size : Sizes, id : Ids])
  BY <1>2
<1>6. /\ Append(payloads[r], e) \in Seq([size : Sizes, id : Ids])
      /\ Len(Append(payloads[r], e)) = Len(payloads[r]) + 1
      /\ Len(payloads[r]) \in Nat
      /\ \A i \in 1..Len(payloads[r]) : Append(payloads[r], e)[i] = payloads[r][i]
      /\ Append(payloads[r], e)[Len(payloads[r]) + 1] = e
  BY <1>4, <1>5, AppendFacts
<1>7. payloads' = [payloads EXCEPT ![r] = Append(payloads[r], e)]
  BY <1>1 DEF e
<1>8. payloads'[r] = Append(payloads[r], e) /\ \A s \in Robots \ {r} : payloads'[s] = payloads[s]
  BY <1>2, <1>7
<1>9. payloads' \in [Robots -> Seq([size : Sizes, id : Ids])]
  BY <1>2, <1>6, <1>7
<1>10. Len(payloads[r]) + 1 \in 1..MaxPayloads[r]
  BY <1>6, ConstantFacts DEF Begin
<1> QED BY <1>4, <1>6, <1>8, <1>9, <1>10

\* A payload that was begun stays as it is.
LEMMA PayloadsStay ==
  ASSUME BaseInv, [Next]_vars
  PROVE  \A p \in Begun :
           /\ p \in Begun' /\ payloads'[p.robot][p.n] = payloads[p.robot][p.n]
           /\ SizeOf(p)' = SizeOf(p) /\ IdOf(p)' = IdOf(p)
<1> SUFFICES ASSUME NEW p \in Begun
             PROVE  /\ p \in Begun' /\ payloads'[p.robot][p.n] = payloads[p.robot][p.n]
                    /\ SizeOf(p)' = SizeOf(p) /\ IdOf(p)' = IdOf(p)
  OBVIOUS
<1>1. p \in Payload /\ p.robot \in Robots /\ p.n \in 1..Len(payloads[p.robot])
  BY BegunFacts DEF BaseInv
<1>2. Len(payloads[p.robot]) \in Nat
  BY <1>1 DEF BaseInv, TypeOK
<1>3. p.n <= Len(payloads'[p.robot]) /\ payloads'[p.robot][p.n] = payloads[p.robot][p.n]
  <2>1. ASSUME NEW r \in Robots, Begin(r)
        PROVE  p.n <= Len(payloads'[p.robot]) /\ payloads'[p.robot][p.n] = payloads[p.robot][p.n]
    <3>1. CASE p.robot = r
      BY <1>1, <1>2, <2>1, <3>1, BeginFacts
    <3>2. CASE p.robot # r
      BY <1>1, <1>2, <2>1, <3>2, BeginFacts
    <3> QED BY <3>1, <3>2
  <2>2. CASE UNCHANGED payloads
    BY <1>1, <1>2, <2>2
  <2>3. (\E r \in Robots : Begin(r)) \/ UNCHANGED payloads
    BY DEF Next, SenderStep, SendPacket, SendFails, Finish, Lose, Duplicate, Receive,
           OnBytesReceived, vars
  <2> QED BY <2>1, <2>2, <2>3
<1>4. p \in Begun'
  BY <1>1, <1>3 DEF Begun
<1> QED BY <1>3, <1>4 DEF SizeOf, IdOf

\* sendBytes is called.
LEMMA BaseBegin ==
  ASSUME BaseInv, NEW r \in Robots, Begin(r)
  PROVE  BaseInv'
<1>1. \A p \in Begun : p \in Begun'
  <2>1. Next
    BY DEF Next, SenderStep
  <2> QED BY <2>1, PayloadsStay
<1>2. payloads' \in [Robots -> Seq([size : Sizes, id : Ids])]
  BY BeginFacts
<1>3. \A s \in Robots : Len(payloads'[s]) <= MaxPayloads[s]
  <2>1. Len(payloads'[r]) <= MaxPayloads[r]
    BY BeginFacts, ConstantFacts
  <2>2. \A s \in Robots \ {r} : Len(payloads'[s]) <= MaxPayloads[s]
    BY BeginFacts DEF BaseInv, MoreTypes
  <2> QED BY <2>1, <2>2
<1>4. \A s \in Robots : sending'[s].busy => Len(payloads'[s]) # 0
  <2>1. Len(payloads'[r]) # 0
    BY BeginFacts, ConstantFacts
  <2>2. \A s \in Robots \ {r} : sending'[s] = sending[s] /\ payloads'[s] = payloads[s]
    BY BeginFacts DEF Begin, BaseInv, TypeOK
  <2> QED BY <2>1, <2>2 DEF BaseInv, MoreTypes
<1>5. sending' \in [Robots -> [busy : BOOLEAN, next : Nat]] /\ draws' \in [Robots -> Nat]
  BY DEF Begin, BaseInv, TypeOK
<1>6. UNCHANGED <<chan, callback, acc, received, givenUp, damaged, faults>>
  BY DEF Begin
<1>7. MoreTypes'
  BY <1>3, <1>4, <1>6 DEF BaseInv, MoreTypes
<1>8. \A s \in Robots : \A k \in 1..Len(chan'[s]) : chan'[s][k].chunk.of \in Begun'
  BY <1>1, <1>6 DEF BaseInv, TypeOK
<1>9. damaged' \subseteq Begun'
  BY <1>1, <1>6 DEF BaseInv, TypeOK
<1>10. TypeOK'
  BY <1>2, <1>5, <1>6, <1>8, <1>9 DEF BaseInv, TypeOK, Ids
<1> QED BY <1>7, <1>10 DEF BaseInv

\* A step that leaves the payloads leaves what was begun.
LEMMA SameBegun ==
  ASSUME UNCHANGED payloads
  PROVE  /\ Begun' = Begun
         /\ \A p : SizeOf(p)' = SizeOf(p) /\ IdOf(p)' = IdOf(p)
BY DEF Begun, SizeOf, IdOf

\* sendBytes sends a packet.
LEMMA BaseSendPacket ==
  ASSUME BaseInv, NEW r \in Robots, SendPacket(r)
  PROVE  BaseInv'
<1> DEFINE p == Current(r)
           x == Packet(p, sending[r].next)
<1>1. p \in Begun /\ sending[r].next \in Nat /\ sending[r].busy
  BY CurrentFacts DEF SendPacket
<1>2. x \in Packets /\ x.chunk.of \in Begun
  BY <1>1, PacketType DEF BaseInv
<1>3. chan' = [chan EXCEPT ![r] = Append(@, x)]
  BY DEF SendPacket
<1> HIDE DEF p, x
<1>4. chan \in [Robots -> Seq(Packets)]
  BY DEF BaseInv, MoreTypes
<1>5. chan' \in [Robots -> Seq(Packets)]
  BY <1>2, <1>3, <1>4
<1>6. \A s \in Robots : \A k \in 1..Len(chan'[s]) : chan'[s][k].chunk.of \in Begun
  <2>1. \A s \in Robots \ {r} : chan'[s] = chan[s]
    BY <1>3, <1>4
  <2>2. chan'[r] = Append(chan[r], x) /\ chan[r] \in Seq(Packets)
    BY <1>3, <1>4
  <2>3. ASSUME NEW k \in 1..Len(chan'[r])
        PROVE  chan'[r][k].chunk.of \in Begun
    <3>1. CASE k = Len(chan[r]) + 1
      BY <1>2, <2>2, <3>1, AppendFacts
    <3>2. CASE k # Len(chan[r]) + 1
      <4>1. k \in 1..Len(chan[r]) /\ chan'[r][k] = chan[r][k]
        BY <1>2, <2>2, <3>2, AppendFacts
      <4> QED BY <4>1 DEF BaseInv, TypeOK
    <3> QED BY <3>1, <3>2
  <2> QED BY <2>1, <2>3 DEF BaseInv, TypeOK
<1>7. /\ sending' \in [Robots -> [busy : BOOLEAN, next : Nat]]
      /\ draws' \in [Robots -> Nat]
      /\ \A s \in Robots : sending'[s].busy => sending[s].busy
  <2>1. sending \in [Robots -> [busy : BOOLEAN, next : Nat]] /\ draws \in [Robots -> Nat]
    BY DEF BaseInv, TypeOK
  <2>2. /\ sending' = [sending EXCEPT ![r].next = @ + 1]
        /\ draws' = [draws EXCEPT ![r] = @ + 1]
    BY DEF SendPacket
  <2>3. sending' \in [Robots -> [busy : BOOLEAN, next : Nat]]
    BY <2>1, <2>2
  <2>4. \A s \in Robots : sending'[s].busy = sending[s].busy
    BY <2>1, <2>2
  <2>5. draws' \in [Robots -> Nat]
    BY <2>1, <2>2
  <2> QED BY <2>3, <2>4, <2>5
<1>8. UNCHANGED <<payloads, callback, acc, received, givenUp, damaged, faults>>
  BY DEF SendPacket
<1>9. Begun' = Begun
  BY <1>8, SameBegun
<1>10. MoreTypes'
  BY <1>5, <1>7, <1>8 DEF BaseInv, MoreTypes
<1>11. TypeOK'
  BY <1>6, <1>7, <1>8, <1>9 DEF BaseInv, TypeOK
<1> QED BY <1>10, <1>11 DEF BaseInv

\* sendBytes returns, in one way or the other.
LEMMA BaseReturn ==
  ASSUME BaseInv, NEW r \in Robots, SendFails(r) \/ Finish(r)
  PROVE  BaseInv'
<1>1. Current(r) \in Begun
  BY CurrentFacts DEF SendFails, Finish
<1>2. /\ sending' \in [Robots -> [busy : BOOLEAN, next : Nat]]
      /\ draws' \in [Robots -> Nat]
      /\ \A s \in Robots : sending'[s].busy => sending[s].busy
  <2>1. sending \in [Robots -> [busy : BOOLEAN, next : Nat]] /\ draws \in [Robots -> Nat]
    BY DEF BaseInv, TypeOK
  <2>2. /\ sending' = [sending EXCEPT ![r] = [busy |-> FALSE, next |-> 0]]
        /\ draws' = [draws EXCEPT ![r] = @ + 1] \/ draws' = draws
    BY DEF SendFails, Finish, Idle
  <2>3. sending' \in [Robots -> [busy : BOOLEAN, next : Nat]]
    BY <2>1, <2>2
  <2>4. \A s \in Robots : sending'[s].busy => sending[s].busy
    BY <2>1, <2>2
  <2>5. draws' \in [Robots -> Nat]
    BY <2>1, <2>2
  <2> QED BY <2>3, <2>4, <2>5
<1>3. UNCHANGED <<payloads, chan, callback, acc, received>>
  BY DEF SendFails, Finish
<1>4. Begun' = Begun
  BY <1>3, SameBegun
<1>5. givenUp' \subseteq damaged' /\ damaged' \subseteq Begun
  BY <1>1 DEF SendFails, Finish, BaseInv, TypeOK
<1>6. faults' \in 0..MaxFaults
  BY ConstantFacts DEF SendFails, Finish, BaseInv, TypeOK
<1>7. MoreTypes'
  BY <1>2, <1>3 DEF BaseInv, MoreTypes
<1>8. TypeOK'
  BY <1>2, <1>3, <1>4, <1>5, <1>6 DEF BaseInv, TypeOK
<1> QED BY <1>7, <1>8 DEF BaseInv

\* The swarm loses or repeats a packet, or hands it over: what is on its way
\* afterwards was on its way before.
LEMMA ChannelMoves ==
  ASSUME BaseInv, NEW r \in Robots, chan[r] # << >>,
         \/ chan' = [chan EXCEPT ![r] = Tail(@)]
         \/ chan' = [chan EXCEPT ![r] = <<Head(@)>> \o @]
  PROVE  /\ chan' \in [Robots -> Seq(Packets)]
         /\ \A s \in Robots : \A k \in 1..Len(chan'[s]) : chan'[s][k].chunk.of \in Begun
<1>1. chan \in [Robots -> Seq(Packets)]
  BY DEF BaseInv, MoreTypes
<1>2. \A s \in Robots \ {r} : chan'[s] = chan[s]
  BY <1>1
<1>3. chan[r] \in Seq(Packets)
  BY <1>1
<1>4. \A k \in 1..Len(chan[r]) : chan[r][k].chunk.of \in Begun
  BY DEF BaseInv, TypeOK
<1>5. CASE chan' = [chan EXCEPT ![r] = Tail(@)]
  <2>1. chan'[r] = Tail(chan[r])
    BY <1>1, <1>5
  <2>2. chan' \in [Robots -> Seq(Packets)]
    BY <1>1, <1>3, <1>5, TailFacts
  <2>3. ASSUME NEW k \in 1..Len(chan'[r])
        PROVE  chan'[r][k].chunk.of \in Begun
    <3>1. k \in 1..(Len(chan[r]) - 1) /\ chan'[r][k] = chan[r][k + 1] /\ Len(chan[r]) \in Nat
      BY <1>3, <2>1, TailFacts
    <3>2. k + 1 \in 1..Len(chan[r])
      BY <3>1
    <3> QED BY <1>4, <3>1, <3>2
  <2> QED BY <1>2, <2>2, <2>3 DEF BaseInv, TypeOK
<1>6. CASE chan' = [chan EXCEPT ![r] = <<Head(@)>> \o @]
  <2>1. chan'[r] = <<Head(chan[r])>> \o chan[r]
    BY <1>1, <1>6
  <2>2. chan' \in [Robots -> Seq(Packets)]
    BY <1>1, <1>3, <1>6, RepeatHeadFacts
  <2>3. ASSUME NEW k \in 1..Len(chan'[r])
        PROVE  chan'[r][k].chunk.of \in Begun
    <3>1. Len(chan[r]) \in Nat \ {0} /\ k \in 1..(Len(chan[r]) + 1)
      BY <1>3, <2>1, RepeatHeadFacts
    <3>2. CASE k = 1
      <4>1. chan'[r][k] = chan[r][1] /\ 1 \in 1..Len(chan[r])
        BY <1>3, <2>1, <3>1, <3>2, RepeatHeadFacts
      <4> QED BY <1>4, <4>1
    <3>3. CASE k # 1
      <4>1. k \in 2..(Len(chan[r]) + 1) /\ k - 1 \in 1..Len(chan[r])
        BY <3>1, <3>3
      <4>2. chan'[r][k] = chan[r][k - 1]
        BY <1>3, <2>1, <4>1, RepeatHeadFacts
      <4> QED BY <1>4, <4>1, <4>2
    <3> QED BY <3>2, <3>3
  <2> QED BY <1>2, <2>2, <2>3 DEF BaseInv, TypeOK
<1> QED BY <1>5, <1>6

\* The swarm loses or repeats a packet.
LEMMA BaseSwarm ==
  ASSUME BaseInv, NEW r \in Robots, Lose(r) \/ Duplicate(r)
  PROVE  BaseInv'
<1>1. /\ chan[r] # << >>
      /\ \/ chan' = [chan EXCEPT ![r] = Tail(@)]
         \/ chan' = [chan EXCEPT ![r] = <<Head(@)>> \o @]
      /\ damaged' = damaged \cup {Head(chan[r]).chunk.of}
      /\ faults < MaxFaults /\ faults' = faults + 1
      /\ UNCHANGED <<payloads, sending, draws, callback, acc, received, givenUp>>
  BY DEF Lose, Duplicate
<1>2. Head(chan[r]).chunk.of \in Begun
  BY <1>1, HeadFacts
<1>3. /\ chan' \in [Robots -> Seq(Packets)]
      /\ \A s \in Robots : \A k \in 1..Len(chan'[s]) : chan'[s][k].chunk.of \in Begun
  BY <1>1, ChannelMoves
<1>4. Begun' = Begun
  BY <1>1, SameBegun
<1>5. faults' \in 0..MaxFaults
  BY <1>1, ConstantFacts DEF BaseInv, TypeOK
<1>6. givenUp' \subseteq damaged' /\ damaged' \subseteq Begun
  BY <1>1, <1>2 DEF BaseInv, TypeOK
<1>7. MoreTypes'
  BY <1>1, <1>3 DEF BaseInv, MoreTypes
<1>8. TypeOK'
  BY <1>1, <1>3, <1>4, <1>5, <1>6 DEF BaseInv, TypeOK
<1> QED BY <1>7, <1>8 DEF BaseInv

\* What appendBytes makes of an accumulator.
LEMMA AppendBytesFacts ==
  ASSUME NEW a \in Accumulators, a.next = Len(a.bytes), NEW x \in Packets
  PROVE  /\ AppendBytes(a, x) \in Accumulators
         /\ AppendBytes(a, x).next = a.next + 1
         /\ AppendBytes(a, x).bytes = Append(a.bytes, x.chunk)
         /\ AppendBytes(a, x).next = Len(AppendBytes(a, x).bytes)
<1>1. a.next \in Nat /\ a.bytes \in Seq(Chunks) /\ x.chunk \in Chunks
  BY DEF Accumulators, Packets
<1>2. Append(a.bytes, x.chunk) \in Seq(Chunks) /\ Len(Append(a.bytes, x.chunk)) = a.next + 1
  BY <1>1, AppendFacts
<1> QED BY <1>1, <1>2 DEF AppendBytes, Accumulators

\* The accumulators once one of them is stored or erased.
LEMMA StoreType ==
  ASSUME BaseInv, NEW id,
         \/ \E a \in Accumulators : a.next = Len(a.bytes) /\ Store(id, a)
         \/ Erase(id)
  PROVE  /\ acc' \in [DOMAIN acc' -> Accumulators]
         /\ \A i \in DOMAIN acc' : acc'[i].next = Len(acc'[i].bytes)
<1>1. acc \in [DOMAIN acc -> Accumulators] /\ \A i \in DOMAIN acc : acc[i].next = Len(acc[i].bytes)
  BY DEF BaseInv, TypeOK, MoreTypes
<1>2. ASSUME NEW a \in Accumulators, a.next = Len(a.bytes), Store(id, a)
      PROVE  /\ acc' \in [DOMAIN acc' -> Accumulators]
             /\ \A i \in DOMAIN acc' : acc'[i].next = Len(acc'[i].bytes)
  BY <1>1, <1>2 DEF Store
<1>3. CASE Erase(id)
  BY <1>1, <1>3 DEF Erase
<1> QED BY <1>2, <1>3

\* The ways in which handleBytes ends: no callback is set; the packet is not
\* the next one; it is, and not the last; it completes its payload.
Ignored(x) ==
  ~callback /\ damaged' = damaged \cup {x.chunk.of} /\ UNCHANGED <<acc, received>>
Refused(x) ==
  /\ x.number # AccumulatorOf(x.id).next
  /\ Store(x.id, AccumulatorOf(x.id))
  /\ UNCHANGED <<received, damaged>>
Taken(x) ==
  /\ x.number = AccumulatorOf(x.id).next /\ x.last = FALSE
  /\ Store(x.id, AppendBytes(AccumulatorOf(x.id), x))
  /\ UNCHANGED <<received, damaged>>
Completed(x) ==
  /\ x.number = AccumulatorOf(x.id).next /\ x.last = TRUE
  /\ received' = Append(received, Append(AccumulatorOf(x.id).bytes, x.chunk))
  /\ Erase(x.id)
  /\ UNCHANGED damaged

\* handleBytes ends in one of these four ways.
LEMMA ReceiveCases ==
  ASSUME NEW r, Receive(r), Head(chan[r]) \in Packets
  PROVE  LET x == Head(chan[r])
         IN  Ignored(x) \/ Refused(x) \/ Taken(x) \/ Completed(x)
<1> DEFINE x == Head(chan[r])
<1>1. HandleBytes(x) /\ x.last \in BOOLEAN
  BY DEF Receive, Packets
<1> HIDE DEF x
<1>2. Ignored(x) \/ Refused(x) \/ Taken(x) \/ Completed(x)
  BY <1>1 DEF HandleBytes, Accepts, AppendBytes, Ignored, Refused, Taken, Completed
<1> QED BY <1>2 DEF x

\* A packet is received.
LEMMA BaseReceive ==
  ASSUME BaseInv, NEW r \in Robots, Receive(r)
  PROVE  BaseInv'
<1>1. /\ chan[r] # << >> /\ chan' = [chan EXCEPT ![r] = Tail(@)]
      /\ UNCHANGED <<payloads, sending, draws, callback, givenUp, faults>>
  BY DEF Receive
<1>2. PICK x : x = Head(chan[r])
  OBVIOUS
<1>3. x \in Packets /\ x.chunk \in Chunks /\ x.chunk.of \in Begun
  BY <1>1, <1>2, HeadFacts
<1>4. /\ chan' \in [Robots -> Seq(Packets)]
      /\ \A s \in Robots : \A k \in 1..Len(chan'[s]) : chan'[s][k].chunk.of \in Begun
  BY <1>1, ChannelMoves
<1>5. Begun' = Begun
  BY <1>1, SameBegun
<1>6. Ignored(x) \/ Refused(x) \/ Taken(x) \/ Completed(x)
  BY <1>2, <1>3, ReceiveCases
<1>7. PICK a : a = AccumulatorOf(x.id)
  OBVIOUS
<1>8. a \in Accumulators /\ a.next = Len(a.bytes)
  BY <1>7, AccumulatorType
<1>9. /\ acc' \in [DOMAIN acc' -> Accumulators]
      /\ \A i \in DOMAIN acc' : acc'[i].next = Len(acc'[i].bytes)
  <2>1. CASE Ignored(x)
    BY <2>1 DEF Ignored, BaseInv, TypeOK, MoreTypes
  <2>2. CASE Refused(x)
    BY <1>7, <1>8, <2>2, StoreType DEF Refused
  <2>3. CASE Taken(x)
    <3>1. AppendBytes(a, x) \in Accumulators
          /\ AppendBytes(a, x).next = Len(AppendBytes(a, x).bytes)
      BY <1>3, <1>8, AppendBytesFacts
    <3> QED BY <1>7, <2>3, <3>1, StoreType DEF Taken
  <2>4. CASE Completed(x)
    BY <2>4, StoreType DEF Completed
  <2> QED BY <1>6, <2>1, <2>2, <2>3, <2>4
<1>10. received' \in Seq(Seq(Chunks))
  <2>1. received \in Seq(Seq(Chunks))
    BY DEF BaseInv, MoreTypes
  <2>2. CASE UNCHANGED received
    BY <2>1, <2>2
  <2>3. CASE Completed(x)
    <3>1. a.bytes \in Seq(Chunks)
      BY <1>8 DEF Accumulators
    <3>2. Append(a.bytes, x.chunk) \in Seq(Chunks)
      BY <1>3, <3>1, AppendFacts
    <3>3. received' = Append(received, Append(a.bytes, x.chunk))
      BY <1>7, <2>3 DEF Completed
    <3> QED BY <2>1, <3>2, <3>3, AppendFacts
  <2> QED BY <1>6, <2>2, <2>3 DEF Ignored, Refused, Taken
<1>11. givenUp' \subseteq damaged' /\ damaged' \subseteq Begun
  <2>1. damaged' = damaged \/ damaged' = damaged \cup {x.chunk.of}
    BY <1>6 DEF Ignored, Refused, Taken, Completed
  <2> QED BY <1>1, <1>3, <2>1 DEF BaseInv, TypeOK
<1>12. MoreTypes'
  BY <1>1, <1>4, <1>9, <1>10 DEF BaseInv, MoreTypes
<1>13. TypeOK'
  BY <1>1, <1>4, <1>5, <1>9, <1>11 DEF BaseInv, TypeOK
<1> QED BY <1>12, <1>13 DEF BaseInv

\* The types hold at first.
LEMMA BaseInit == Init => BaseInv
<1> SUFFICES ASSUME Init PROVE BaseInv
  OBVIOUS
<1>1. callback \in BOOLEAN
  BY TransferAssumption DEF Init
<1>2. /\ payloads \in [Robots -> Seq([size : Sizes, id : (Robots \cup {0}) \X Nat])]
      /\ \A r \in Robots : Len(payloads[r]) = 0
  BY DEF Init
<1>3. sending \in [Robots -> [busy : BOOLEAN, next : Nat]] /\ \A r \in Robots : ~sending[r].busy
  BY DEF Init, Idle
<1>4. /\ chan \in [Robots -> Seq(Packets)]
      /\ \A r \in Robots : \A k \in 1..Len(chan[r]) : chan[r][k].chunk.of \in Begun
  BY DEF Init
<1>5. DOMAIN acc = {} /\ acc \in [DOMAIN acc -> Accumulators]
  BY DEF Init
<1>6. received \in Seq(Seq(Chunks))
  BY DEF Init
<1>7. faults \in 0..MaxFaults /\ draws \in [Robots -> Nat]
  BY ConstantFacts DEF Init
<1>8. TypeOK
  BY <1>1, <1>2, <1>3, <1>4, <1>5, <1>7 DEF Init, TypeOK
<1>9. MoreTypes
  BY <1>2, <1>3, <1>4, <1>5, <1>6, ConstantFacts DEF MoreTypes
<1> QED BY <1>8, <1>9 DEF BaseInv

\* Every step of Next keeps the types.
LEMMA BaseStep == BaseInv /\ [Next]_vars => BaseInv'
<1> SUFFICES ASSUME BaseInv, [Next]_vars PROVE BaseInv'
  OBVIOUS
<1>1. CASE UNCHANGED <<payloads, sending, draws, chan, acc, received, givenUp, damaged, faults>>
           /\ callback' \in BOOLEAN
  <2>1. Begun' = Begun
    BY <1>1, SameBegun
  <2> QED BY <1>1, <2>1 DEF BaseInv, TypeOK, MoreTypes
<1>2. CASE OnBytesReceived
  BY <1>1, <1>2 DEF OnBytesReceived
<1>3. CASE UNCHANGED vars
  <2>1. callback \in BOOLEAN
    BY DEF BaseInv, TypeOK
  <2> QED BY <1>1, <1>3, <2>1 DEF vars
<1>4. ASSUME NEW r \in Robots, SenderStep(r) \/ Lose(r) \/ Duplicate(r) \/ Receive(r)
      PROVE  BaseInv'
  BY <1>4, BaseBegin, BaseSendPacket, BaseReturn, BaseSwarm, BaseReceive DEF SenderStep
<1> QED BY <1>2, <1>3, <1>4 DEF Next

\* Every reachable state of the payload transfer has the types of TypeOK, and
\* an accumulator always expects the packet that follows the chunks it holds
\* (appendBytes), for any robots, sizes, losses and id collisions.
THEOREM TransferTypeCorrect == Spec => []TypeOK
<1>1. BaseInv => TypeOK
  BY DEF BaseInv
<1> QED BY <1>1, BaseInit, BaseStep, PTL DEF Spec

-----------------------------------------------------------------------------
(* What a step does to the payloads that were begun                        *)

\* The packets of a begun payload stay as they are.
LEMMA PacketsStay ==
  ASSUME BaseInv, [Next]_vars, NEW p \in Begun
  PROVE  /\ p \in Begun'
         /\ SizeOf(p)' = SizeOf(p) /\ IdOf(p)' = IdOf(p)
         /\ PacketsOf(p)' = PacketsOf(p)
         /\ \A k : Packet(p, k)' = Packet(p, k)
<1>1. p \in Begun' /\ SizeOf(p)' = SizeOf(p) /\ IdOf(p)' = IdOf(p)
  BY PayloadsStay
<1>2. PacketsOf(p)' = PacketsOf(p)
  BY <1>1 DEF PacketsOf
<1>3. \A k : Packet(p, k)' = Packet(p, k)
  BY <1>1 DEF Packet
<1> QED BY <1>1, <1>2, <1>3

\* sendBytes begins one payload, the last of its robot.
LEMMA NewPayload ==
  ASSUME BaseInv, NEW r \in Robots, Begin(r)
  PROVE  /\ Current(r)' \in Begun' /\ Current(r)' \notin Begun
         /\ \A p \in Begun' : p \in Begun \/ p = Current(r)'
         /\ Current(r)' = [robot |-> r, n |-> Len(payloads[r]) + 1]
         /\ \A q : q = Current(r)' => IdOf(q)' = RandomId(r, draws[r] + 1)
<1>1. PICK q : q = [robot |-> r, n |-> Len(payloads[r]) + 1]
  OBVIOUS
<1>2. q.robot = r /\ q.n = Len(payloads[r]) + 1
  BY <1>1
<1>3. /\ Len(payloads'[r]) = Len(payloads[r]) + 1
      /\ Len(payloads'[r]) \in 1..MaxPayloads[r]
      /\ \A s \in Robots \ {r} : payloads'[s] = payloads[s]
      /\ payloads'[r][Len(payloads[r]) + 1].id = RandomId(r, draws[r] + 1)
  BY BeginFacts
<1>4. Current(r)' = q
  BY <1>1, <1>3 DEF Current
<1>5. Len(payloads[r]) \in Nat
  BY DEF BaseInv, TypeOK
<1>6. q \in Payload
  BY <1>1, <1>3, PayloadFacts
<1>7. q \in Begun' /\ q \notin Begun
  BY <1>2, <1>3, <1>5, <1>6 DEF Begun
<1>8. ASSUME NEW p \in Begun', p \notin Begun
      PROVE  p = q
  <2>1. p \in Payload /\ p.n <= Len(payloads'[p.robot]) /\ ~(p.n <= Len(payloads[p.robot]))
    BY <1>8 DEF Begun
  <2>2. p.robot \in Robots /\ p.n \in Nat
    BY <2>1, PayloadFacts, ConstantFacts
  <2>3. p.robot = r
    BY <1>3, <2>1, <2>2
  <2>4. p.n = Len(payloads[r]) + 1
    BY <1>3, <1>5, <2>1, <2>2, <2>3
  <2> QED BY <1>2, <1>6, <2>1, <2>3, <2>4, PayloadFacts
<1>9. IdOf(q)' = RandomId(r, draws[r] + 1)
  BY <1>2, <1>3 DEF IdOf
<1> QED BY <1>1, <1>4, <1>7, <1>8, <1>9

\* Of a begun payload, sendBytes is only ever going on, and further.
LEMMA SendingGoesOn ==
  ASSUME BaseInv, [Next]_vars, NEW p \in Begun, Sending(p)'
  PROVE  /\ Sending(p)
         /\ \/ sending'[p.robot].next = sending[p.robot].next
            \/ SendPacket(p.robot) /\ sending'[p.robot].next = sending[p.robot].next + 1
<1>1. p.robot \in Robots /\ p.n \in 1..Len(payloads[p.robot]) /\ Len(payloads[p.robot]) \in Nat
  <2>1. p.robot \in Robots /\ p.n \in 1..Len(payloads[p.robot])
    BY BegunFacts DEF BaseInv
  <2> QED BY <2>1 DEF BaseInv, TypeOK
<1>2. PICK r : r = p.robot
  OBVIOUS
<1>3. /\ sending'[r].busy /\ p = [robot |-> r, n |-> Len(payloads'[r])]
      /\ p.n = Len(payloads'[r])
  BY <1>2 DEF Sending, Current
<1>4. sending \in [Robots -> [busy : BOOLEAN, next : Nat]] /\ r \in Robots
  BY <1>1, <1>2 DEF BaseInv, TypeOK
<1>5. CASE UNCHANGED <<payloads, sending>>
  <2>1. sending[r].busy /\ p = [robot |-> r, n |-> Len(payloads[r])]
    BY <1>3, <1>5
  <2>2. Sending(p)
    BY <1>2, <2>1 DEF Sending, Current
  <2>3. sending'[p.robot].next = sending[p.robot].next
    BY <1>5
  <2> QED BY <2>2, <2>3
<1>6. ASSUME NEW s \in Robots, Begin(s)
      PROVE  Sending(p) /\ sending'[r].next = sending[r].next
  <2>1. s # r
    BY <1>1, <1>2, <1>3, <1>6, BeginFacts
  <2>2. payloads'[r] = payloads[r] /\ sending'[r] = sending[r]
    BY <1>4, <1>6, <2>1, BeginFacts DEF Begin
  <2> QED BY <1>2, <1>3, <2>2 DEF Sending, Current
<1>7. ASSUME NEW s \in Robots, SendPacket(s)
      PROVE  /\ Sending(p)
             /\ \/ sending'[r].next = sending[r].next
                \/ SendPacket(r) /\ sending'[r].next = sending[r].next + 1
  <2>1. UNCHANGED payloads /\ sending' = [sending EXCEPT ![s].next = @ + 1]
    BY <1>7 DEF SendPacket
  <2>2. sending'[r].busy = sending[r].busy
    BY <1>4, <2>1
  <2>3. Sending(p)
    BY <1>2, <1>3, <2>1, <2>2 DEF Sending, Current
  <2>4. CASE s = r
    BY <1>4, <1>7, <2>1, <2>3, <2>4
  <2>5. CASE s # r
    <3>1. sending'[r] = sending[r]
      BY <1>4, <2>1, <2>5
    <3> QED BY <2>3, <3>1
  <2> QED BY <2>4, <2>5
<1>8. ASSUME NEW s \in Robots, SendFails(s) \/ Finish(s)
      PROVE  Sending(p) /\ sending'[r].next = sending[r].next
  <2>1. UNCHANGED payloads /\ sending' = [sending EXCEPT ![s] = [busy |-> FALSE, next |-> 0]]
    BY <1>8 DEF SendFails, Finish, Idle
  <2>2. s # r
    BY <1>3, <1>4, <2>1
  <2>3. sending'[r] = sending[r]
    BY <1>4, <2>1, <2>2
  <2> QED BY <1>2, <1>3, <2>1, <2>3 DEF Sending, Current
<1>9. \/ UNCHANGED <<payloads, sending>>
      \/ \E s \in Robots : Begin(s) \/ SendPacket(s) \/ SendFails(s) \/ Finish(s)
  BY DEF Next, SenderStep, Lose, Duplicate, Receive, OnBytesReceived, vars
<1> QED BY <1>2, <1>5, <1>6, <1>7, <1>8, <1>9

\* A payload is given up while packets of it are still to be sent.
LEMMA GivenUpWhen ==
  ASSUME [Next]_vars, NEW p \in givenUp'
  PROVE  \/ p \in givenUp
         \/ p.robot \in Robots /\ Sending(p) /\ sending[p.robot].next < PacketsOf(p)
<1>1. CASE givenUp' = givenUp
  BY <1>1
<1>2. ASSUME NEW r \in Robots, SendFails(r), p \notin givenUp
      PROVE  p.robot \in Robots /\ Sending(p) /\ sending[p.robot].next < PacketsOf(p)
  <2>1. p = Current(r) /\ sending[r].busy /\ sending[r].next < NPackets(SizeOf(Current(r)))
    BY <1>2 DEF SendFails
  <2>2. p.robot = r
    BY <2>1 DEF Current
  <2> QED BY <2>1, <2>2 DEF Sending, PacketsOf
<1>3. givenUp' = givenUp \/ \E r \in Robots : SendFails(r)
  BY DEF Next, SenderStep, Begin, SendPacket, Finish, Lose, Duplicate, Receive,
         OnBytesReceived, vars
<1> QED BY <1>1, <1>2, <1>3

\* A packet on its way was on its way before, or was just sent.
LEMMA TransitStep ==
  ASSUME BaseInv, [Next]_vars, NEW r \in Robots, NEW x \in InTransit(r)'
  PROVE  \/ x \in InTransit(r)
         \/ SendPacket(r) /\ x = Packet(Current(r), sending[r].next)
<1>1. PICK k \in 1..Len(chan'[r]) : x = chan'[r][k]
  BY DEF InTransit
<1>2. chan \in [Robots -> Seq(Packets)] /\ chan[r] \in Seq(Packets)
  BY DEF BaseInv, MoreTypes
<1>3. CASE chan'[r] = chan[r]
  BY <1>1, <1>3 DEF InTransit
<1>4. CASE SendPacket(r)
  <2>1. PICK y : y = Packet(Current(r), sending[r].next)
    OBVIOUS
  <2>2. chan'[r] = Append(chan[r], y)
    BY <1>2, <1>4, <2>1 DEF SendPacket
  <2>3. y \in Packets
    BY <1>4, <2>1, CurrentFacts, PacketType DEF SendPacket, BaseInv
  <2>4. CASE k = Len(chan[r]) + 1
    BY <1>1, <1>2, <1>4, <2>1, <2>2, <2>3, <2>4, AppendFacts
  <2>5. CASE k # Len(chan[r]) + 1
    <3>1. k \in 1..Len(chan[r]) /\ x = chan[r][k]
      BY <1>1, <1>2, <2>2, <2>3, <2>5, AppendFacts
    <3> QED BY <3>1 DEF InTransit
  <2> QED BY <2>4, <2>5
<1>5. CASE chan[r] # << >> /\ chan'[r] = Tail(chan[r])
  <2>1. k + 1 \in 1..Len(chan[r]) /\ x = chan[r][k + 1]
    BY <1>1, <1>2, <1>5, TailFacts
  <2> QED BY <2>1 DEF InTransit
<1>6. CASE chan[r] # << >> /\ chan'[r] = <<Head(chan[r])>> \o chan[r]
  <2>1. Len(chan[r]) \in Nat \ {0} /\ k \in 1..(Len(chan[r]) + 1)
    BY <1>1, <1>2, <1>6, RepeatHeadFacts
  <2>2. CASE k = 1
    <3>1. x = chan[r][1] /\ 1 \in 1..Len(chan[r])
      BY <1>1, <1>2, <1>6, <2>1, <2>2, RepeatHeadFacts
    <3> QED BY <3>1 DEF InTransit
  <2>3. CASE k # 1
    <3>1. k \in 2..(Len(chan[r]) + 1) /\ k - 1 \in 1..Len(chan[r])
      BY <2>1, <2>3
    <3>2. x = chan[r][k - 1]
      BY <1>1, <1>2, <1>6, <3>1, RepeatHeadFacts
    <3> QED BY <3>1, <3>2 DEF InTransit
  <2> QED BY <2>2, <2>3
<1>7. ASSUME NEW s \in Robots, SendPacket(s), s # r
      PROVE  chan'[r] = chan[r]
  BY <1>2, <1>7 DEF SendPacket
<1>8. ASSUME NEW s \in Robots, Lose(s) \/ Receive(s)
      PROVE  chan'[r] = chan[r] \/ (chan[r] # << >> /\ chan'[r] = Tail(chan[r]))
  <2>1. chan[s] # << >> /\ chan' = [chan EXCEPT ![s] = Tail(@)]
    BY <1>8 DEF Lose, Receive
  <2>2. CASE s = r
    BY <1>2, <2>1, <2>2
  <2>3. CASE s # r
    BY <1>2, <2>1, <2>3
  <2> QED BY <2>2, <2>3
<1>9. ASSUME NEW s \in Robots, Duplicate(s)
      PROVE  chan'[r] = chan[r] \/ (chan[r] # << >> /\ chan'[r] = <<Head(chan[r])>> \o chan[r])
  <2>1. chan[s] # << >> /\ chan' = [chan EXCEPT ![s] = <<Head(@)>> \o @]
    BY <1>9 DEF Duplicate
  <2>2. CASE s = r
    BY <1>2, <2>1, <2>2
  <2>3. CASE s # r
    BY <1>2, <2>1, <2>3
  <2> QED BY <2>2, <2>3
<1>10. \/ chan' = chan
       \/ \E s \in Robots : SendPacket(s) \/ Lose(s) \/ Receive(s) \/ Duplicate(s)
  BY DEF Next, SenderStep, Begin, SendFails, Finish, OnBytesReceived, vars
<1> QED BY <1>3, <1>4, <1>5, <1>6, <1>7, <1>8, <1>9, <1>10

\* What is damaged stays damaged.
LEMMA DamageStays ==
  ASSUME [Next]_vars
  PROVE  damaged \subseteq damaged'
<1>1. ASSUME NEW r \in Robots, Receive(r)
      PROVE  damaged \subseteq damaged'
  BY <1>1 DEF Receive, HandleBytes
<1>2. ASSUME NEW r \in Robots, SenderStep(r) \/ Lose(r) \/ Duplicate(r)
      PROVE  damaged \subseteq damaged'
  BY <1>2 DEF SenderStep, Begin, SendPacket, SendFails, Finish, Lose, Duplicate
<1>3. CASE OnBytesReceived \/ UNCHANGED vars
  BY <1>3 DEF OnBytesReceived, vars
<1> QED BY <1>1, <1>2, <1>3 DEF Next

-----------------------------------------------------------------------------
(* Reassembly, when every host draws ids of its own                        *)

\* A robot's new id is one that nobody drew before.
LEMMA IdStep ==
  ASSUME SharedSeed = FALSE, BaseInv, IdInv, [Next]_vars
  PROVE  IdInv'
<1>1. \A r \in Robots : draws[r] \in Nat /\ draws'[r] \in Nat /\ draws[r] <= draws'[r]
  <2>1. draws \in [Robots -> Nat]
    BY DEF BaseInv, TypeOK
  <2>2. draws' = draws \/ \E r \in Robots : draws' = [draws EXCEPT ![r] = @ + 1]
    BY DEF Next, SenderStep, Begin, SendPacket, SendFails, Finish, Lose, Duplicate, Receive,
           OnBytesReceived, vars
  <2> QED BY <2>1, <2>2
<1>2. ASSUME NEW p \in Begun
      PROVE  \E d \in 1..draws'[p.robot] : IdOf(p)' = <<p.robot, d>>
  <2>1. PICK d \in 1..draws[p.robot] : IdOf(p) = <<p.robot, d>>
    BY <1>2 DEF IdInv
  <2>2. p.robot \in Robots
    BY BegunFacts DEF BaseInv
  <2>3. d \in 1..draws'[p.robot]
    BY <1>1, <2>1, <2>2
  <2> QED BY <2>1, <2>3, PayloadsStay
<1>3. ASSUME NEW p \in Begun, NEW q \in Begun, IdOf(p)' = IdOf(q)'
      PROVE  p = q
  BY <1>3, PayloadsStay DEF IdInv
<1>4. CASE UNCHANGED payloads
  <2>1. Begun' = Begun
    BY <1>4, SameBegun
  <2> QED BY <1>2, <1>3, <2>1 DEF IdInv
<1>5. ASSUME NEW r \in Robots, Begin(r)
      PROVE  IdInv'
  <2>1. PICK q : q = Current(r)'
    OBVIOUS
  <2>2. q \in Begun' /\ q.robot = r /\ \A p \in Begun' : p \in Begun \/ p = q
    BY <1>5, <2>1, NewPayload
  <2>3. IdOf(q)' = <<r, draws[r] + 1>>
    BY <1>5, <2>1, NewPayload DEF RandomId
  <2>4. draws'[r] = draws[r] + 1
    BY <1>5 DEF Begin, BaseInv, TypeOK
  <2>5. draws[r] + 1 \in 1..draws'[r]
    BY <1>1, <2>4
  <2>6. ASSUME NEW p \in Begun
        PROVE  IdOf(p)' # IdOf(q)'
    <3>1. PICK d \in 1..draws[p.robot] : IdOf(p) = <<p.robot, d>>
      BY <2>6 DEF IdInv
    <3>2. IdOf(p)' = <<p.robot, d>>
      BY <3>1, PayloadsStay
    <3>3. p.robot = r => d < draws[r] + 1
      BY <1>1, <3>1
    <3>4. d # draws[r] + 1 \/ p.robot # r
      BY <1>1, <3>1, <3>3
    <3> QED BY <2>3, <3>2, <3>4
  <2>7. \A p \in Begun' : \E d \in 1..draws'[p.robot] : IdOf(p)' = <<p.robot, d>>
    BY <1>2, <2>2, <2>3, <2>5
  <2>8. \A p1, p2 \in Begun' : IdOf(p1)' = IdOf(p2)' => p1 = p2
    BY <1>3, <2>2, <2>6
  <2> QED BY <2>7, <2>8 DEF IdInv
<1>6. UNCHANGED payloads \/ \E r \in Robots : Begin(r)
  BY DEF Next, SenderStep, SendPacket, SendFails, Finish, Lose, Duplicate, Receive,
         OnBytesReceived, vars
<1> QED BY <1>4, <1>5, <1>6

\* The fields of a packet on its way.
LEMMA TransitType ==
  ASSUME BaseInv, NEW r \in Robots, NEW x \in InTransit(r)
  PROVE  x \in Packets /\ x.number \in Nat /\ x.chunk.of \in Begun /\ x.chunk.of.n \in Nat
<1>1. PICK k \in 1..Len(chan[r]) : x = chan[r][k]
  BY DEF InTransit
<1>2. chan[r] \in Seq(Packets)
  BY DEF BaseInv, MoreTypes
<1>3. x \in Packets
  BY <1>1, <1>2, ElementFacts
<1>4. x.chunk.of \in Begun
  BY <1>1 DEF BaseInv, TypeOK
<1>5. x.chunk.of.n \in Nat
  BY <1>4, BegunFacts DEF BaseInv
<1> QED BY <1>3, <1>4, <1>5 DEF Packets

\* sendBytes sends no more packets than there are, and none of a payload that
\* it gave up.
LEMMA SendingStep ==
  ASSUME BaseInv, SendingInv, [Next]_vars
  PROVE  SendingInv'
<1> SUFFICES ASSUME NEW r \in Robots, sending'[r].busy,
                    NEW p, p = Current(r)'
             PROVE  p \notin givenUp' /\ sending'[r].next <= PacketsOf(p)'
  BY DEF SendingInv, PacketsOf, SizeOf, Current
<1>1. BaseInv'
  BY BaseStep
<1>2. p \in Begun' /\ p.robot = r /\ p.n = Len(payloads'[r])
  <2>1. p = [robot |-> r, n |-> Len(payloads'[r])]
    BY DEF Current
  <2>2. Len(payloads'[r]) \in 1..MaxPayloads[r]
    BY <1>1, ConstantFacts DEF BaseInv, TypeOK, MoreTypes
  <2>3. p \in Payload
    BY <2>1, <2>2, PayloadFacts
  <2>4. p.n <= Len(payloads'[p.robot])
    BY <2>1, <2>2, ConstantFacts
  <2> QED BY <2>1, <2>3, <2>4 DEF Begun
<1>3. CASE p \in Begun
  <2>1. Sending(p)'
    BY <1>2 DEF Sending, Current
  <2>2. /\ Sending(p)
        /\ \/ sending'[r].next = sending[r].next
           \/ SendPacket(r) /\ sending'[r].next = sending[r].next + 1
    BY <1>2, <1>3, <2>1, SendingGoesOn
  <2>3. p = Current(r) /\ sending[r].busy
    BY <1>2, <2>2 DEF Sending
  <2>4. p \notin givenUp /\ sending[r].next <= PacketsOf(p)
    BY <2>3 DEF SendingInv
  <2>5. PacketsOf(p)' = PacketsOf(p) /\ PacketsOf(p) \in Nat /\ sending[r].next \in Nat
    BY <1>3, <2>3, PacketsStay, BegunFacts, CurrentFacts DEF BaseInv
  <2>6. SendPacket(r) => sending[r].next < PacketsOf(p)
    BY <2>3 DEF SendPacket, PacketsOf
  <2>7. sending'[r].next <= PacketsOf(p)'
    BY <2>2, <2>4, <2>5, <2>6
  <2>8. p \notin givenUp'
    <3>1. SUFFICES ASSUME p \in givenUp' PROVE FALSE
      OBVIOUS
    <3>2. PICK s \in Robots : SendFails(s)
      BY <2>4, <3>1 DEF Next, SenderStep, Begin, SendPacket, Finish, Lose, Duplicate, Receive,
                        OnBytesReceived, vars
    <3>3. p = Current(s)
      BY <2>4, <3>1, <3>2 DEF SendFails
    <3>4. s = r
      BY <1>2, <3>3 DEF Current
    <3>5. sending'[r].busy = FALSE
      BY <3>2, <3>4 DEF SendFails, Idle, BaseInv, TypeOK
    <3> QED BY <3>5
  <2> QED BY <2>7, <2>8
<1>4. CASE p \notin Begun
  <2>1. PICK s \in Robots : Begin(s)
    <3>1. ~UNCHANGED payloads
      BY <1>2, <1>4, SameBegun
    <3> QED BY <3>1 DEF Next, SenderStep, SendPacket, SendFails, Finish, Lose, Duplicate, Receive,
                        OnBytesReceived, vars
  <2>2. p = Current(s)'
    BY <1>2, <1>4, <2>1, NewPayload
  <2>3. s = r
    BY <1>2, <2>2 DEF Current
  <2>4. p \notin givenUp'
    BY <1>4, <2>1 DEF Begin, BaseInv, TypeOK
  <2>5. sending'[r].next = 0
    BY <2>1, <2>3 DEF Begin, BaseInv, TypeOK
  <2>6. PacketsOf(p)' \in Nat
    <3>1. payloads'[r] \in Seq([size : Sizes, id : Ids])
      BY <1>1 DEF BaseInv, TypeOK, Ids
    <3>2. p.n \in 1..Len(payloads'[r])
      BY <1>1, <1>2, <3>1 DEF BaseInv, MoreTypes
    <3>3. payloads'[p.robot][p.n] \in [size : Sizes, id : Ids]
      BY <1>2, <3>1, <3>2, ElementFacts
    <3>4. payloads'[p.robot][p.n].size \in Sizes
      BY <3>3
    <3> QED BY <3>4, NPacketsType DEF PacketsOf, SizeOf
  <2> QED BY <2>4, <2>5, <2>6
<1> QED BY <1>3, <1>4

\* What is on its way stays what was sent.
LEMMA PacketStep ==
  ASSUME BaseInv, PacketInv, SendingInv, [Next]_vars
  PROVE  PacketInv'
<1> SUFFICES ASSUME NEW r \in Robots, NEW x \in InTransit(r)'
             PROVE  GoodPacket(r, x)'
  BY DEF PacketInv
<1>1. CASE x \in InTransit(r)
  <2>1. PICK p : p = x.chunk.of
    OBVIOUS
  <2>2. GoodPacket(r, x) /\ x.number \in Nat
    BY <1>1, TransitType DEF PacketInv
  <2>3. /\ p \in Begun /\ p.robot = r
        /\ x.id = IdOf(p) /\ x.last = IsLast(SizeOf(p), x.number)
        /\ x.chunk = Packet(p, x.number).chunk
        /\ x.number < PacketsOf(p)
        /\ Sending(p) => x.number < sending[r].next
        /\ p \in givenUp => ~x.last
    BY <2>1, <2>2 DEF GoodPacket
  <2>4. /\ p \in Begun'
        /\ SizeOf(p)' = SizeOf(p) /\ IdOf(p)' = IdOf(p)
        /\ PacketsOf(p)' = PacketsOf(p)
        /\ Packet(p, x.number)' = Packet(p, x.number)
    BY <2>3, PacketsStay
  <2>5. PacketsOf(p) \in Nat /\ sending[r].next \in Nat
    <3>1. PacketsOf(p) \in Nat
      BY <2>3, BegunFacts DEF BaseInv
    <3> QED BY <3>1 DEF BaseInv, TypeOK
  <2>6. Sending(p)' => x.number < sending'[r].next
    <3> SUFFICES ASSUME Sending(p)' PROVE x.number < sending'[r].next
      OBVIOUS
    <3>1. Sending(p) /\ \/ sending'[r].next = sending[r].next
                        \/ sending'[r].next = sending[r].next + 1
      BY <2>3, SendingGoesOn
    <3> QED BY <2>2, <2>3, <2>5, <3>1
  <2>7. p \in givenUp' => ~x.last
    <3> SUFFICES ASSUME p \in givenUp', p \notin givenUp PROVE ~x.last
      BY <2>3
    <3>1. Sending(p) /\ sending[r].next < PacketsOf(p)
      BY <2>3, GivenUpWhen
    <3>2. x.number # PacketsOf(p) - 1
      BY <2>2, <2>3, <2>5, <3>1
    <3> QED BY <2>3, <3>2 DEF IsLast, PacketsOf
  <2>8. /\ p \in Begun' /\ p.robot = r
        /\ x.id = IdOf(p)' /\ x.last = IsLast(SizeOf(p)', x.number)
        /\ x.chunk = Packet(p, x.number)'.chunk
        /\ x.number < PacketsOf(p)'
        /\ Sending(p)' => x.number < sending'[r].next
        /\ p \in givenUp' => ~x.last
    BY <2>3, <2>4, <2>6, <2>7
  <2> QED BY <2>1, <2>8 DEF GoodPacket, IsLast
<1>2. CASE SendPacket(r) /\ x = Packet(Current(r), sending[r].next)
  <2>1. PICK p : p = Current(r)
    OBVIOUS
  <2>2. PICK k : k = sending[r].next
    OBVIOUS
  <2>3. /\ sending[r].busy /\ k < PacketsOf(p)
        /\ sending' = [sending EXCEPT ![r].next = @ + 1]
        /\ UNCHANGED <<payloads, givenUp>>
    BY <1>2, <2>1, <2>2 DEF SendPacket, PacketsOf
  <2>4. p \in Begun /\ p.robot = r /\ k \in Nat
    BY <2>1, <2>2, <2>3, CurrentFacts
  <2>5. x = Packet(p, k)
    BY <1>2, <2>1, <2>2
  <2>6. /\ x.id = IdOf(p) /\ x.number = k
        /\ x.last = IsLast(SizeOf(p), k) /\ x.chunk.of = p
    BY <2>4, <2>5, PacketType DEF BaseInv
  <2>7. /\ p \in Begun'
        /\ SizeOf(p)' = SizeOf(p) /\ IdOf(p)' = IdOf(p)
        /\ PacketsOf(p)' = PacketsOf(p)
        /\ Packet(p, k)' = Packet(p, k)
    BY <2>4, PacketsStay
  <2>8. k < sending'[r].next
    BY <2>2, <2>3, <2>4 DEF BaseInv, TypeOK
  <2>9. p \notin givenUp'
    BY <2>1, <2>3 DEF SendingInv
  <2>10. /\ x.id = IdOf(p)' /\ x.last = IsLast(SizeOf(p)', x.number)
         /\ x.chunk = Packet(p, x.number)'.chunk
         /\ x.number < PacketsOf(p)'
         /\ x.number < sending'[r].next
    BY <2>3, <2>5, <2>6, <2>7, <2>8
  <2> QED BY <2>4, <2>6, <2>7, <2>9, <2>10 DEF GoodPacket, IsLast
<1> QED BY <1>1, <1>2, TransitStep

\* Sending, losing, repeating and receiving keep the order of the packets.
LEMMA OrderStep ==
  ASSUME BaseInv, PacketInv, OrderInv, [Next]_vars
  PROVE  OrderInv'
<1> SUFFICES ASSUME NEW r \in Robots, NEW i \in 1..Len(chan'[r]), NEW j \in 1..Len(chan'[r]), i < j,
                    NEW x, x = chan'[r][i], NEW y, y = chan'[r][j]
             PROVE  Before(x, y)'
  BY DEF OrderInv, Before
<1>1. damaged \subseteq damaged'
  BY DamageStays
<1>2. Before(x, y) => Before(x, y)'
  BY <1>1 DEF Before
<1>3. chan \in [Robots -> Seq(Packets)] /\ chan[r] \in Seq(Packets) /\ Len(chan[r]) \in Nat
  BY DEF BaseInv, MoreTypes
<1>4. \A a, b \in 1..Len(chan[r]) : a < b => Before(chan[r][a], chan[r][b])
  BY DEF OrderInv
<1>5. CASE chan'[r] = chan[r]
  BY <1>2, <1>4, <1>5
<1>6. CASE SendPacket(r)
  <2>1. PICK p : p = Current(r)
    OBVIOUS
  <2>2. PICK z : z = Packet(p, sending[r].next)
    OBVIOUS
  <2>3. chan'[r] = Append(chan[r], z)
    BY <1>3, <1>6, <2>1, <2>2 DEF SendPacket
  <2>4. /\ p \in Begun /\ p.robot = r /\ p.n = Len(payloads[r]) /\ sending[r].next \in Nat
        /\ sending[r].busy
    BY <1>6, <2>1, CurrentFacts DEF SendPacket
  <2>5. z \in Packets /\ z.number = sending[r].next /\ z.chunk.of = p
    BY <2>2, <2>4, PacketType DEF BaseInv
  <2>6. i \in 1..Len(chan[r]) /\ x = chan[r][i]
    BY <1>3, <2>3, <2>5, AppendFacts
  <2>7. CASE j = Len(chan[r]) + 1
    <3>1. y = z
      BY <1>3, <2>3, <2>5, <2>7, AppendFacts
    <3>2. PICK q : q = x.chunk.of
      OBVIOUS
    <3>3. x \in InTransit(r)
      BY <2>6 DEF InTransit
    <3>4. x.number \in Nat /\ q \in Begun /\ q.robot = r /\ (Sending(q) => x.number < sending[r].next)
      BY <3>2, <3>3, TransitType DEF PacketInv, GoodPacket
    <3>5. q.n \in 1..p.n /\ q \in Payload /\ p \in Payload
      BY <2>4, <3>4, BegunFacts DEF BaseInv
    <3>6. p.n \in Nat
      BY <2>4 DEF BaseInv, TypeOK
    <3>7. CASE q.n = p.n
      <4>1. q = p
        BY <2>4, <3>4, <3>5, <3>7, PayloadFacts
      <4>2. Sending(q)
        BY <2>1, <2>4, <4>1 DEF Sending
      <4>3. x.number < z.number /\ x.number <= z.number
        BY <2>4, <2>5, <3>4, <4>2
      <4> QED BY <1>2, <2>5, <3>1, <3>2, <3>7, <4>3 DEF Before
    <3>8. CASE q.n # p.n
      <4>1. q.n < p.n
        BY <3>5, <3>6, <3>8
      <4> QED BY <1>2, <2>5, <3>1, <3>2, <4>1 DEF Before
    <3> QED BY <3>7, <3>8
  <2>8. CASE j # Len(chan[r]) + 1
    <3>1. j \in 1..Len(chan[r]) /\ y = chan[r][j]
      BY <1>3, <2>3, <2>5, <2>8, AppendFacts
    <3> QED BY <1>2, <1>4, <2>6, <3>1
  <2> QED BY <2>7, <2>8
<1>7. CASE chan[r] # << >> /\ chan'[r] = Tail(chan[r])
  <2>1. /\ i + 1 \in 1..Len(chan[r]) /\ x = chan[r][i + 1]
        /\ j + 1 \in 1..Len(chan[r]) /\ y = chan[r][j + 1]
        /\ i + 1 < j + 1
    BY <1>3, <1>7, TailFacts
  <2> QED BY <1>2, <1>4, <2>1
<1>8. CASE Duplicate(r)
  <2>1. chan[r] # << >> /\ chan'[r] = <<Head(chan[r])>> \o chan[r]
    BY <1>3, <1>8 DEF Duplicate
  <2>2. Head(chan[r]) = chan[r][1] /\ chan[r][1].chunk.of \in damaged'
    BY <1>3, <1>8, TailFacts DEF Duplicate
  <2>3. j - 1 \in 1..Len(chan[r]) /\ y = chan[r][j - 1]
    BY <1>3, <2>1, RepeatHeadFacts
  <2>4. CASE i = 1
    <3>1. x = chan[r][1] /\ 1 \in 1..Len(chan[r])
      BY <1>3, <2>1, <2>4, RepeatHeadFacts
    <3>2. CASE j = 2
      <4>1. x = y
        BY <2>3, <3>1, <3>2
      <4>2. x \in InTransit(r)
        BY <3>1 DEF InTransit
      <4>3. x.number \in Nat
        BY <4>2, TransitType
      <4>4. x.number <= x.number
        BY <4>3
      <4> QED BY <2>2, <3>1, <4>1, <4>4 DEF Before
    <3>3. CASE j # 2
      <4>1. 1 < j - 1
        BY <2>3, <2>4, <3>3
      <4> QED BY <1>2, <1>4, <2>3, <3>1, <4>1
    <3> QED BY <3>2, <3>3
  <2>5. CASE i # 1
    <3>1. i - 1 \in 1..Len(chan[r]) /\ i - 1 < j - 1 /\ i \in 2..(Len(chan[r]) + 1)
      BY <1>3, <2>3, <2>5
    <3>2. x = chan[r][i - 1]
      BY <1>3, <2>1, <3>1, RepeatHeadFacts
    <3> QED BY <1>2, <1>4, <2>3, <3>1, <3>2
  <2> QED BY <2>4, <2>5
<1>9. ASSUME NEW s \in Robots, SendPacket(s) \/ Duplicate(s), s # r
      PROVE  chan'[r] = chan[r]
  BY <1>3, <1>9 DEF SendPacket, Duplicate
<1>10. ASSUME NEW s \in Robots, Lose(s) \/ Receive(s)
      PROVE  chan'[r] = chan[r] \/ (chan[r] # << >> /\ chan'[r] = Tail(chan[r]))
  <2>1. chan[s] # << >> /\ chan' = [chan EXCEPT ![s] = Tail(@)]
    BY <1>10 DEF Lose, Receive
  <2>2. CASE s = r
    BY <1>3, <2>1, <2>2
  <2>3. CASE s # r
    BY <1>3, <2>1, <2>3
  <2> QED BY <2>2, <2>3
<1>11. \/ chan' = chan
       \/ \E s \in Robots : SendPacket(s) \/ Lose(s) \/ Receive(s) \/ Duplicate(s)
  BY DEF Next, SenderStep, Begin, SendFails, Finish, OnBytesReceived, vars
<1> QED BY <1>5, <1>6, <1>7, <1>8, <1>9, <1>10, <1>11

\* The accumulator that handleBytes finds for a packet holds the chunks before
\* those that are missing, all of the packet's own payload.
LEMMA HeadAccumulator ==
  ASSUME BaseInv, IdInv, PacketInv, AccInv, NEW r \in Robots, chan[r] # << >>,
         NEW x, x = Head(chan[r]), NEW p, p = x.chunk.of,
         NEW a, a = AccumulatorOf(x.id)
  PROVE  /\ x \in InTransit(r) /\ GoodPacket(r, x) /\ x \in Packets
         /\ p \in Begun /\ p.robot = r /\ x.id = IdOf(p) /\ x.number < PacketsOf(p)
         /\ a \in Accumulators /\ a.next = Len(a.bytes) /\ a.next < PacketsOf(p)
         /\ Assembled(a.bytes, p)
         /\ x.number = a.next => /\ Assembled(Append(a.bytes, x.chunk), p)
                                 /\ Len(Append(a.bytes, x.chunk)) = a.next + 1
                                 /\ Append(a.bytes, x.chunk)[1].of = p
<1>1. x \in Packets /\ x = chan[r][1] /\ 1 \in 1..Len(chan[r]) /\ x.chunk \in Chunks
  BY HeadFacts
<1>2. x \in InTransit(r)
  BY <1>1 DEF InTransit
<1>3. GoodPacket(r, x) /\ x.number \in Nat
  BY <1>2, TransitType DEF PacketInv
<1>4. /\ p \in Begun /\ p.robot = r /\ x.id = IdOf(p) /\ x.number < PacketsOf(p)
      /\ x.chunk = Packet(p, x.number).chunk
  BY <1>3 DEF GoodPacket
<1>5. PacketsOf(p) \in Nat
  BY <1>4, BegunFacts DEF BaseInv
<1>6. a \in Accumulators /\ a.next = Len(a.bytes)
  BY AccumulatorType
<1>7. a.next < PacketsOf(p) /\ \A k \in 1..Len(a.bytes) : a.bytes[k] = Packet(p, k - 1).chunk
  <2>1. CASE x.id \in DOMAIN acc
    <3>1. PICK q \in Begun :
            /\ IdOf(q) = x.id /\ acc[x.id].next < PacketsOf(q)
            /\ \A k \in 1..Len(acc[x.id].bytes) : acc[x.id].bytes[k] = Packet(q, k - 1).chunk
      BY <2>1 DEF AccInv
    <3>2. q = p
      BY <1>4, <3>1 DEF IdInv
    <3>3. a = acc[x.id]
      BY <2>1 DEF AccumulatorOf
    <3> QED BY <3>1, <3>2, <3>3
  <2>2. CASE x.id \notin DOMAIN acc
    <3>1. a.next = 0 /\ Len(a.bytes) = 0
      BY <2>2 DEF AccumulatorOf, NewAccumulator
    <3> QED BY <1>3, <1>4, <1>5, <3>1
  <2> QED BY <2>1, <2>2
<1>8. Assembled(a.bytes, p)
  BY <1>7 DEF Assembled
<1>9. ASSUME x.number = a.next
      PROVE  /\ Assembled(Append(a.bytes, x.chunk), p)
             /\ Len(Append(a.bytes, x.chunk)) = a.next + 1
             /\ Append(a.bytes, x.chunk)[1].of = p
  <2>1. a.bytes \in Seq(Chunks) /\ a.next \in Nat
    BY <1>6 DEF Accumulators
  <2>2. PICK b : b = Append(a.bytes, x.chunk)
    OBVIOUS
  <2>3. /\ Len(b) = a.next + 1
        /\ \A k \in 1..a.next : b[k] = a.bytes[k]
        /\ b[a.next + 1] = x.chunk
    BY <1>1, <1>6, <2>1, <2>2, AppendFacts
  <2>4. ASSUME NEW k \in 1..Len(b)
        PROVE  b[k] = Packet(p, k - 1).chunk
    <3>1. CASE k = a.next + 1
      <4>1. k - 1 = x.number
        BY <1>9, <2>1, <3>1
      <4> QED BY <1>4, <2>3, <3>1, <4>1
    <3>2. CASE k # a.next + 1
      <4>1. k \in 1..Len(a.bytes)
        BY <1>6, <2>1, <2>3, <3>2
      <4> QED BY <1>6, <1>7, <2>3, <4>1
    <3> QED BY <3>1, <3>2
  <2>5. b[1] = Packet(p, 1 - 1).chunk
    <3>1. 1 \in 1..Len(b)
      BY <2>1, <2>3
    <3> QED BY <2>4, <3>1
  <2>6. b[1].of = p
    BY <2>5 DEF Packet
  <2> QED BY <2>2, <2>3, <2>4, <2>6 DEF Assembled
<1> QED BY <1>1, <1>2, <1>3, <1>4, <1>6, <1>7, <1>8, <1>9

\* handleBytes keeps every accumulator to the chunks of one payload.
LEMMA AccStep ==
  ASSUME BaseInv, IdInv, PacketInv, AccInv, [Next]_vars
  PROVE  AccInv'
<1>1. ASSUME NEW i \in DOMAIN acc, acc'[i] = acc[i]
      PROVE  \E p \in Begun' :
               /\ IdOf(p)' = i /\ acc'[i].next < PacketsOf(p)'
               /\ \A k \in 1..Len(acc'[i].bytes) : acc'[i].bytes[k] = Packet(p, k - 1)'.chunk
  <2>1. PICK p \in Begun :
          /\ IdOf(p) = i /\ acc[i].next < PacketsOf(p)
          /\ \A k \in 1..Len(acc[i].bytes) : acc[i].bytes[k] = Packet(p, k - 1).chunk
    BY DEF AccInv
  <2>2. /\ p \in Begun' /\ IdOf(p)' = IdOf(p) /\ PacketsOf(p)' = PacketsOf(p)
        /\ \A k : Packet(p, k)' = Packet(p, k)
    BY PacketsStay
  <2> QED BY <1>1, <2>1, <2>2
<1>2. CASE UNCHANGED acc
  BY <1>1, <1>2 DEF AccInv
<1>3. ASSUME NEW r \in Robots, Receive(r), ~UNCHANGED acc
      PROVE  AccInv'
  <2>1. chan[r] # << >>
    BY <1>3 DEF Receive
  <2>2. PICK x : x = Head(chan[r])
    OBVIOUS
  <2>3. PICK p : p = x.chunk.of
    OBVIOUS
  <2>4. PICK a : a = AccumulatorOf(x.id)
    OBVIOUS
  <2>5. /\ GoodPacket(r, x) /\ x \in Packets
        /\ p \in Begun /\ x.id = IdOf(p)
        /\ a \in Accumulators /\ a.next = Len(a.bytes) /\ a.next < PacketsOf(p)
        /\ Assembled(a.bytes, p)
        /\ x.number = a.next => /\ Assembled(Append(a.bytes, x.chunk), p)
                                /\ Len(Append(a.bytes, x.chunk)) = a.next + 1
    BY <2>1, <2>2, <2>3, <2>4, HeadAccumulator
  <2>6. Refused(x) \/ Taken(x) \/ Completed(x)
    BY <1>3, <2>2, <2>5, ReceiveCases DEF Ignored
  <2>7. PICK b : b = AppendBytes(a, x)
    OBVIOUS
  <2>8. /\ p \in Begun' /\ IdOf(p)' = IdOf(p) /\ PacketsOf(p)' = PacketsOf(p)
        /\ \A k : Packet(p, k)' = Packet(p, k)
    BY <2>5, PacketsStay
  <2>9. ASSUME NEW c, Store(x.id, c), c.next < PacketsOf(p), Assembled(c.bytes, p)
        PROVE  AccInv'
    <3>1. DOMAIN acc' = DOMAIN acc \cup {x.id} /\ acc'[x.id] = c
      BY <2>9 DEF Store
    <3>2. \A i \in DOMAIN acc' : i # x.id => i \in DOMAIN acc /\ acc'[i] = acc[i]
      BY <2>9 DEF Store
    <3>3. /\ IdOf(p)' = x.id /\ acc'[x.id].next < PacketsOf(p)'
          /\ \A k \in 1..Len(acc'[x.id].bytes) : acc'[x.id].bytes[k] = Packet(p, k - 1)'.chunk
      BY <2>5, <2>8, <2>9, <3>1 DEF Assembled
    <3> QED BY <1>1, <2>8, <3>2, <3>3 DEF AccInv
  <2>10. CASE Refused(x)
    BY <2>4, <2>5, <2>9, <2>10 DEF Refused
  <2>11. CASE Taken(x)
    <3>1. x.number = a.next /\ x.last = FALSE /\ Store(x.id, b)
      BY <2>4, <2>7, <2>11 DEF Taken
    <3>2. b.next = a.next + 1 /\ b.bytes = Append(a.bytes, x.chunk)
      BY <2>5, <2>7, AppendBytesFacts
    <3>3. x.number # PacketsOf(p) - 1
      BY <2>3, <2>5, <3>1 DEF GoodPacket, IsLast, PacketsOf
    <3>4. a.next \in Nat /\ PacketsOf(p) \in Nat
      BY <2>5, BegunFacts DEF BaseInv, Accumulators
    <3>5. b.next < PacketsOf(p)
      BY <2>5, <3>1, <3>2, <3>3, <3>4
    <3> QED BY <2>5, <2>9, <3>1, <3>2, <3>5
  <2>12. CASE Completed(x)
    <3>1. \A i \in DOMAIN acc' : i \in DOMAIN acc /\ acc'[i] = acc[i]
      BY <2>12 DEF Completed, Erase
    <3> QED BY <1>1, <3>1 DEF AccInv
  <2> QED BY <2>6, <2>10, <2>11, <2>12
<1>4. UNCHANGED acc \/ \E r \in Robots : Receive(r)
  BY DEF Next, SenderStep, Begin, SendPacket, SendFails, Finish, Lose, Duplicate,
         OnBytesReceived, vars
<1> QED BY <1>2, <1>3, <1>4

\* handleBytes calls the callback with all chunks of a payload, after those of
\* the robot's payloads before it.
LEMMA ReceivedStep ==
  ASSUME BaseInv, TransferInv, SendingInv', [Next]_vars
  PROVE  ReceivedInv'
<1> SUFFICES ASSUME NEW c \in Calls'
             PROVE  GoodCall(c)'
  BY DEF ReceivedInv
<1> USE DEF TransferInv
<1>1. ASSUME NEW p \in Begun, p \notin givenUp,
             Sending(p) => sending[p.robot].next = PacketsOf(p)
      PROVE  p \notin givenUp' /\ (Sending(p)' => sending'[p.robot].next = PacketsOf(p)')
  <2>1. PacketsOf(p) \in Nat /\ p.robot \in Robots /\ PacketsOf(p)' = PacketsOf(p)
    BY BegunFacts, PacketsStay DEF BaseInv
  <2>2. p \notin givenUp'
    BY <1>1, <2>1, GivenUpWhen
  <2>3. ASSUME Sending(p)'
        PROVE  sending'[p.robot].next = PacketsOf(p)'
    <3>1. /\ Sending(p)
          /\ \/ sending'[p.robot].next = sending[p.robot].next
             \/ SendPacket(p.robot) /\ sending'[p.robot].next = sending[p.robot].next + 1
      BY <2>3, SendingGoesOn
    <3>2. p = Current(p.robot) /\ sending[p.robot].next = PacketsOf(p)
      BY <1>1, <3>1 DEF Sending
    <3>3. SendPacket(p.robot) => sending[p.robot].next < PacketsOf(p)
      BY <3>2 DEF SendPacket, PacketsOf
    <3> QED BY <2>1, <3>1, <3>2, <3>3
  <2> QED BY <2>2, <2>3
<1>2. CASE c \in Calls
  <2>1. PICK p : p = c[1].of
    OBVIOUS
  <2>2. /\ p \in Begun /\ p \notin givenUp
        /\ Len(c) = PacketsOf(p) /\ Len(c) # 0
        /\ Assembled(c, p)
        /\ Sending(p) => sending[p.robot].next = PacketsOf(p)
        /\ \A x \in InTransit(p.robot) : p.n <= x.chunk.of.n
    BY <1>2, <2>1 DEF ReceivedInv, GoodCall
  <2>3. /\ p \in Begun' /\ PacketsOf(p)' = PacketsOf(p)
        /\ \A k : Packet(p, k)' = Packet(p, k)
    BY <2>2, PacketsStay
  <2>4. p \notin givenUp' /\ (Sending(p)' => sending'[p.robot].next = PacketsOf(p)')
    BY <1>1, <2>2
  <2>5. Assembled(c, p)'
    BY <2>2, <2>3 DEF Assembled
  <2>6. p.robot \in Robots /\ p.n \in 1..Len(payloads[p.robot])
    BY <2>2, BegunFacts DEF BaseInv
  <2>7. ASSUME NEW x \in InTransit(p.robot)'
        PROVE  p.n <= x.chunk.of.n
    <3>1. CASE x \in InTransit(p.robot)
      BY <2>2, <3>1
    <3>2. CASE SendPacket(p.robot) /\ x = Packet(Current(p.robot), sending[p.robot].next)
      <4>1. x.chunk.of.n = Len(payloads[p.robot])
        BY <3>2 DEF Packet, Current
      <4>2. Len(payloads[p.robot]) \in Nat
        BY <2>6 DEF BaseInv, TypeOK
      <4> QED BY <2>6, <4>1, <4>2
    <3> QED BY <2>6, <2>7, <3>1, <3>2, TransitStep
  <2> QED BY <2>1, <2>2, <2>3, <2>4, <2>5, <2>7 DEF GoodCall
<1>3. CASE c \notin Calls
  <2>1. PICK j \in 1..Len(received') : c = received'[j]
    BY DEF Calls
  <2>2. ~UNCHANGED received
    BY <1>3, <2>1 DEF Calls
  <2>3. PICK r \in Robots : Receive(r)
    BY <2>2 DEF Next, SenderStep, Begin, SendPacket, SendFails, Finish, Lose, Duplicate,
                OnBytesReceived, vars
  <2>4. PICK x : x = Head(chan[r])
    OBVIOUS
  <2>5. PICK p : p = x.chunk.of
    OBVIOUS
  <2>6. PICK a : a = AccumulatorOf(x.id)
    OBVIOUS
  <2>7. chan[r] # << >> /\ chan' = [chan EXCEPT ![r] = Tail(@)] /\ UNCHANGED givenUp
    BY <2>3 DEF Receive
  <2>8. /\ x \in InTransit(r) /\ GoodPacket(r, x) /\ x \in Packets
        /\ p \in Begun /\ p.robot = r
        /\ a \in Accumulators /\ a.next = Len(a.bytes)
        /\ x.number = a.next => /\ Assembled(Append(a.bytes, x.chunk), p)
                                /\ Len(Append(a.bytes, x.chunk)) = a.next + 1
                                /\ Append(a.bytes, x.chunk)[1].of = p
    BY <2>4, <2>5, <2>6, <2>7, HeadAccumulator
  <2>9. Completed(x)
    BY <2>2, <2>3, <2>4, <2>8, ReceiveCases DEF Ignored, Refused, Taken
  <2>10. /\ x.number = a.next /\ x.last = TRUE
         /\ received' = Append(received, Append(a.bytes, x.chunk))
    BY <2>6, <2>9 DEF Completed
  <2>11. c = Append(a.bytes, x.chunk)
    <3>1. received \in Seq(Seq(Chunks)) /\ x.chunk \in Chunks /\ a.bytes \in Seq(Chunks)
      BY <2>8 DEF BaseInv, MoreTypes, Packets, Accumulators
    <3>2. Append(a.bytes, x.chunk) \in Seq(Chunks)
      BY <3>1, AppendFacts
    <3>3. j \in 1..Len(received) => received'[j] = received[j]
      BY <2>10, <3>1, <3>2, AppendFacts
    <3>4. j \notin 1..Len(received)
      BY <1>3, <2>1, <3>3 DEF Calls
    <3>5. j = Len(received) + 1
      BY <2>10, <3>1, <3>2, <3>4, AppendFacts
    <3> QED BY <2>1, <2>10, <3>1, <3>2, <3>5, AppendFacts
  <2>12. Assembled(c, p) /\ Len(c) = a.next + 1 /\ c[1].of = p
    BY <2>8, <2>10, <2>11
  <2>13. /\ p \notin givenUp /\ x.number = PacketsOf(p) - 1
         /\ Sending(p) => x.number < sending[r].next
    BY <2>5, <2>8, <2>10 DEF GoodPacket, IsLast, PacketsOf
  <2>14. PacketsOf(p) \in Nat /\ a.next \in Nat /\ sending[r].next \in Nat
    <3>1. PacketsOf(p) \in Nat /\ a.next \in Nat
      BY <2>8, BegunFacts DEF BaseInv, Accumulators
    <3> QED BY <3>1 DEF BaseInv, TypeOK
  <2>15. Len(c) = PacketsOf(p) /\ Len(c) # 0
    BY <2>10, <2>12, <2>13, <2>14
  <2>16. Sending(p) => sending[p.robot].next = PacketsOf(p)
    <3> SUFFICES ASSUME Sending(p) PROVE sending[r].next = PacketsOf(p)
      BY <2>8
    <3>1. p = Current(r) /\ sending[r].busy
      BY <2>8 DEF Sending
    <3>2. sending[r].next <= PacketsOf(p)
      BY <3>1 DEF SendingInv
    <3> QED BY <2>13, <2>14, <3>2
  <2>17. p \notin givenUp' /\ (Sending(p)' => sending'[p.robot].next = PacketsOf(p)')
    BY <1>1, <2>8, <2>13, <2>16
  <2>18. /\ p \in Begun' /\ PacketsOf(p)' = PacketsOf(p)
         /\ \A k : Packet(p, k)' = Packet(p, k)
    BY <2>8, PacketsStay
  <2>19. Assembled(c, p)'
    BY <2>12, <2>18 DEF Assembled
  <2>20. ASSUME NEW y \in InTransit(r)'
         PROVE  p.n <= y.chunk.of.n
    <3>1. PICK k \in 1..Len(chan'[r]) : y = chan'[r][k]
      BY DEF InTransit
    <3>2. chan[r] \in Seq(Packets) /\ chan'[r] = Tail(chan[r])
      BY <2>7 DEF BaseInv, MoreTypes
    <3>3. /\ k + 1 \in 1..Len(chan[r]) /\ y = chan[r][k + 1]
          /\ 1 \in 1..Len(chan[r]) /\ x = chan[r][1] /\ 1 < k + 1
      <4>1. /\ Len(chan[r]) \in Nat \ {0} /\ k \in 1..(Len(chan[r]) - 1)
            /\ chan'[r][k] = chan[r][k + 1] /\ Head(chan[r]) = chan[r][1]
        BY <2>7, <3>1, <3>2, TailFacts
      <4> QED BY <2>4, <3>1, <4>1
    <3>4. Before(x, y)
      BY <3>3 DEF OrderInv
    <3>5. y \in InTransit(r)
      BY <3>3 DEF InTransit
    <3>6. y.chunk.of.n \in Nat /\ p.n \in Nat
      BY <2>5, <2>8, <3>5, TransitType
    <3> QED BY <2>5, <3>4, <3>6 DEF Before
  <2> QED BY <2>8, <2>12, <2>15, <2>17, <2>18, <2>19, <2>20 DEF GoodCall
<1> QED BY <1>2, <1>3

\* Nothing was begun, sent or received at first.
LEMMA TransferInit == Init => TransferInv
<1> SUFFICES ASSUME Init PROVE TransferInv
  OBVIOUS
<1>1. Begun = {}
  <2> SUFFICES ASSUME NEW p \in Begun PROVE FALSE
    OBVIOUS
  <2>1. p \in Payload /\ p.n <= Len(payloads[p.robot])
    BY DEF Begun
  <2>2. p.robot \in Robots /\ p.n \in Nat \ {0}
    BY <2>1, PayloadFacts, ConstantFacts
  <2> QED BY <2>1, <2>2 DEF Init
<1>2. \A r \in Robots : Len(chan[r]) = 0 /\ ~sending[r].busy
  BY DEF Init, Idle
<1>3. Len(received) = 0 /\ DOMAIN acc = {}
  BY DEF Init
<1>4. IdInv
  BY <1>1 DEF IdInv
<1>5. PacketInv
  BY <1>2 DEF PacketInv, InTransit
<1>6. OrderInv
  BY <1>2 DEF OrderInv
<1>7. AccInv
  BY <1>3 DEF AccInv
<1>8. ReceivedInv
  BY <1>3 DEF ReceivedInv, Calls
<1>9. SendingInv
  BY <1>2 DEF SendingInv
<1> QED BY <1>4, <1>5, <1>6, <1>7, <1>8, <1>9 DEF TransferInv

\* Every step keeps TransferInv, when the hosts' ids differ.
LEMMA TransferStep ==
  ASSUME SharedSeed = FALSE
  PROVE  BaseInv /\ TransferInv /\ [Next]_vars => TransferInv'
<1> SUFFICES ASSUME BaseInv, TransferInv, [Next]_vars PROVE TransferInv'
  OBVIOUS
<1>1. IdInv /\ PacketInv /\ OrderInv /\ AccInv /\ ReceivedInv /\ SendingInv
  BY DEF TransferInv
<1>2. SendingInv'
  BY <1>1, SendingStep
<1>3. IdInv' /\ PacketInv' /\ OrderInv'
  BY <1>1, IdStep, PacketStep, OrderStep
<1>4. AccInv' /\ ReceivedInv'
  BY <1>1, <1>2, AccStep, ReceivedStep
<1> QED BY <1>2, <1>3, <1>4 DEF TransferInv

\* When every host draws ids of its own, a payload that sendBytes gave up is
\* never delivered: its last packet was not sent, no other packet carries its
\* id, and handleBytes calls the callback for a last packet only.
THEOREM GivenUpNotDelivered ==
  ASSUME SharedSeed = FALSE
  PROVE  Spec => []NoPartialDelivery
<1>1. TransferInv => NoPartialDelivery
  <2> SUFFICES ASSUME TransferInv, NEW p \in givenUp, NEW k \in Receipts(p) PROVE FALSE
    BY DEF NoPartialDelivery
  <2>1. k \in 1..Len(received) /\ received[k][1].of = p
    BY DEF Receipts
  <2>2. GoodCall(received[k])
    BY <2>1 DEF TransferInv, ReceivedInv, Calls
  <2> QED BY <2>1, <2>2 DEF GoodCall
<1> QED BY <1>1, BaseInit, BaseStep, TransferInit, TransferStep, PTL DEF Spec

-----------------------------------------------------------------------------
(* The flow of an undisturbed payload                                      *)

\* A packet leaves the channel at its head, when it is lost or received.
LEMMA TransitKept ==
  ASSUME BaseInv, [Next]_vars, NEW r \in Robots, NEW x \in InTransit(r), x \notin InTransit(r)'
  PROVE  (Lose(r) \/ Receive(r)) /\ chan[r] # << >> /\ x = Head(chan[r])
<1>1. PICK k \in 1..Len(chan[r]) : x = chan[r][k]
  BY DEF InTransit
<1>2. chan \in [Robots -> Seq(Packets)] /\ chan[r] \in Seq(Packets) /\ Len(chan[r]) \in Nat
  BY DEF BaseInv, MoreTypes
<1>3. \A j \in 1..Len(chan'[r]) : chan'[r][j] # x
  BY DEF InTransit
<1>4. chan'[r] # chan[r]
  BY <1>1, <1>3
<1>5. ~SendPacket(r)
  <2> SUFFICES ASSUME SendPacket(r) PROVE FALSE
    OBVIOUS
  <2>1. PICK y : y = Packet(Current(r), sending[r].next)
    OBVIOUS
  <2>2. chan'[r] = Append(chan[r], y)
    BY <1>2, <2>1 DEF SendPacket
  <2>3. y \in Packets
    BY <2>1, CurrentFacts, PacketType DEF SendPacket, BaseInv
  <2>4. chan'[r][k] = chan[r][k] /\ k \in 1..Len(chan'[r])
    BY <1>2, <2>2, <2>3, AppendFacts
  <2> QED BY <1>1, <1>3, <2>4
<1>6. ~Duplicate(r)
  <2> SUFFICES ASSUME Duplicate(r) PROVE FALSE
    OBVIOUS
  <2>1. chan[r] # << >> /\ chan'[r] = <<Head(chan[r])>> \o chan[r]
    BY <1>2 DEF Duplicate
  <2>2. k + 1 \in 2..(Len(chan[r]) + 1) /\ (k + 1) - 1 = k
    BY <1>2
  <2>3. chan'[r][k + 1] = chan[r][k] /\ k + 1 \in 1..Len(chan'[r])
    BY <1>2, <2>1, <2>2, RepeatHeadFacts
  <2> QED BY <1>1, <1>3, <2>3
<1>7. ASSUME NEW s \in Robots, SendPacket(s) \/ Duplicate(s) \/ Lose(s) \/ Receive(s), s # r
      PROVE  FALSE
  BY <1>2, <1>4, <1>7 DEF SendPacket, Duplicate, Lose, Receive
<1>8. \/ chan' = chan
      \/ \E s \in Robots : SendPacket(s) \/ Lose(s) \/ Receive(s) \/ Duplicate(s)
  BY DEF Next, SenderStep, Begin, SendFails, Finish, OnBytesReceived, vars
<1>9. Lose(r) \/ Receive(r)
  BY <1>4, <1>5, <1>6, <1>7, <1>8
<1>10. chan[r] # << >> /\ chan'[r] = Tail(chan[r])
  BY <1>2, <1>9 DEF Lose, Receive
<1>11. /\ Len(chan'[r]) = Len(chan[r]) - 1 /\ Head(chan[r]) = chan[r][1]
       /\ \A i \in 1..(Len(chan[r]) - 1) : chan'[r][i] = chan[r][i + 1]
  BY <1>2, <1>10, TailFacts
<1>12. k = 1
  <2> SUFFICES ASSUME k # 1 PROVE FALSE
    OBVIOUS
  <2>1. k - 1 \in 1..(Len(chan[r]) - 1) /\ (k - 1) + 1 = k
    BY <1>2
  <2>2. chan'[r][k - 1] = chan[r][k] /\ k - 1 \in 1..Len(chan'[r])
    BY <1>11, <2>1
  <2> QED BY <1>1, <1>3, <2>2
<1> QED BY <1>1, <1>9, <1>10, <1>11, <1>12

\* The packets of a payload stay on their way when nobody sends one of it and
\* the packet that leaves, if any, is another one's.
LEMMA OwnKept ==
  ASSUME BaseInv, [Next]_vars, NEW p \in Begun,
         ~(SendPacket(p.robot) /\ p = Current(p.robot)),
         (Lose(p.robot) \/ Receive(p.robot)) => Head(chan[p.robot]).chunk.of # p
  PROVE  Own(p)' = Own(p)
<1>1. p.robot \in Robots
  BY BegunFacts DEF BaseInv
<1>2. ASSUME NEW x \in InTransit(p.robot)', x.chunk.of = p
      PROVE  x \in InTransit(p.robot)
  <2> SUFFICES ASSUME SendPacket(p.robot), x = Packet(Current(p.robot), sending[p.robot].next)
               PROVE  FALSE
    BY <1>1, <1>2, TransitStep
  <2>1. x.chunk.of = Current(p.robot)
    BY DEF Packet
  <2> QED BY <1>2, <2>1
<1>3. ASSUME NEW x \in InTransit(p.robot), x.chunk.of = p
      PROVE  x \in InTransit(p.robot)'
  BY <1>1, <1>3, TransitKept
<1> QED BY <1>2, <1>3 DEF Own

\* How far sendBytes has come with a payload changes only when it sends a
\* packet of it or gives it up.
LEMMA SentUpToKept ==
  ASSUME BaseInv, SendingInv, [Next]_vars, NEW p \in Begun,
         ~(SendPacket(p.robot) /\ p = Current(p.robot)),
         ~(SendFails(p.robot) /\ p = Current(p.robot))
  PROVE  SentUpTo(p)' = SentUpTo(p)
<1>1. PacketsOf(p)' = PacketsOf(p) /\ PacketsOf(p) \in Nat /\ p.robot \in Robots
  BY PacketsStay, BegunFacts DEF BaseInv
<1>2. PICK r \in Robots : r = p.robot
  BY <1>1
<1>3. CASE Sending(p)'
  <2>1. Sending(p) /\ (sending'[r].next = sending[r].next \/ SendPacket(r))
    BY <1>2, <1>3, SendingGoesOn
  <2>2. p = Current(p.robot)
    BY <2>1 DEF Sending
  <2>3. sending'[p.robot].next = sending[p.robot].next
    BY <1>2, <2>1, <2>2
  <2> QED BY <1>3, <2>1, <2>3 DEF SentUpTo
<1>4. CASE ~Sending(p)' /\ ~Sending(p)
  BY <1>1, <1>4 DEF SentUpTo
<1>5. CASE ~Sending(p)' /\ Sending(p)
  <2>1. sending[r].busy /\ p = Current(r) /\ sending[r].next \in Nat
    BY <1>2, <1>5, CurrentFacts DEF Sending
  <2>2. sending \in [Robots -> [busy : BOOLEAN, next : Nat]]
    BY DEF BaseInv, TypeOK
  <2>3. ~UNCHANGED <<sending, payloads>>
    BY <1>5 DEF Sending, Current
  <2>4. PICK s \in Robots : Begin(s) \/ SendPacket(s) \/ SendFails(s) \/ Finish(s)
    BY <2>3 DEF Next, SenderStep, Lose, Duplicate, Receive, OnBytesReceived, vars
  <2>5. s = r
    <3> SUFFICES ASSUME s # r PROVE FALSE
      OBVIOUS
    <3>1. CASE Begin(s)
      <4>1. sending'[r] = sending[r] /\ payloads'[r] = payloads[r]
        BY <2>2, <3>1, BeginFacts DEF Begin
      <4> QED BY <1>2, <1>5, <4>1 DEF Sending, Current
    <3>2. CASE SendPacket(s) \/ SendFails(s) \/ Finish(s)
      <4>1. sending'[r] = sending[r] /\ payloads' = payloads
        BY <2>2, <3>2 DEF SendPacket, SendFails, Finish
      <4> QED BY <1>2, <1>5, <4>1 DEF Sending, Current
    <3> QED BY <2>4, <3>1, <3>2
  <2>6. Finish(r)
    <3>1. ~Begin(r)
      BY <2>1 DEF Begin
    <3> QED BY <1>2, <2>1, <2>4, <2>5, <3>1
  <2>7. sending[r].next >= PacketsOf(p)
    BY <2>1, <2>6 DEF Finish, PacketsOf
  <2>8. sending[r].next <= PacketsOf(p)
    BY <2>1 DEF SendingInv
  <2>9. sending[r].next = PacketsOf(p)
    BY <1>1, <2>1, <2>7, <2>8
  <2> QED BY <1>1, <1>2, <1>5, <2>9 DEF SentUpTo
<1> QED BY <1>3, <1>4, <1>5

\* A payload that a step does not touch keeps its flow.
LEMMA FlowKept ==
  ASSUME BaseInv, [Next]_vars, NEW p \in Begun, Flow(p),
         Own(p)' = Own(p), SentUpTo(p)' = SentUpTo(p),
         (IdOf(p) \in DOMAIN acc') = (IdOf(p) \in DOMAIN acc),
         IdOf(p) \in DOMAIN acc => acc'[IdOf(p)] = acc[IdOf(p)],
         (Receipts(p)' = {}) = (Receipts(p) = {})
  PROVE  Flow(p)'
<1>1. IdOf(p)' = IdOf(p) /\ PacketsOf(p)' = PacketsOf(p)
  BY PacketsStay
<1>2. Got(p)' = Got(p)
  BY <1>1 DEF Got
<1>3. {x.number : x \in Own(p)}' = {x.number : x \in Own(p)}
  OBVIOUS
<1> QED BY <1>1, <1>2, <1>3 DEF Flow

\* The payloads of the calls so far, when the callback is called or not.
LEMMA ReceiptsStep ==
  ASSUME BaseInv, NEW p, NEW c \in Seq(Chunks),
         received' = received \/ received' = Append(received, c)
  PROVE  /\ Receipts(p) # {} => Receipts(p)' # {}
         /\ received' = received => (Receipts(p)' = {}) = (Receipts(p) = {})
         /\ c[1].of # p => (Receipts(p)' = {}) = (Receipts(p) = {})
         /\ received' = Append(received, c) /\ c[1].of = p => Receipts(p)' # {}
<1>1. received \in Seq(Seq(Chunks))
  BY DEF BaseInv, MoreTypes
<1>2. CASE received' = received
  <2>1. Receipts(p)' = Receipts(p)
    BY <1>2 DEF Receipts
  <2>2. received' # Append(received, c)
    BY <1>1, <1>2, AppendFacts
  <2> QED BY <2>1, <2>2
<1>3. CASE received' = Append(received, c)
  <2>1. /\ Len(received) \in Nat /\ Len(received') = Len(received) + 1
        /\ \A k \in 1..Len(received) : received'[k] = received[k]
        /\ received'[Len(received) + 1] = c
    BY <1>1, <1>3, AppendFacts
  <2>2. \A k \in Receipts(p) : k \in Receipts(p)'
    BY <2>1 DEF Receipts
  <2>3. ASSUME NEW k \in Receipts(p)', c[1].of # p
        PROVE  k \in Receipts(p)
    <3>1. k \in 1..Len(received') /\ received'[k][1].of = p
      BY DEF Receipts
    <3>2. k # Len(received) + 1
      BY <2>1, <2>3, <3>1
    <3>3. k \in 1..Len(received)
      BY <2>1, <3>1, <3>2
    <3> QED BY <2>1, <3>1, <3>3 DEF Receipts
  <2>4. c[1].of = p => Len(received) + 1 \in Receipts(p)'
    BY <2>1 DEF Receipts
  <2>5. received' # received
    BY <1>1, <1>3, AppendFacts
  <2> QED BY <2>2, <2>3, <2>4, <2>5
<1> QED BY <1>2, <1>3

\* The payload that has just begun: nothing of it was sent or taken in.
LEMMA FlowNew ==
  ASSUME SharedSeed = FALSE, BaseInv, TransferInv, NEW r \in Robots, Begin(r),
         NEW p, p = Current(r)'
  PROVE  Flow(p)'
<1>1. /\ p \in Begun' /\ p \notin Begun /\ p.robot = r
      /\ p = [robot |-> r, n |-> Len(payloads[r]) + 1]
  BY NewPayload
<1>2. Next /\ [Next]_vars
  BY DEF Next, SenderStep
<1>3. IdInv'
  BY <1>2, IdStep DEF TransferInv
<1>4. UNCHANGED <<chan, acc, received>> /\ sending'[r] = [busy |-> TRUE, next |-> 0]
  BY DEF Begin, BaseInv, TypeOK
<1>5. IdOf(p)' \notin DOMAIN acc'
  <2> SUFFICES ASSUME IdOf(p)' \in DOMAIN acc' PROVE FALSE
    OBVIOUS
  <2>1. PICK q \in Begun : IdOf(q) = IdOf(p)'
    BY <1>4 DEF TransferInv, AccInv
  <2>2. q \in Begun' /\ IdOf(q)' = IdOf(p)'
    BY <1>2, <2>1, PayloadsStay
  <2>3. q = p
    BY <1>1, <1>3, <2>2 DEF IdInv
  <2> QED BY <1>1, <2>1, <2>3
<1>6. Receipts(p)' = {}
  <2> SUFFICES ASSUME NEW k \in 1..Len(received), received[k][1].of = p PROVE FALSE
    BY <1>4 DEF Receipts
  <2>1. GoodCall(received[k])
    BY DEF TransferInv, ReceivedInv, Calls
  <2> QED BY <1>1, <2>1 DEF GoodCall
<1>7. Own(p)' = {}
  <2> SUFFICES ASSUME NEW x \in InTransit(r), x.chunk.of = p PROVE FALSE
    BY <1>1, <1>4 DEF Own, InTransit
  <2> QED BY <1>1, TransitType
<1>8. Got(p)' = 0
  BY <1>5, <1>6 DEF Got
<1>9. Sending(p)'
  BY <1>1, <1>4 DEF Sending, Current
<1>10. SentUpTo(p)' = 0
  BY <1>1, <1>4, <1>9 DEF SentUpTo
<1>11. {x.number : x \in Own(p)}' = {}
  BY <1>7
<1>12. 0..(0 - 1) = {} /\ 0 <= 0
  OBVIOUS
<1> QED BY <1>5, <1>8, <1>10, <1>11, <1>12 DEF Flow

\* sendBytes sends one more packet of the payload.
LEMMA FlowSendPacket ==
  ASSUME BaseInv, TransferInv, NEW r \in Robots, SendPacket(r),
         NEW p, p = Current(r), Flow(p)
  PROVE  Flow(p)'
<1>1. p \in Begun /\ p.robot = r /\ sending[r].next \in Nat /\ sending[r].busy
  BY CurrentFacts DEF SendPacket
<1>2. PICK z : z = Packet(p, sending[r].next)
  OBVIOUS
<1>3. /\ chan' = [chan EXCEPT ![r] = Append(@, z)]
      /\ sending' = [sending EXCEPT ![r].next = @ + 1]
      /\ UNCHANGED <<payloads, acc, received>>
      /\ sending[r].next < PacketsOf(p)
  BY <1>2 DEF SendPacket, PacketsOf
<1>4. z \in Packets /\ z.number = sending[r].next /\ z.chunk.of = p
  BY <1>1, <1>2, PacketType DEF BaseInv
<1>5. IdOf(p)' = IdOf(p) /\ PacketsOf(p)' = PacketsOf(p) /\ Receipts(p)' = Receipts(p)
  BY <1>3, SameBegun DEF PacketsOf, Receipts
<1>6. Got(p)' = Got(p)
  BY <1>3, <1>5 DEF Got
<1>7. Sending(p) /\ Sending(p)'
  <2>1. sending'[r].busy = sending[r].busy
    BY <1>3 DEF BaseInv, TypeOK
  <2> QED BY <1>1, <1>3, <2>1 DEF Sending, Current
<1>8. SentUpTo(p) = sending[r].next /\ SentUpTo(p)' = sending[r].next + 1
  <2>1. sending'[r].next = sending[r].next + 1
    BY <1>3 DEF BaseInv, TypeOK
  <2> QED BY <1>1, <1>7, <2>1 DEF SentUpTo
<1>9. Own(p)' = Own(p) \cup {z}
  <2>1. [Next]_vars /\ ~Lose(r) /\ ~Receive(r)
    <3>1. sending' # sending
      <4>1. sending'[r].next # sending[r].next
        BY <1>1, <1>3 DEF BaseInv, TypeOK
      <4> QED BY <4>1
    <3> QED BY <3>1 DEF Next, SenderStep, Lose, Receive
  <2>2. \A x \in Own(p)' : x \in Own(p) \/ x = z
    BY <1>1, <1>2, <2>1, TransitStep DEF Own
  <2>3. \A x \in Own(p) : x \in Own(p)'
    BY <1>1, <2>1, TransitKept DEF Own
  <2>4. z \in Own(p)'
    <3>1. chan[r] \in Seq(Packets) /\ chan'[r] = Append(chan[r], z)
      BY <1>3 DEF BaseInv, MoreTypes
    <3>2. Len(chan[r]) + 1 \in 1..Len(chan'[r]) /\ chan'[r][Len(chan[r]) + 1] = z
      BY <1>4, <3>1, AppendFacts
    <3>3. z \in InTransit(r)'
      BY <3>2 DEF InTransit
    <3> QED BY <1>1, <1>4, <3>3 DEF Own
  <2> QED BY <2>2, <2>3, <2>4
<1>10. /\ Got(p) <= sending[r].next
       /\ {x.number : x \in Own(p)} = Got(p)..(sending[r].next - 1)
       /\ IdOf(p) \in DOMAIN acc => Receipts(p) = {}
  BY <1>8 DEF Flow
<1>11. Got(p) \in Nat
  <2>1. IdOf(p) \in DOMAIN acc => acc[IdOf(p)].next \in Nat
    BY DEF BaseInv, MoreTypes, Accumulators
  <2>2. PacketsOf(p) \in Nat
    BY <1>1, BegunFacts DEF BaseInv
  <2> QED BY <2>1, <2>2 DEF Got
<1>12. {x.number : x \in Own(p)}' = {x.number : x \in Own(p)} \cup {sending[r].next}
  BY <1>4, <1>9
<1>13. /\ Got(p)..(sending[r].next - 1) \cup {sending[r].next} = Got(p)..((sending[r].next + 1) - 1)
       /\ Got(p) <= sending[r].next + 1
  BY <1>1, <1>10, <1>11
<1> QED BY <1>3, <1>5, <1>6, <1>8, <1>10, <1>12, <1>13 DEF Flow

\* The callback is set, and the first packet on its way is one of an
\* undisturbed payload: it is the next one that the accumulator expects.
LEMMA FlowHead ==
  ASSUME BaseInv, TransferInv, NEW r \in Robots, chan[r] # << >>,
         NEW x, x = Head(chan[r]), NEW p, p = x.chunk.of, p \notin damaged, Flow(p),
         NEW a, a = AccumulatorOf(x.id)
  PROVE  /\ Receipts(p) = {} /\ a.next = Got(p) /\ x.number = a.next
         /\ Got(p) \in Nat /\ SentUpTo(p) \in Nat /\ Got(p) < SentUpTo(p)
         /\ \A y \in Own(p) : y.number \in Nat /\ y.number >= Got(p)
         /\ \A i \in 2..Len(chan[r]) : chan[r][i].chunk.of = p => chan[r][i].number # Got(p)
<1>1. IdInv /\ PacketInv /\ OrderInv /\ AccInv /\ ReceivedInv /\ SendingInv
  BY DEF TransferInv
<1>2. /\ x \in InTransit(r) /\ GoodPacket(r, x) /\ x \in Packets
      /\ p \in Begun /\ p.robot = r /\ x.id = IdOf(p) /\ x.number < PacketsOf(p)
      /\ a \in Accumulators
  BY <1>1, HeadAccumulator
<1>3. PacketsOf(p) \in Nat /\ sending[r].next \in Nat /\ x.number \in Nat /\ a.next \in Nat
  <2>1. PacketsOf(p) \in Nat
    BY <1>2, BegunFacts DEF BaseInv
  <2>2. sending[r].next \in Nat
    BY DEF BaseInv, TypeOK
  <2> QED BY <1>2, <2>1, <2>2 DEF Packets, Accumulators
<1>4. x.number < SentUpTo(p) /\ SentUpTo(p) \in Nat
  <2>1. Sending(p) => x.number < sending[r].next
    BY <1>2 DEF GoodPacket
  <2> QED BY <1>2, <1>3, <2>1 DEF SentUpTo
<1>5. x \in Own(p)
  BY <1>2 DEF Own
<1>6. Got(p) \in Nat
  <2>1. IdOf(p) \in DOMAIN acc => acc[IdOf(p)].next \in Nat
    BY DEF BaseInv, MoreTypes, Accumulators
  <2> QED BY <1>3, <2>1 DEF Got
<1>7. /\ {y.number : y \in Own(p)} = Got(p)..(SentUpTo(p) - 1)
      /\ IdOf(p) \in DOMAIN acc => Receipts(p) = {}
  BY DEF Flow
<1>8. \A y \in Own(p) : y.number \in Nat /\ y.number >= Got(p)
  BY <1>4, <1>6, <1>7
<1>9. Receipts(p) = {}
  <2> SUFFICES ASSUME Receipts(p) # {}, IdOf(p) \notin DOMAIN acc PROVE FALSE
    BY <1>7
  <2>1. Got(p) = PacketsOf(p)
    BY DEF Got
  <2>2. x.number >= Got(p)
    BY <1>5, <1>8
  <2> QED BY <1>2, <1>3, <2>1, <2>2
<1>10. a.next = Got(p)
  BY <1>2, <1>9 DEF Got, AccumulatorOf, NewAccumulator
<1>11. x = chan[r][1] /\ 1 \in 1..Len(chan[r]) /\ Len(chan[r]) \in Nat
  <2>1. x = chan[r][1] /\ 1 \in 1..Len(chan[r]) /\ chan[r] \in Seq(Packets)
    BY HeadFacts
  <2> QED BY <2>1
<1>12. ASSUME NEW i \in 2..Len(chan[r]), chan[r][i].chunk.of = p
       PROVE  x.number < chan[r][i].number /\ chan[r][i] \in Own(p)
  <2>1. i \in 1..Len(chan[r]) /\ 1 < i
    BY <1>11
  <2>2. Before(x, chan[r][i])
    BY <1>1, <1>11, <2>1 DEF OrderInv
  <2>3. p.n \in Nat
    BY <1>2, TransitType
  <2>4. ~(p.n < p.n)
    BY <2>3
  <2>5. x.number < chan[r][i].number
    BY <1>12, <2>2, <2>4 DEF Before
  <2> QED BY <1>2, <1>12, <2>1, <2>5 DEF Own, InTransit
<1>13. x.number = Got(p)
  <2>1. Got(p) \in Got(p)..(SentUpTo(p) - 1)
    <3>1. x.number >= Got(p)
      BY <1>5, <1>8
    <3> QED BY <1>3, <1>4, <1>6, <3>1
  <2>2. PICK y \in Own(p) : y.number = Got(p)
    BY <1>7, <2>1
  <2>3. PICK i \in 1..Len(chan[r]) : y = chan[r][i]
    BY <1>2 DEF Own, InTransit
  <2>4. y.chunk.of = p
    BY DEF Own
  <2>5. CASE i = 1
    BY <1>11, <2>2, <2>3, <2>5
  <2>6. CASE i # 1
    <3>1. i \in 2..Len(chan[r])
      BY <1>11, <2>6
    <3>2. x.number < Got(p)
      BY <1>12, <2>2, <2>3, <2>4, <3>1
    <3>3. x.number >= Got(p)
      BY <1>5, <1>8
    <3> QED BY <1>3, <1>6, <3>2, <3>3
  <2> QED BY <2>5, <2>6
<1>14. \A i \in 2..Len(chan[r]) : chan[r][i].chunk.of = p => chan[r][i].number # Got(p)
  <2> SUFFICES ASSUME NEW i \in 2..Len(chan[r]), chan[r][i].chunk.of = p,
                      chan[r][i].number = Got(p)
               PROVE  FALSE
    OBVIOUS
  <2>1. x.number < chan[r][i].number
    BY <1>12
  <2> QED BY <1>6, <1>13, <2>1
<1>15. Got(p) < SentUpTo(p)
  BY <1>4, <1>13
<1> QED BY <1>4, <1>6, <1>8, <1>9, <1>10, <1>13, <1>14, <1>15

\* handleBytes takes in the first packet on its way, one of this payload.
LEMMA FlowReceive ==
  ASSUME BaseInv, TransferInv, NEW r \in Robots, Receive(r),
         NEW p, p = Head(chan[r]).chunk.of, p \notin damaged, p \notin damaged', Flow(p)
  PROVE  Flow(p)'
<1>1. /\ chan[r] # << >> /\ chan' = [chan EXCEPT ![r] = Tail(@)]
      /\ UNCHANGED <<payloads, sending>>
  BY DEF Receive
<1>2. PICK x : x = Head(chan[r])
  OBVIOUS
<1>3. PICK a : a = AccumulatorOf(x.id)
  OBVIOUS
<1>4. /\ x \in InTransit(r) /\ GoodPacket(r, x) /\ x \in Packets
      /\ p \in Begun /\ p.robot = r /\ x.id = IdOf(p)
      /\ a \in Accumulators /\ a.next = Len(a.bytes)
      /\ x.number = a.next => Append(a.bytes, x.chunk)[1].of = p
  BY <1>1, <1>2, <1>3, HeadAccumulator DEF TransferInv
<1>5. /\ Receipts(p) = {} /\ a.next = Got(p) /\ x.number = a.next
      /\ Got(p) \in Nat /\ SentUpTo(p) \in Nat /\ Got(p) < SentUpTo(p)
      /\ \A i \in 2..Len(chan[r]) : chan[r][i].chunk.of = p => chan[r][i].number # Got(p)
  <2>1. p = x.chunk.of
    BY <1>2
  <2>2. chan[r] # << >>
    BY <1>1
  <2>3. /\ Receipts(p) = {} /\ a.next = Got(p) /\ x.number = a.next
        /\ Got(p) \in Nat /\ SentUpTo(p) \in Nat /\ Got(p) < SentUpTo(p)
        /\ \A y \in Own(p) : y.number \in Nat /\ y.number >= Got(p)
        /\ \A i \in 2..Len(chan[r]) : chan[r][i].chunk.of = p => chan[r][i].number # Got(p)
    BY <1>2, <1>3, <2>1, <2>2, FlowHead, SMT
  <2> QED BY <2>3
<1>6. Taken(x) \/ Completed(x)
  <2>1. ~Ignored(x)
    BY <1>2 DEF Ignored
  <2>2. ~Refused(x)
    BY <1>3, <1>5 DEF Refused
  <2> QED BY <1>2, <1>4, <2>1, <2>2, ReceiveCases
<1>7. IdOf(p)' = IdOf(p) /\ PacketsOf(p)' = PacketsOf(p) /\ SentUpTo(p)' = SentUpTo(p)
  BY <1>1 DEF IdOf, SizeOf, PacketsOf, SentUpTo, Sending, Current
<1>8. a.bytes \in Seq(Chunks) /\ x.chunk \in Chunks
  BY <1>4 DEF Accumulators, Packets
<1>9. PICK c \in Seq(Chunks) : c = Append(a.bytes, x.chunk)
  BY <1>8, AppendFacts
<1>10. Got(p)' = Got(p) + 1 /\ (IdOf(p)' \in DOMAIN acc' => Receipts(p)' = {})
  <2>1. CASE Taken(x)
    <3>1. PICK b : b = AppendBytes(a, x)
      OBVIOUS
    <3>2. b.next = a.next + 1
      BY <1>4, <3>1, AppendBytesFacts
    <3>3. acc' = [i \in DOMAIN acc \cup {x.id} |-> IF i = x.id THEN b ELSE acc[i]]
          /\ received' = received
      BY <1>3, <2>1, <3>1 DEF Taken, Store
    <3>4. x.id \in DOMAIN acc' /\ acc'[x.id].next = Got(p) + 1
      BY <1>5, <3>2, <3>3
    <3>5. Receipts(p)' = {}
      BY <1>5, <3>3 DEF Receipts
    <3> QED BY <1>4, <1>7, <3>4, <3>5 DEF Got
  <2>2. CASE Completed(x)
    <3>1. received' = Append(received, c) /\ x.last = TRUE /\ x.id \notin DOMAIN acc'
      BY <1>3, <1>9, <2>2 DEF Completed, Erase
    <3>2. Receipts(p)' # {}
      BY <1>4, <1>5, <1>9, <3>1, ReceiptsStep
    <3>3. x.number = PacketsOf(p) - 1
      BY <1>2, <1>4, <3>1 DEF GoodPacket, IsLast, PacketsOf
    <3>4. PacketsOf(p) = Got(p) + 1
      <4>1. PacketsOf(p) \in Nat
        BY <1>4, BegunFacts DEF BaseInv
      <4> QED BY <1>5, <3>3, <4>1
    <3> QED BY <1>4, <1>7, <3>1, <3>2, <3>4 DEF Got
  <2> QED BY <1>6, <2>1, <2>2
<1>11. x \in Own(p)
  BY <1>2, <1>4 DEF Own
<1>12. ASSUME NEW y \in Own(p)'
       PROVE  y \in Own(p) /\ y.number # Got(p)
  <2>1. y \in InTransit(r)' /\ y.chunk.of = p
    BY <1>4 DEF Own
  <2>2. PICK k \in 1..Len(chan'[r]) : y = chan'[r][k]
    BY <2>1 DEF InTransit
  <2>3. chan[r] \in Seq(Packets) /\ chan'[r] = Tail(chan[r])
    BY <1>1 DEF BaseInv, MoreTypes
  <2>4. /\ Len(chan[r]) \in Nat \ {0} /\ k \in 1..(Len(chan[r]) - 1)
        /\ chan'[r][k] = chan[r][k + 1]
    BY <1>1, <2>2, <2>3, TailFacts
  <2>5. k + 1 \in 2..Len(chan[r]) /\ k + 1 \in 1..Len(chan[r]) /\ y = chan[r][k + 1]
    BY <2>2, <2>4
  <2> QED BY <1>4, <1>5, <2>1, <2>5 DEF Own, InTransit
<1>13. ASSUME NEW y \in Own(p), y.number # Got(p)
       PROVE  y \in Own(p)'
  <2>1. [Next]_vars
    BY DEF Next
  <2>2. y \in InTransit(r) /\ y.chunk.of = p /\ y # x
    BY <1>4, <1>5, <1>13 DEF Own
  <2>3. y \in InTransit(r)'
    BY <1>2, <2>1, <2>2, TransitKept
  <2> QED BY <1>4, <2>2, <2>3 DEF Own
<1>14. {y.number : y \in Own(p)}' = {y.number : y \in Own(p)} \ {Got(p)}
  BY <1>12, <1>13
<1>15. {y.number : y \in Own(p)} = Got(p)..(SentUpTo(p) - 1)
  BY DEF Flow
<1>16. /\ (Got(p)..(SentUpTo(p) - 1)) \ {Got(p)} = (Got(p) + 1)..(SentUpTo(p) - 1)
       /\ Got(p) + 1 <= SentUpTo(p)
  BY <1>5
<1> QED BY <1>7, <1>10, <1>14, <1>15, <1>16 DEF Flow

\* Nothing flows at first.
LEMMA FlowInit == Init => FlowInv
<1> SUFFICES ASSUME Init PROVE Begun = {}
  BY DEF FlowInv
<1> SUFFICES ASSUME NEW p \in Begun PROVE FALSE
  OBVIOUS
<1>1. p \in Payload /\ p.n <= Len(payloads[p.robot])
  BY DEF Begun
<1>2. p.robot \in Robots /\ p.n \in Nat \ {0}
  BY <1>1, PayloadFacts, ConstantFacts
<1> QED BY <1>1, <1>2 DEF Init

\* Every step keeps the flow of the payloads that it does not disturb.
LEMMA FlowStep ==
  ASSUME SharedSeed = FALSE
  PROVE  BaseInv /\ TransferInv /\ FlowInv /\ [Next]_vars => FlowInv'
<1> SUFFICES ASSUME BaseInv, TransferInv, FlowInv, [Next]_vars,
                    NEW p \in Begun', p \notin damaged'
             PROVE  Flow(p)'
  BY DEF FlowInv
<1>1. CASE p \notin Begun
  <2>1. PICK r \in Robots : Begin(r)
    <3>1. ~UNCHANGED payloads
      BY <1>1, SameBegun
    <3> QED BY <3>1 DEF Next, SenderStep, SendPacket, SendFails, Finish, Lose, Duplicate, Receive,
                        OnBytesReceived, vars
  <2>2. p = Current(r)'
    BY <1>1, <2>1, NewPayload
  <2> QED BY <2>1, <2>2, FlowNew
<1>2. CASE p \in Begun
  <2>1. p \notin damaged /\ Flow(p)
    BY <1>2, DamageStays DEF FlowInv
  <2>2. p.robot \in Robots /\ IdOf(p)' = IdOf(p)
    BY <1>2, BegunFacts, PacketsStay DEF BaseInv
  <2>3. CASE SendPacket(p.robot) /\ p = Current(p.robot)
    BY <2>1, <2>2, <2>3, FlowSendPacket
  <2>4. CASE Receive(p.robot) /\ Head(chan[p.robot]).chunk.of = p
    BY <2>1, <2>2, <2>4, FlowReceive
  <2>5. CASE /\ ~(SendPacket(p.robot) /\ p = Current(p.robot))
             /\ ~(Receive(p.robot) /\ Head(chan[p.robot]).chunk.of = p)
    <3>1. Own(p)' = Own(p)
      <4>1. Lose(p.robot) => Head(chan[p.robot]).chunk.of # p
        BY DEF Lose
      <4> QED BY <1>2, <2>5, <4>1, OwnKept
    <3>2. SentUpTo(p)' = SentUpTo(p)
      <4>1. ~(SendFails(p.robot) /\ p = Current(p.robot))
        BY DEF SendFails
      <4> QED BY <1>2, <2>5, <4>1, SentUpToKept DEF TransferInv
    <3>3. CASE UNCHANGED <<acc, received>>
      <4>1. Receipts(p)' = Receipts(p)
        BY <3>3 DEF Receipts
      <4> QED BY <1>2, <2>1, <3>1, <3>2, <3>3, <4>1, FlowKept
    <3>4. ASSUME NEW r \in Robots, Receive(r)
          PROVE  Flow(p)'
      <4>1. chan[r] # << >>
        BY <3>4 DEF Receive
      <4>2. PICK x : x = Head(chan[r])
        OBVIOUS
      <4>3. PICK q : q = x.chunk.of
        OBVIOUS
      <4>4. PICK a : a = AccumulatorOf(x.id)
        OBVIOUS
      <4>5. /\ x \in Packets /\ q \in Begun /\ q.robot = r /\ x.id = IdOf(q)
            /\ a \in Accumulators
            /\ x.number = a.next => Append(a.bytes, x.chunk)[1].of = q
        BY <4>1, <4>2, <4>3, <4>4, HeadAccumulator DEF TransferInv
      <4>6. q # p
        BY <2>5, <3>4, <4>2, <4>3, <4>5
      <4>7. x.id # IdOf(p)
        BY <1>2, <4>5, <4>6 DEF TransferInv, IdInv
      <4>8. Ignored(x) \/ Refused(x) \/ Taken(x) \/ Completed(x)
        BY <3>4, <4>2, <4>5, ReceiveCases
      <4>9. /\ (IdOf(p) \in DOMAIN acc') = (IdOf(p) \in DOMAIN acc)
            /\ IdOf(p) \in DOMAIN acc => acc'[IdOf(p)] = acc[IdOf(p)]
        <5>1. CASE Ignored(x)
          BY <5>1 DEF Ignored
        <5>2. ASSUME NEW b, Store(x.id, b)
              PROVE  /\ (IdOf(p) \in DOMAIN acc') = (IdOf(p) \in DOMAIN acc)
                     /\ IdOf(p) \in DOMAIN acc => acc'[IdOf(p)] = acc[IdOf(p)]
          BY <4>7, <5>2 DEF Store
        <5>3. CASE Erase(x.id)
          BY <4>7, <5>3 DEF Erase
        <5> QED BY <4>8, <5>1, <5>2, <5>3 DEF Refused, Taken, Completed
      <4>10. (Receipts(p)' = {}) = (Receipts(p) = {})
        <5>1. a.bytes \in Seq(Chunks) /\ x.chunk \in Chunks
          BY <4>5 DEF Accumulators, Packets
        <5>2. PICK c \in Seq(Chunks) : c = Append(a.bytes, x.chunk)
          BY <5>1, AppendFacts
        <5>3. CASE Completed(x)
          <6>1. received' = Append(received, c) /\ x.number = a.next
            BY <4>4, <5>2, <5>3 DEF Completed
          <6>2. c[1].of # p
            BY <4>5, <4>6, <5>2, <6>1
          <6> QED BY <6>1, <6>2, ReceiptsStep
        <5>4. CASE received' = received
          BY <5>2, <5>4, ReceiptsStep
        <5> QED BY <4>8, <5>3, <5>4 DEF Ignored, Refused, Taken
      <4> QED BY <1>2, <2>1, <3>1, <3>2, <4>9, <4>10, FlowKept
    <3>5. UNCHANGED <<acc, received>> \/ \E r \in Robots : Receive(r)
      BY DEF Next, SenderStep, Begin, SendPacket, SendFails, Finish, Lose, Duplicate,
             OnBytesReceived, vars
    <3> QED BY <3>3, <3>4, <3>5
  <2> QED BY <2>3, <2>4, <2>5
<1> QED BY <1>1, <1>2

\* When every host draws ids of its own, an accumulator that is left in
\* m_bytesAccumulatorMap once the traffic is over is that of a payload which
\* lost a packet, got one twice, was given up or came too early: handleBytes
\* takes in and erases whatever travels undisturbed.
THEOREM AccumulatorsAreErased ==
  ASSUME SharedSeed = FALSE
  PROVE  Spec => []NoLeakedAccumulator
<1>1. BaseInv /\ TransferInv /\ FlowInv => NoLeakedAccumulator
  <2> SUFFICES ASSUME BaseInv, TransferInv, FlowInv,
                      \A r \in Robots : chan[r] = << >> /\ ~sending[r].busy,
                      NEW i \in DOMAIN acc
               PROVE  \E p \in damaged : IdOf(p) = i
    BY DEF NoLeakedAccumulator
  <2>1. PICK p \in Begun : IdOf(p) = i /\ acc[i].next < PacketsOf(p)
    BY DEF TransferInv, AccInv
  <2>2. SUFFICES ASSUME p \notin damaged PROVE FALSE
    BY <2>1
  <2>3. Flow(p)
    BY <2>2 DEF FlowInv
  <2>4. p.robot \in Robots /\ PacketsOf(p) \in Nat /\ acc[i].next \in Nat
    BY BegunFacts DEF BaseInv, MoreTypes, Accumulators
  <2>5. Own(p) = {}
    BY <2>4 DEF Own, InTransit
  <2>6. Got(p) = acc[i].next /\ SentUpTo(p) = PacketsOf(p)
    BY <2>1, <2>4 DEF Got, SentUpTo, Sending
  <2>7. {x.number : x \in Own(p)} = acc[i].next..(PacketsOf(p) - 1)
    BY <2>3, <2>6 DEF Flow
  <2>8. acc[i].next \in acc[i].next..(PacketsOf(p) - 1)
    BY <2>1, <2>4
  <2> QED BY <2>5, <2>7, <2>8
<1> QED BY <1>1, BaseInit, BaseStep, TransferInit, TransferStep, FlowInit, FlowStep, PTL DEF Spec

-----------------------------------------------------------------------------
(* Whole payloads                                                          *)

\* The sizes whose last packet sendBytes does not truncate: of a multiple of
\* the packet size it sends 0 bytes instead of the last PAYLOAD_MAX_SIZE ones.
Untruncated == \A size \in Sizes : size = 0 \/ size % PayloadMaxSize # 0

\* How many packets a payload is cut into.
LEMMA NPacketsFacts ==
  ASSUME NEW size \in Sizes
  PROVE  /\ NPackets(size) \in Nat
         /\ NPackets(size) * PayloadMaxSize <= size + PayloadMaxSize - 1
         /\ size <= NPackets(size) * PayloadMaxSize
         /\ (NPackets(size) = 0) = (size = 0)
<1>1. size \in Nat /\ PayloadMaxSize \in Nat \ {0}
  BY ConstantFacts
<1>2. ASSUME NEW P \in Nat \ {0}, NEW N \in Int, N = (size + P - 1) \div P
      PROVE  N \in Nat /\ N * P <= size + P - 1 /\ size <= N * P
  BY <1>1, <1>2
<1>3. /\ NPackets(size) \in Nat
      /\ NPackets(size) * PayloadMaxSize <= size + PayloadMaxSize - 1
      /\ size <= NPackets(size) * PayloadMaxSize
  BY <1>1, <1>2, NPacketsType DEF NPackets
<1>4. NPackets(size) = 0 => size = 0
  BY <1>1, <1>3
<1>5. ASSUME size = 0, NPackets(size) # 0
      PROVE  FALSE
  <2>1. \A a, b, c \in Nat : a <= b => a * c <= b * c
    OBVIOUS
  <2>2. 1 * PayloadMaxSize <= NPackets(size) * PayloadMaxSize
    BY <1>1, <1>3, <1>5, <2>1
  <2> QED BY <1>1, <1>3, <1>5, <2>2
<1> QED BY <1>3, <1>4, <1>5

\* The packets of a payload join up, and end where it ends.
LEMMA PacketsJoin ==
  ASSUME NEW size \in Sizes, Untruncated, NPackets(size) # 0
  PROVE  /\ PacketStart(0) = 0
         /\ \A k \in 0..(NPackets(size) - 2) :
              PacketStart(k + 1) = PacketStart(k) + PacketSize(size, k)
         /\ PacketStart(NPackets(size) - 1) + PacketSize(size, NPackets(size) - 1) = size
<1>1. /\ size \in Nat /\ size < 65536
      /\ PayloadMaxSize \in Nat \ {0} /\ PayloadMaxSize <= 255
  BY ConstantFacts
<1>2. PICK N \in Nat \ {0} : N = NPackets(size)
  BY NPacketsFacts
<1>3. PICK P \in Nat \ {0} : P = PayloadMaxSize
  BY <1>1
<1>4. N * P <= size + P - 1 /\ size <= N * P
  BY <1>2, <1>3, NPacketsFacts
<1>5. \A k \in Nat : (k + 1) * P = k * P + P /\ k * P \in Nat
  OBVIOUS
<1>6. N - 1 \in Nat /\ (N - 1) * P \in Nat /\ N * P = (N - 1) * P + P
  <2>1. N - 1 \in Nat /\ (N - 1) + 1 = N
    OBVIOUS
  <2> QED BY <1>5, <2>1
<1>7. (N - 1) * P < size /\ size <= (N - 1) * P + P
  BY <1>1, <1>4, <1>6
<1>8. \A m \in Nat : m < 65536 => m % 65536 = m
  OBVIOUS
<1>9. \A k \in 0..(N - 1) : PacketStart(k) = k * P
  <2> SUFFICES ASSUME NEW k \in 0..(N - 1) PROVE (k * P) % 65536 = k * P
    BY <1>3 DEF PacketStart
  <2>1. \A a, b, c \in Nat : a <= b => a * c <= b * c
    OBVIOUS
  <2>2. k \in Nat /\ k <= N - 1 /\ k * P \in Nat
    BY <1>5
  <2>3. k * P <= (N - 1) * P
    BY <1>6, <2>1, <2>2
  <2>4. k * P < 65536
    BY <1>1, <1>6, <1>7, <2>2, <2>3
  <2> QED BY <1>8, <2>2, <2>4
<1>10. PacketStart(0) = 0
  BY <1>9
<1>11. ASSUME NEW k \in 0..(N - 2)
       PROVE  PacketStart(k + 1) = PacketStart(k) + PacketSize(size, k)
  <2>1. k \in Nat /\ k \in 0..(N - 1) /\ k + 1 \in 0..(N - 1) /\ k # N - 1
    OBVIOUS
  <2>2. PacketSize(size, k) = P
    BY <1>2, <1>3, <2>1 DEF PacketSize, IsLast
  <2> QED BY <1>5, <1>9, <2>1, <2>2
<1>12. PacketStart(N - 1) + PacketSize(size, N - 1) = size
  <2>1. PICK m \in Int : m = size - (N - 1) * P
    BY <1>1, <1>6
  <2>2. m \in Nat /\ m # 0 /\ m <= P
    BY <1>1, <1>6, <1>7, <2>1
  <2>3. m # P
    <3> SUFFICES ASSUME m = P PROVE FALSE
      OBVIOUS
    <3>1. size = N * P
      BY <1>1, <1>6, <2>1
    <3>2. \A b \in Nat \ {0}, n \in Nat : (n * b) % b = 0
      OBVIOUS
    <3>3. size % P = 0
      BY <3>1, <3>2
    <3>4. size # 0
      BY <1>1, <1>6, <1>7
    <3> QED BY <1>3, <3>3, <3>4 DEF Untruncated
  <2>4. \A b \in Nat \ {0}, n \in Nat : n < b => n % b = n
    OBVIOUS
  <2>5. m % P = m
    BY <2>2, <2>3, <2>4
  <2>6. m % 256 = m
    BY <1>1, <1>3, <2>2, <2>4
  <2>7. PacketSize(size, N - 1) = (m % P) % 256
    BY <1>2, <1>3, <2>1 DEF PacketSize, IsLast
  <2>8. PacketStart(N - 1) = (N - 1) * P
    <3>1. N - 1 \in 0..(N - 1)
      OBVIOUS
    <3> QED BY <1>9, <3>1
  <2> QED BY <1>1, <1>6, <2>1, <2>5, <2>6, <2>7, <2>8
<1> QED BY <1>2, <1>10, <1>11, <1>12

\* What the callback was given is a whole payload.
LEMMA CallsAreWhole ==
  ASSUME Untruncated, BaseInv, NEW c, GoodCall(c)
  PROVE  c[1].of \in Begun /\ IsWhole(c, c[1].of)
<1>1. PICK p : p = c[1].of
  OBVIOUS
<1>2. PICK size : size = SizeOf(p)
  OBVIOUS
<1>3. PICK N : N = NPackets(size)
  OBVIOUS
<1>4. p \in Begun /\ Len(c) = N /\ N # 0 /\ Assembled(c, p)
  BY <1>1, <1>2, <1>3 DEF GoodCall, PacketsOf
<1>5. size \in Sizes /\ N \in Nat \ {0}
  BY <1>2, <1>3, <1>4, BegunFacts, NPacketsType DEF BaseInv
<1>6. /\ PacketStart(0) = 0
      /\ \A k \in 0..(N - 2) : PacketStart(k + 1) = PacketStart(k) + PacketSize(size, k)
      /\ PacketStart(N - 1) + PacketSize(size, N - 1) = size
  BY <1>3, <1>5, PacketsJoin
<1>7. \A k \in 1..N : /\ c[k].of = p
                      /\ c[k].start = PacketStart(k - 1)
                      /\ c[k].len = PacketSize(size, k - 1)
  BY <1>2, <1>4 DEF Assembled, Packet
<1>8. 1 \in 1..N /\ N \in 1..N /\ 1 - 1 = 0
  BY <1>5
<1>9. c[1].start = 0 /\ c[N].start + c[N].len = size
  BY <1>6, <1>7, <1>8
<1>10. ASSUME NEW k \in 1..(N - 1)
       PROVE  c[k + 1].start = c[k].start + c[k].len
  <2>1. k \in 1..N /\ k + 1 \in 1..N /\ (k + 1) - 1 = k /\ k - 1 \in 0..(N - 2) /\ (k - 1) + 1 = k
    BY <1>5
  <2>2. PacketStart(k) = PacketStart(k - 1) + PacketSize(size, k - 1)
    BY <1>6, <2>1
  <2> QED BY <1>7, <2>1, <2>2
<1>11. c # << >>
  BY <1>4
<1>12. \A k \in 1..(N - 1) : k \in 1..N
  BY <1>5
<1>13. IsWhole(c, p)
  BY <1>2, <1>4, <1>7, <1>8, <1>9, <1>10, <1>11, <1>12 DEF IsWhole
<1> QED BY <1>1, <1>4, <1>13

\* When every host draws ids of its own and no payload is truncated by
\* sendBytes, each call of the callback has all the bytes of one payload, in
\* order, whatever the swarm loses, repeats or interleaves (appendBytes,
\* handleBytes).
THEOREM OnlyWholePayloads ==
  ASSUME SharedSeed = FALSE, Untruncated
  PROVE  Spec => []WholePayload
<1>1. BaseInv /\ TransferInv => WholePayload
  <2> SUFFICES ASSUME BaseInv, TransferInv, NEW k \in 1..Len(received)
               PROVE  \E p \in Begun : IsWhole(received[k], p)
    BY DEF WholePayload
  <2>1. GoodCall(received[k])
    BY DEF TransferInv, ReceivedInv, Calls
  <2> QED BY <2>1, CallsAreWhole
<1> QED BY <1>1, BaseInit, BaseStep, TransferInit, TransferStep, PTL DEF Spec

-----------------------------------------------------------------------------
(* Splitting, the swarm and reassembly implement PayloadChannel            *)

\* The state of the channel.
BegunBar == [r \in Robots |-> Len(payloads[r])]
ExcusedBar == damaged \cup {p \in Begun : SizeOf(p) = 0}
DeliveredBar == [k \in 1..Len(received) |-> Meaning(received[k])]

\* Every call means the payload that its chunks are of.
MeaningInv == DeliveredBar = [k \in 1..Len(received) |-> received[k][1].of]

\* In the refinement mapping, every call stands for a payload.
LEMMA CallsMeanPayloads ==
  ASSUME Untruncated
  PROVE  BaseInv /\ TransferInv => MeaningInv
<1> SUFFICES ASSUME BaseInv, TransferInv, NEW k \in 1..Len(received)
             PROVE  Meaning(received[k]) = received[k][1].of
  BY DEF MeaningInv, DeliveredBar
<1>1. GoodCall(received[k])
  BY DEF TransferInv, ReceivedInv, Calls
<1>2. IsWhole(received[k], received[k][1].of)
  BY <1>1, CallsAreWhole
<1> QED BY <1>2 DEF Meaning

\* A payload is delivered in the channel when a call was made for it.
LEMMA DeliveredFacts ==
  ASSUME BaseInv, MeaningInv
  PROVE  /\ Len(DeliveredBar) = Len(received)
         /\ \A p : (\E k \in 1..Len(DeliveredBar) : DeliveredBar[k] = p) <=> Receipts(p) # {}
<1>1. received \in Seq(Seq(Chunks)) /\ Len(received) \in Nat
  BY DEF BaseInv, MoreTypes
<1>2. PICK n \in Nat : n = Len(received)
  BY <1>1
<1>3. PICK f : f = [k \in 1..n |-> received[k][1].of]
  OBVIOUS
<1>4. f \in [1..n -> {received[k][1].of : k \in 1..n}]
  BY <1>3
<1>5. Len(f) = n
  BY <1>4, FunctionIsSequence
<1>6. DeliveredBar = f
  BY <1>2, <1>3 DEF MeaningInv
<1> QED BY <1>2, <1>3, <1>5, <1>6 DEF Receipts

\* The payloads of a robot in the channel are those that it has begun.
LEMMA SentFacts ==
  ASSUME BaseInv, NEW r \in Robots
  PROVE  /\ \A p \in Begun : p.robot = r => p \in Channel!Sent(r)
         /\ \A q \in Channel!Sent(r) : q \in Begun /\ q.robot = r
<1>1. Len(payloads[r]) \in Nat /\ Len(payloads[r]) <= MaxPayloads[r]
  BY DEF BaseInv, TypeOK, MoreTypes
<1>2. Channel!Sent(r) = {[robot |-> r, n |-> k] : k \in 1..Len(payloads[r])}
  BY DEF Channel!Sent
<1>3. ASSUME NEW p \in Begun, p.robot = r
      PROVE  p \in Channel!Sent(r)
  <2>1. p \in Payload /\ p.n \in 1..Len(payloads[r])
    BY <1>3, BegunFacts DEF BaseInv
  <2>2. p = [robot |-> r, n |-> p.n]
    BY <1>3, <2>1, PayloadFacts
  <2> QED BY <1>2, <2>1, <2>2
<1>4. ASSUME NEW k \in 1..Len(payloads[r]), NEW q, q = [robot |-> r, n |-> k]
      PROVE  q \in Begun /\ q.robot = r
  <2>1. k \in 1..MaxPayloads[r] /\ k <= Len(payloads[r])
    BY <1>1, ConstantFacts
  <2>2. q \in Payload /\ q.robot = r /\ q.n = k
    BY <1>4, <2>1, PayloadFacts
  <2> QED BY <2>1, <2>2 DEF Begun
<1> QED BY <1>2, <1>3, <1>4

\* sendBytes is called.
LEMMA ChannelBegin ==
  ASSUME BaseInv, MeaningInv, MeaningInv', NEW r \in Robots, Begin(r)
  PROVE  Channel!ChannelNext
<1>1. PICK p : p = [robot |-> r, n |-> Len(payloads[r]) + 1]
  OBVIOUS
<1>2. p \in Begun' /\ \A q \in Begun' : q \in Begun \/ q = p
  BY <1>1, NewPayload
<1>3. BegunBar' = [BegunBar EXCEPT ![r] = @ + 1]
  <2>1. /\ Len(payloads'[r]) = Len(payloads[r]) + 1
        /\ \A s \in Robots \ {r} : payloads'[s] = payloads[s]
    BY BeginFacts
  <2> QED BY <2>1 DEF BegunBar
<1>4. UNCHANGED <<damaged, givenUp, received>>
  BY DEF Begin
<1>5. DeliveredBar' = DeliveredBar
  BY <1>4 DEF MeaningInv
<1>6. \A q \in Begun : q \in Begun' /\ SizeOf(q)' = SizeOf(q)
  <2>1. [Next]_vars
    BY DEF Next, SenderStep
  <2> QED BY <2>1, PayloadsStay
<1>7. ExcusedBar' = ExcusedBar \cup {p} \/ ExcusedBar' = ExcusedBar
  <2>1. \A q : q \in ExcusedBar' <=> q \in damaged \/ (q \in Begun' /\ SizeOf(q)' = 0)
    BY <1>4 DEF ExcusedBar
  <2>2. \A q : q \in ExcusedBar <=> q \in damaged \/ (q \in Begun /\ SizeOf(q) = 0)
    BY DEF ExcusedBar
  <2>3. \A q : q # p => (q \in ExcusedBar' <=> q \in ExcusedBar)
    BY <1>2, <1>6, <2>1, <2>2
  <2>4. p \notin Begun /\ p \notin damaged
    BY <1>1, NewPayload DEF BaseInv, TypeOK
  <2>5. p \notin ExcusedBar
    BY <2>2, <2>4
  <2>6. CASE p \in ExcusedBar'
    BY <2>3, <2>6
  <2>7. CASE p \notin ExcusedBar'
    BY <2>3, <2>5, <2>7
  <2> QED BY <2>6, <2>7
<1>8. BegunBar[r] = Len(payloads[r])
  BY DEF BegunBar
<1>9. Channel!Begin(r)
  BY <1>1, <1>3, <1>4, <1>5, <1>7, <1>8 DEF Channel!Begin, BegunBar, ExcusedBar, DeliveredBar
<1> QED BY <1>9 DEF Channel!ChannelNext

\* A payload is disturbed, and no more than that.
LEMMA ChannelDisturb ==
  ASSUME BaseInv, MeaningInv, MeaningInv', NEW p \in Begun, damaged' = damaged \cup {p},
         UNCHANGED <<payloads, givenUp, received>>
  PROVE  Channel!ChannelNext
<1>1. PICK r \in Robots : r = p.robot
  BY BegunFacts DEF BaseInv
<1>2. p \in Channel!Sent(r)
  BY <1>1, SentFacts
<1>3. Begun' = Begun /\ \A q : SizeOf(q)' = SizeOf(q)
  BY SameBegun
<1>4. ExcusedBar' = ExcusedBar \cup {p}
  BY <1>3 DEF ExcusedBar
<1>5. BegunBar' = BegunBar
  BY DEF BegunBar
<1>6. DeliveredBar' = DeliveredBar
  BY DEF MeaningInv
<1>7. Channel!Disturb(p)
  BY <1>4, <1>5, <1>6 DEF Channel!Disturb, BegunBar, ExcusedBar, DeliveredBar
<1> QED BY <1>2, <1>7 DEF Channel!ChannelNext

\* Nothing happens that the channel shows.
LEMMA ChannelStutters ==
  ASSUME MeaningInv, MeaningInv', UNCHANGED <<payloads, givenUp, received, damaged>>
  PROVE  UNCHANGED Channel!channelVars
<1>1. Begun' = Begun /\ \A q : SizeOf(q)' = SizeOf(q)
  BY SameBegun
<1>2. ExcusedBar' = ExcusedBar
  BY <1>1 DEF ExcusedBar
<1>3. BegunBar' = BegunBar
  BY DEF BegunBar
<1>4. DeliveredBar' = DeliveredBar
  BY DEF MeaningInv
<1> QED BY <1>2, <1>3, <1>4 DEF Channel!channelVars, BegunBar, ExcusedBar, DeliveredBar

\* sendBytes returns false: the payload was not delivered.
LEMMA ChannelAbandon ==
  ASSUME BaseInv, TransferInv, MeaningInv, MeaningInv', NEW r \in Robots, SendFails(r)
  PROVE  Channel!ChannelNext
<1>1. PICK p : p = Current(r)
  OBVIOUS
<1>2. p \in Begun /\ p.robot = r /\ sending[r].busy /\ sending[r].next \in Nat
  BY <1>1, CurrentFacts DEF SendFails
<1>3. /\ sending[r].next < PacketsOf(p)
      /\ damaged' = damaged \cup {p} /\ givenUp' = givenUp \cup {p}
      /\ UNCHANGED <<payloads, received>>
  BY <1>1 DEF SendFails, PacketsOf
<1>4. Receipts(p) = {}
  <2> SUFFICES ASSUME NEW k \in Receipts(p) PROVE FALSE
    OBVIOUS
  <2>1. k \in 1..Len(received) /\ received[k][1].of = p
    BY DEF Receipts
  <2>2. GoodCall(received[k])
    BY <2>1 DEF TransferInv, ReceivedInv, Calls
  <2>3. Sending(p)
    BY <1>1, <1>2 DEF Sending
  <2>4. sending[r].next = PacketsOf(p)
    BY <1>2, <2>1, <2>2, <2>3 DEF GoodCall
  <2> QED BY <1>2, <1>3, <2>4
<1>5. p \in Channel!Sent(r)
  BY <1>2, SentFacts
<1>6. Begun' = Begun /\ \A q : SizeOf(q)' = SizeOf(q)
  BY <1>3, SameBegun
<1>7. ExcusedBar' = ExcusedBar \cup {p}
  BY <1>3, <1>6 DEF ExcusedBar
<1>8. BegunBar' = BegunBar
  BY <1>3 DEF BegunBar
<1>9. DeliveredBar' = DeliveredBar
  BY <1>3 DEF MeaningInv
<1>10. ~(\E k \in 1..Len(DeliveredBar) : DeliveredBar[k] = p)
  BY <1>4, DeliveredFacts
<1>11. Channel!Abandon(p)
  BY <1>3, <1>7, <1>8, <1>9, <1>10
     DEF Channel!Abandon, Channel!IsDelivered, BegunBar, ExcusedBar, DeliveredBar
<1> QED BY <1>5, <1>11 DEF Channel!ChannelNext

\* While a packet of a later payload is the first on its way, the payloads
\* before it are delivered, or disturbed, or empty; and none after it is
\* delivered.
LEMMA InTurn ==
  ASSUME BaseInv, TransferInv, FlowInv, NEW r \in Robots, chan[r] # << >>,
         NEW p, p = Head(chan[r]).chunk.of, NEW q \in Begun, q.robot = r
  PROVE  /\ q.n < p.n => q \in ExcusedBar \/ Receipts(q) # {}
         /\ q.n > p.n => Receipts(q) = {}
<1>1. PICK x : x = Head(chan[r])
  OBVIOUS
<1>2. x = chan[r][1] /\ 1 \in 1..Len(chan[r]) /\ chan[r] \in Seq(Packets)
  BY <1>1, HeadFacts
<1>3. x \in InTransit(r) /\ p = x.chunk.of
  BY <1>1, <1>2 DEF InTransit
<1>4. p \in Begun /\ p.robot = r /\ p.n \in Nat
  BY <1>3, TransitType DEF TransferInv, PacketInv, GoodPacket
<1>5. q.n \in Nat /\ PacketsOf(q) \in Nat /\ SizeOf(q) \in Sizes
  BY BegunFacts DEF BaseInv
<1>6. ASSUME q.n < p.n, q \notin ExcusedBar, Receipts(q) = {}
      PROVE  FALSE
  <2>1. q \notin damaged /\ SizeOf(q) # 0
    BY <1>6 DEF ExcusedBar
  <2>2. Flow(q)
    BY <2>1 DEF FlowInv
  <2>3. PacketsOf(q) # 0
    BY <1>5, <2>1, NPacketsFacts DEF PacketsOf
  <2>4. ~Sending(q)
    <3>1. p.n \in 1..Len(payloads[r]) /\ Len(payloads[r]) \in Nat
      <4>1. p.n \in 1..Len(payloads[r])
        BY <1>4, BegunFacts DEF BaseInv
      <4> QED BY <4>1 DEF BaseInv, TypeOK
    <3>2. q.n # Len(payloads[r])
      BY <1>5, <1>6, <3>1
    <3> QED BY <3>2 DEF Sending, Current
  <2>5. SentUpTo(q) = PacketsOf(q)
    BY <2>4 DEF SentUpTo
  <2>6. Got(q) \in Nat /\ Got(q) < PacketsOf(q)
    <3>1. CASE IdOf(q) \in DOMAIN acc
      <4>1. PICK t \in Begun : IdOf(t) = IdOf(q) /\ acc[IdOf(q)].next < PacketsOf(t)
        BY <3>1 DEF TransferInv, AccInv
      <4>2. t = q
        BY <4>1 DEF TransferInv, IdInv
      <4>3. acc[IdOf(q)].next \in Nat
        BY <3>1 DEF BaseInv, MoreTypes, Accumulators
      <4> QED BY <3>1, <4>1, <4>2, <4>3 DEF Got
    <3>2. CASE IdOf(q) \notin DOMAIN acc
      BY <1>5, <1>6, <2>3, <3>2 DEF Got
    <3> QED BY <3>1, <3>2
  <2>7. Got(q) \in Got(q)..(SentUpTo(q) - 1)
    BY <1>5, <2>5, <2>6
  <2>8. PICK y \in Own(q) : TRUE
    BY <2>2, <2>7 DEF Flow
  <2>9. PICK i \in 1..Len(chan[r]) : y = chan[r][i]
    BY DEF Own, InTransit
  <2>10. y.chunk.of = q
    BY DEF Own
  <2>11. i # 1
    BY <1>2, <1>3, <1>4, <1>5, <1>6, <2>9, <2>10
  <2>12. 1 < i
    BY <1>2, <2>11
  <2>13. Before(x, y)
    BY <1>2, <2>9, <2>12 DEF TransferInv, OrderInv
  <2> QED BY <1>3, <1>4, <1>5, <1>6, <2>10, <2>13 DEF Before
<1>7. ASSUME q.n > p.n, NEW k \in Receipts(q)
      PROVE  FALSE
  <2>1. k \in 1..Len(received) /\ received[k][1].of = q
    BY DEF Receipts
  <2>2. GoodCall(received[k])
    BY <2>1 DEF TransferInv, ReceivedInv, Calls
  <2>3. q.n <= p.n
    BY <1>3, <2>1, <2>2 DEF GoodCall
  <2> QED BY <1>4, <1>5, <1>7, <2>3
<1> QED BY <1>6, <1>7

\* The callback is called for a payload whose turn it is.
LEMMA ChannelDeliver ==
  ASSUME BaseInv, TransferInv, FlowInv, MeaningInv, MeaningInv', NEW r \in Robots, Receive(r),
         NEW x, x = Head(chan[r]), Completed(x)
  PROVE  Channel!ChannelNext
<1>1. PICK p : p = x.chunk.of
  OBVIOUS
<1>2. PICK a : a = AccumulatorOf(x.id)
  OBVIOUS
<1>3. chan[r] # << >> /\ UNCHANGED <<payloads, givenUp, damaged>>
  BY DEF Receive, Completed
<1>4. /\ GoodPacket(r, x) /\ x \in Packets
      /\ p \in Begun /\ p.robot = r
      /\ a \in Accumulators
      /\ x.number = a.next => Append(a.bytes, x.chunk)[1].of = p
  BY <1>1, <1>2, <1>3, HeadAccumulator DEF TransferInv
<1>5. PICK c : c = Append(a.bytes, x.chunk)
  OBVIOUS
<1>6. received' = Append(received, c) /\ c[1].of = p /\ x.last = TRUE
  BY <1>2, <1>4, <1>5 DEF Completed
<1>7. c \in Seq(Chunks)
  <2>1. a.bytes \in Seq(Chunks) /\ x.chunk \in Chunks
    BY <1>4 DEF Accumulators, Packets
  <2> QED BY <1>5, <2>1, AppendFacts
<1>8. p \notin givenUp
  BY <1>1, <1>4, <1>6 DEF GoodPacket
<1>9. p \in ExcusedBar \/ Receipts(p) = {}
  <2> SUFFICES ASSUME p \notin damaged PROVE Receipts(p) = {}
    BY DEF ExcusedBar
  <2>1. Flow(p)
    BY <1>4 DEF FlowInv
  <2>2. chan[r] # << >>
    BY <1>3
  <2>3. /\ Receipts(p) = {} /\ a.next = Got(p) /\ x.number = a.next
        /\ Got(p) \in Nat /\ SentUpTo(p) \in Nat /\ Got(p) < SentUpTo(p)
        /\ \A y \in Own(p) : y.number \in Nat /\ y.number >= Got(p)
        /\ \A i \in 2..Len(chan[r]) : chan[r][i].chunk.of = p => chan[r][i].number # Got(p)
    BY <1>1, <1>2, <2>1, <2>2, FlowHead, SMT
  <2> QED BY <2>3
<1>10. p \in Channel!Sent(r)
  BY <1>4, SentFacts
<1>11. ASSUME NEW q \in Channel!Sent(r)
       PROVE  /\ q.n < p.n => q \in ExcusedBar \/ Receipts(q) # {}
              /\ q.n > p.n => Receipts(q) = {}
  <2>1. q \in Begun /\ q.robot = r
    BY <1>11, SentFacts
  <2>2. p = Head(chan[r]).chunk.of
    BY <1>1
  <2> QED BY <1>3, <2>1, <2>2, InTurn
<1>12. BegunBar' = BegunBar /\ ExcusedBar' = ExcusedBar
  <2>1. Begun' = Begun /\ \A q : SizeOf(q)' = SizeOf(q)
    BY <1>3, SameBegun
  <2> QED BY <1>3, <2>1 DEF BegunBar, ExcusedBar
<1>13. DeliveredBar' = Append(DeliveredBar, p)
  <2>1. received \in Seq(Seq(Chunks))
    BY DEF BaseInv, MoreTypes
  <2>2. /\ Len(received) \in Nat /\ Len(received') = Len(received) + 1
        /\ \A k \in 1..Len(received) : received'[k] = received[k]
        /\ received'[Len(received) + 1] = c
    BY <1>6, <1>7, <2>1, AppendFacts
  <2>3. PICK n \in Nat : n = Len(received)
    BY <2>2
  <2>4. PICK f : f = [k \in 1..n |-> received[k][1].of]
    OBVIOUS
  <2>5. PICK g : g = [k \in 1..(n + 1) |-> received'[k][1].of]
    OBVIOUS
  <2>6. DeliveredBar = f /\ DeliveredBar' = g
    BY <2>2, <2>3, <2>4, <2>5 DEF MeaningInv
  <2>7. PICK S : S = {received[k][1].of : k \in 1..n} \cup {p}
    OBVIOUS
  <2>8. f \in Seq(S) /\ Len(f) = n
    <3>1. f \in [1..n -> S]
      BY <2>4, <2>7
    <3> QED BY <3>1, FunctionIsSequence
  <2>9. /\ Append(f, p) \in Seq(S) /\ Len(Append(f, p)) = n + 1
        /\ \A i \in 1..n : Append(f, p)[i] = f[i]
        /\ Append(f, p)[n + 1] = p
    <3>1. p \in S
      BY <2>7
    <3> QED BY <2>8, <3>1, AppendFacts
  <2>10. Append(f, p) \in [1..(n + 1) -> S]
    BY <2>9, SequenceIsFunction
  <2>11. \A i \in 1..(n + 1) : g[i] = Append(f, p)[i]
    <3>1. \A i \in 1..n : g[i] = Append(f, p)[i]
      BY <2>2, <2>3, <2>4, <2>5, <2>9
    <3>2. g[n + 1] = p
      BY <1>6, <2>2, <2>3, <2>5
    <3> QED BY <2>9, <3>1, <3>2
  <2>12. g = Append(f, p)
    BY <2>5, <2>10, <2>11
  <2> QED BY <2>6, <2>12
<1>14. \A q : (\E k \in 1..Len(DeliveredBar) : DeliveredBar[k] = q) <=> Receipts(q) # {}
  BY DeliveredFacts
<1>15. \A q : Channel!IsDelivered(q) <=> Receipts(q) # {}
  BY <1>14 DEF Channel!IsDelivered, DeliveredBar
<1>16. Channel!Deliver(p)
  BY <1>3, <1>4, <1>8, <1>9, <1>11, <1>12, <1>13, <1>15
     DEF Channel!Deliver, BegunBar, ExcusedBar, DeliveredBar
<1> QED BY <1>10, <1>16 DEF Channel!ChannelNext

\* Every step is a step of the channel, or none.
LEMMA ChannelStep ==
  BaseInv /\ TransferInv /\ FlowInv /\ MeaningInv /\ MeaningInv' /\ [Next]_vars
    => [Channel!ChannelNext]_Channel!channelVars
<1> SUFFICES ASSUME BaseInv, TransferInv, FlowInv, MeaningInv, MeaningInv', [Next]_vars
             PROVE  Channel!ChannelNext \/ UNCHANGED Channel!channelVars
  OBVIOUS
<1>1. CASE UNCHANGED <<payloads, givenUp, received, damaged>>
  BY <1>1, ChannelStutters
<1>2. ASSUME NEW r \in Robots, Receive(r)
      PROVE  Channel!ChannelNext \/ UNCHANGED Channel!channelVars
  <2>1. PICK x : x = Head(chan[r])
    OBVIOUS
  <2>2. x \in Packets /\ x.chunk.of \in Begun
    BY <1>2, <2>1, HeadFacts DEF Receive
  <2>3. UNCHANGED <<payloads, givenUp>>
    BY <1>2 DEF Receive
  <2>4. Ignored(x) \/ Refused(x) \/ Taken(x) \/ Completed(x)
    BY <1>2, <2>1, <2>2, ReceiveCases
  <2>5. CASE Ignored(x)
    BY <2>2, <2>3, <2>5, ChannelDisturb DEF Ignored
  <2>6. CASE Refused(x) \/ Taken(x)
    BY <1>1, <2>3, <2>6 DEF Refused, Taken
  <2>7. CASE Completed(x)
    BY <1>2, <2>1, <2>7, ChannelDeliver
  <2> QED BY <2>4, <2>5, <2>6, <2>7
<1>3. ASSUME NEW r \in Robots, Lose(r) \/ Duplicate(r)
      PROVE  Channel!ChannelNext
  <2>1. /\ chan[r] # << >> /\ damaged' = damaged \cup {Head(chan[r]).chunk.of}
        /\ UNCHANGED <<payloads, givenUp, received>>
    BY <1>3 DEF Lose, Duplicate
  <2> QED BY <2>1, HeadFacts, ChannelDisturb
<1>4. ASSUME NEW r \in Robots, SenderStep(r)
      PROVE  Channel!ChannelNext \/ UNCHANGED Channel!channelVars
  <2>1. CASE Begin(r)
    BY <2>1, ChannelBegin
  <2>2. CASE SendFails(r)
    BY <2>2, ChannelAbandon
  <2>3. CASE SendPacket(r) \/ Finish(r)
    BY <1>1, <2>3 DEF SendPacket, Finish
  <2> QED BY <1>4, <2>1, <2>2, <2>3 DEF SenderStep
<1>5. CASE OnBytesReceived \/ UNCHANGED vars
  BY <1>1, <1>5 DEF OnBytesReceived, vars
<1> QED BY <1>2, <1>3, <1>4, <1>5 DEF Next

\* When every host draws ids of its own and no payload is truncated by
\* sendBytes, splitting, the swarm and reassembly implement PayloadChannel:
\* payloads reach the callback whole and in the order in which their robot
\* sent them, the undisturbed ones once and without overtaking, and none after
\* its sendBytes returned false.
THEOREM TransferImplementsChannel ==
  ASSUME SharedSeed = FALSE, Untruncated
  PROVE  Spec => ImplementsChannel
<1>1. Init => Channel!ChannelInit
  <2> SUFFICES ASSUME Init PROVE Channel!ChannelInit
    OBVIOUS
  <2>1. BegunBar = [r \in Robots |-> 0]
    BY DEF Init, BegunBar
  <2>2. ExcusedBar = {}
    <3>1. Begun = {}
      <4> SUFFICES ASSUME NEW p \in Begun PROVE FALSE
        OBVIOUS
      <4>1. p \in Payload /\ p.n <= Len(payloads[p.robot])
        BY DEF Begun
      <4>2. p.robot \in Robots /\ p.n \in Nat \ {0}
        BY <4>1, PayloadFacts, ConstantFacts
      <4> QED BY <4>1, <4>2 DEF Init
    <3> QED BY <3>1 DEF Init, ExcusedBar
  <2>3. DeliveredBar = << >>
    BY DEF Init, DeliveredBar
  <2> QED BY <2>1, <2>2, <2>3 DEF Init, Channel!ChannelInit, BegunBar, ExcusedBar, DeliveredBar
<1> QED BY <1>1, BaseInit, BaseStep, TransferInit, TransferStep, FlowInit, FlowStep,
           CallsMeanPayloads, ChannelStep, PTL
        DEF Spec, ImplementsChannel, Channel!ChannelSpec
=============================================================================
