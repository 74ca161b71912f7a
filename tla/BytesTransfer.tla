--------------------------- MODULE BytesTransfer ----------------------------
(***************************************************************************)
(* Byte payloads from robot to robot: sendBytes on the sending hosts, the  *)
(* swarm's network, and on the receiving host                              *)
(* HiveMindHostApiRequestHandler with its map of BytesAccumulators.        *)
(*                                                                         *)
(* The bytes of a payload are abstracted to the chunks they travel in: a   *)
(* chunk is the part of a payload that begins at byte `start' and is `len' *)
(* bytes long.                                                             *)
(***************************************************************************)
EXTENDS Integers, Sequences, FiniteSets

CONSTANTS
  Robots,         \* sending hosts, numbers from 1
  Sizes,          \* payload sizes that are sent
  PayloadMaxSize, \* BytesDTO::PAYLOAD_MAX_SIZE
  SharedSeed,     \* do all hosts draw the same ids?  rand() is never seeded
  LateCallback,   \* may onBytesReceived be called after packets arrived?
  MaxPayloads,    \* bound: payloads each robot sends
  MaxFaults       \* bound: packets lost or duplicated, and failed pushes

ASSUME TransferAssumption ==
  /\ Robots \subseteq Nat \ {0}
  /\ Sizes \subseteq Nat /\ \A size \in Sizes : size < 65536
  /\ PayloadMaxSize \in 1..255
  /\ SharedSeed \in BOOLEAN /\ LateCallback \in BOOLEAN
  /\ MaxPayloads \in [Robots -> Nat] /\ MaxFaults \in Nat

VARIABLES
  payloads,       \* history: the payloads each robot began to send
  sending,        \* the call of sendBytes of each robot
  draws,          \* number of ids each robot has drawn
  chan,           \* packets on their way from each robot, in order
  callback,       \* is m_bytesReceivedCallback set?
  acc,            \* m_bytesAccumulatorMap
  received,       \* history: what the callback was called with
  givenUp,        \* history: payloads whose sendBytes returned false
  damaged,        \* history: payloads that lost a packet, got one twice,
                  \* were given up, or came when there was no callback
  faults          \* number of faults so far

vars == <<payloads, sending, draws, chan, callback, acc, received, givenUp, damaged, faults>>

\* A payload is named by its robot and its number there.
Payload == UNION {[robot : {r}, n : 1..MaxPayloads[r]] : r \in Robots}
SizeOf(p) == payloads[p.robot][p.n].size
IdOf(p) == payloads[p.robot][p.n].id

\* generateRandomId: the k-th id a host draws.
RandomId(r, k) == IF SharedSeed THEN <<0, k>> ELSE <<r, k>>

-----------------------------------------------------------------------------
(* sendBytes                                                               *)

\* ceil(payloadSize / PAYLOAD_MAX_SIZE)
NPackets(size) == (size + PayloadMaxSize - 1) \div PayloadMaxSize

\* Wrong variant: the packet before the last one is marked as last.
WrongIsLast(size, k) == k >= NPackets(size) - 2

IsLast(size, k) == k = NPackets(size) - 1

\* uint8_t packetSize
PacketSize(size, k) ==
  IF IsLast(size, k) THEN ((size - k * PayloadMaxSize) % PayloadMaxSize) % 256
  ELSE PayloadMaxSize

\* uint16_t packetStartIndex
PacketStart(k) == (k * PayloadMaxSize) % 65536

\* The BytesDTO of packet k of payload p.
Packet(p, k) ==
  [id     |-> IdOf(p),
   number |-> k,
   last   |-> IsLast(SizeOf(p), k),
   chunk  |-> [of |-> p, start |-> PacketStart(k), len |-> PacketSize(SizeOf(p), k)]]

Idle == [busy |-> FALSE, next |-> 0]
Current(r) == [robot |-> r, n |-> Len(payloads[r])]

\* sendBytes is called; it draws the id of the payload.
Begin(r) ==
  /\ ~sending[r].busy
  /\ Len(payloads[r]) < MaxPayloads[r]
  /\ \E size \in Sizes :
       payloads' = [payloads EXCEPT ![r] =
                      Append(@, [size |-> size, id |-> RandomId(r, draws[r] + 1)])]
  /\ draws' = [draws EXCEPT ![r] = @ + 1]
  /\ sending' = [sending EXCEPT ![r] = [busy |-> TRUE, next |-> 0]]
  /\ UNCHANGED <<chan, callback, acc, received, givenUp, damaged, faults>>

\* One turn of the loop; the request of the packet has an id of its own.
SendPacket(r) ==
  /\ sending[r].busy
  /\ sending[r].next < NPackets(SizeOf(Current(r)))
  /\ chan' = [chan EXCEPT ![r] = Append(@, Packet(Current(r), sending[r].next))]
  /\ draws' = [draws EXCEPT ![r] = @ + 1]
  /\ sending' = [sending EXCEPT ![r].next = @ + 1]
  /\ UNCHANGED <<payloads, callback, acc, received, givenUp, damaged, faults>>

\* queueAndSend returns false, the client being gone: sendBytes returns false
\* and the packets queued before stay queued.
SendFails(r) ==
  /\ sending[r].busy
  /\ sending[r].next < NPackets(SizeOf(Current(r)))
  /\ faults < MaxFaults
  /\ faults' = faults + 1
  /\ draws' = [draws EXCEPT ![r] = @ + 1]
  /\ sending' = [sending EXCEPT ![r] = Idle]
  /\ givenUp' = givenUp \cup {Current(r)}
  /\ damaged' = damaged \cup {Current(r)}
  /\ UNCHANGED <<payloads, chan, callback, acc, received>>

\* The loop is over and sendBytes returns true.
Finish(r) ==
  /\ sending[r].busy
  /\ sending[r].next >= NPackets(SizeOf(Current(r)))
  /\ sending' = [sending EXCEPT ![r] = Idle]
  /\ UNCHANGED <<payloads, draws, chan, callback, acc, received, givenUp, damaged, faults>>

-----------------------------------------------------------------------------
(* The swarm between the two bridges                                       *)

Lose(r) ==
  /\ chan[r] # << >>
  /\ faults < MaxFaults
  /\ faults' = faults + 1
  /\ chan' = [chan EXCEPT ![r] = Tail(@)]
  /\ damaged' = damaged \cup {Head(chan[r]).chunk.of}
  /\ UNCHANGED <<payloads, sending, draws, callback, acc, received, givenUp>>

Duplicate(r) ==
  /\ chan[r] # << >>
  /\ faults < MaxFaults
  /\ faults' = faults + 1
  /\ chan' = [chan EXCEPT ![r] = <<Head(@)>> \o @]
  /\ damaged' = damaged \cup {Head(chan[r]).chunk.of}
  /\ UNCHANGED <<payloads, sending, draws, callback, acc, received, givenUp>>

-----------------------------------------------------------------------------
(* handleBytes                                                             *)

\* A new BytesAccumulator: m_lastPacketNumber is 2^32 - 1, so the number it
\* expects next, modulo 2^32, is 0.
NewAccumulator == [next |-> 0, bytes |-> << >>]

AccumulatorOf(id) == IF id \in DOMAIN acc THEN acc[id] ELSE NewAccumulator

\* Wrong variants: skipped packets are tolerated; packets count from 1; the
\* number of the packet is not remembered.
LaxAccepts(a, packet) == packet.number >= a.next
WrongAccepts(a, packet) == packet.number = a.next + 1
WrongAppendBytes(a, packet) == [next |-> a.next, bytes |-> Append(a.bytes, packet.chunk)]

\* appendBytes: only the packet that follows the last one is accepted.
Accepts(a, packet) == packet.number = a.next
AppendBytes(a, packet) == [next |-> a.next + 1, bytes |-> Append(a.bytes, packet.chunk)]

\* Wrong variant: the accumulator of a complete payload is kept.
WrongErase(id) == UNCHANGED acc

Store(id, a) == acc' = [i \in DOMAIN acc \cup {id} |-> IF i = id THEN a ELSE acc[i]]
Erase(id) == acc' = [i \in DOMAIN acc \ {id} |-> acc[i]]

\* The whole of handleBytes for one packet.
HandleBytes(packet) ==
  LET a == AccumulatorOf(packet.id)
      b == AppendBytes(a, packet)
  IN \/ /\ ~callback
        /\ damaged' = damaged \cup {packet.chunk.of}
        /\ UNCHANGED <<acc, received>>
     \/ /\ callback
        /\ ~Accepts(a, packet)
        /\ Store(packet.id, a)
        /\ UNCHANGED <<received, damaged>>
     \/ /\ callback
        /\ Accepts(a, packet)
        /\ IF packet.last
           THEN received' = Append(received, b.bytes) /\ Erase(packet.id)
           ELSE Store(packet.id, b) /\ UNCHANGED received
        /\ UNCHANGED damaged

\* Wrong variant: the handled message stays in the inbound queue.
WrongReceive(r) ==
  /\ chan[r] # << >>
  /\ HandleBytes(Head(chan[r]))
  /\ UNCHANGED <<payloads, sending, draws, chan, callback, givenUp, faults>>

Receive(r) ==
  /\ chan[r] # << >>
  /\ chan' = [chan EXCEPT ![r] = Tail(@)]
  /\ HandleBytes(Head(chan[r]))
  /\ UNCHANGED <<payloads, sending, draws, callback, givenUp, faults>>

\* onBytesReceived
OnBytesReceived ==
  /\ ~callback
  /\ callback' = TRUE
  /\ UNCHANGED <<payloads, sending, draws, chan, acc, received, givenUp, damaged, faults>>

-----------------------------------------------------------------------------
Init ==
  /\ payloads = [r \in Robots |-> << >>]
  /\ sending = [r \in Robots |-> Idle]
  /\ draws = [r \in Robots |-> 0]
  /\ chan = [r \in Robots |-> << >>]
  /\ callback = ~LateCallback
  /\ acc = [i \in {} |-> NewAccumulator]
  /\ received = << >>
  /\ givenUp = {}
  /\ damaged = {}
  /\ faults = 0

SenderStep(r) == Begin(r) \/ SendPacket(r) \/ SendFails(r) \/ Finish(r)

Next ==
  \/ \E r \in Robots : SenderStep(r) \/ Lose(r) \/ Duplicate(r) \/ Receive(r)
  \/ OnBytesReceived

Spec == Init /\ [][Next]_vars

\* A started sendBytes goes on, and packets that are not lost arrive: both
\* bridges keep spinning and the connections stay up.
FairSpec ==
  /\ Spec
  /\ \A r \in Robots : /\ WF_vars(SendPacket(r) \/ Finish(r))
                       /\ WF_vars(Receive(r))

-----------------------------------------------------------------------------
(* Properties                                                              *)

Begun == {p \in Payload : p.n <= Len(payloads[p.robot])}

\* The chunks make up bytes 0..size-1 of payload p, in order, without gaps.
IsWhole(chunks, p) ==
  LET ends == [k \in 1..Len(chunks) |-> chunks[k].start + chunks[k].len]
  IN /\ chunks # << >>
     /\ \A k \in 1..Len(chunks) : chunks[k].of = p
     /\ chunks[1].start = 0
     /\ \A k \in 1..(Len(chunks) - 1) : chunks[k + 1].start = ends[k]
     /\ ends[Len(chunks)] = SizeOf(p)

Receipts(p) == {k \in 1..Len(received) : received[k][1].of = p}

\* Every variable has its type; an accumulator expects the packet that follows
\* the chunks it holds (BytesAccumulator::appendBytes).
TypeOK ==
  /\ payloads \in [Robots -> Seq([size : Sizes, id : (Robots \cup {0}) \X Nat])]
  /\ sending \in [Robots -> [busy : BOOLEAN, next : Nat]]
  /\ draws \in [Robots -> Nat]
  /\ \A r \in Robots : \A k \in 1..Len(chan[r]) : chan[r][k].chunk.of \in Begun
  /\ callback \in BOOLEAN
  /\ \A i \in DOMAIN acc : acc[i].next = Len(acc[i].bytes)
  /\ givenUp \subseteq damaged /\ damaged \subseteq Begun
  /\ faults \in 0..MaxFaults

\* "The callback only fires when the whole payload was received": every call
\* has all the bytes of one payload, whatever was lost, duplicated, given up
\* or interleaved (handleBytes, appendBytes, sendBytes).
WholePayload ==
  \A k \in 1..Len(received) : \E p \in Begun : IsWhole(received[k], p)

\* A payload that sendBytes gave up is never delivered, although its first
\* packets were queued and may have been received.
NoPartialDelivery == \A p \in givenUp : Receipts(p) = {}

\* The accumulators that outlive the traffic are those of damaged payloads:
\* an undisturbed transfer leaves nothing behind in m_bytesAccumulatorMap.
NoLeakedAccumulator ==
  (\A r \in Robots : chan[r] = << >> /\ ~sending[r].busy)
    => \A i \in DOMAIN acc : \E p \in damaged : IdOf(p) = i

\* What a call of the callback amounts to in PayloadChannel: a payload if all
\* its bytes are there, otherwise nothing the channel could deliver.
Meaning(chunks) ==
  IF IsWhole(chunks, chunks[1].of) THEN chunks[1].of ELSE [robot |-> 0, n |-> 0]

Channel == INSTANCE PayloadChannel WITH
  begun     <- [r \in Robots |-> Len(payloads[r])],
  excused   <- damaged \cup {p \in Begun : SizeOf(p) = 0},
  abandoned <- givenUp,
  delivered <- [k \in 1..Len(received) |-> Meaning(received[k])]

\* Splitting, the swarm and reassembly implement PayloadChannel: whatever is
\* lost, duplicated, given up or interleaved, payloads reach the callback
\* whole, those of one robot in the order of their sendBytes, the undisturbed
\* ones exactly once and without overtaking (sendBytes, handleBytes).
ImplementsChannel == Channel!ChannelSpec

\* Every payload that is not empty and not disturbed is eventually delivered.
EventuallyDelivered ==
  \A p \in Payload :
    (p \in Begun)
      ~> (p \in Begun => p \in damaged \/ SizeOf(p) = 0 \/ Receipts(p) # {})
=============================================================================
