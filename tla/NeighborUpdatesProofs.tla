----------------------- MODULE NeighborUpdatesProofs ------------------------
(***************************************************************************)
(* Theorems about NeighborUpdates, for every value of its constants.       *)
(***************************************************************************)
EXTENDS NeighborUpdates, SequenceFacts, TLAPS

-----------------------------------------------------------------------------
(* The inductive invariant                                                 *)

Messages == [kind : Kinds \cup {"other"}, req : Nat, position : BOOLEAN,
             expected : BOOLEAN]
Updates == [kind : Kinds, of : Nat, position : BOOLEAN]

HistoryTypes == inbound \in Seq(Messages) /\ updates \in Seq(Updates)

\* There is a greeted client whenever the two threads run, and the bridge has
\* the agent id of the last one; a greeting is awaited only within the bound.
SessionInv ==
  /\ Session \in 0..MaxSessions
  /\ spinPc = "greet" => Session < MaxSessions /\ Connected
  /\ Greeted => Session # 0
  /\ agentId = IF Session = 0 THEN 0 ELSE clients[Session]

\* What the reads of getSwarmAgentId have left in a message: the source is the
\* client of the session in which it was begun, and so is the destination,
\* once it is read, as long as no other client was greeted.
SourceInv(r) == r.composed <= Session /\ (r.composed # 0 => r.source = clients[r.composed])
DestInv(r) == (r.composed # 0 /\ r.composed = Session) => r.dest = clients[Session]

AddressInv ==
  /\ \A t \in Threads :
       /\ SourceInv(caller[t])
       /\ caller[t].pc \in {"check", "push"} => DestInv(caller[t])
  /\ \A n \in 1..Len(requests) : SourceInv(requests[n]) /\ DestInv(requests[n])
  /\ FreshlyAddressed

\* A callback that is set stays set, and a list carries no position.
InboundInv ==
  \A k \in 1..Len(inbound) :
    /\ inbound[k].expected => inbound[k].kind \in Kinds /\ callbacks[inbound[k].kind]
    /\ inbound[k].kind = "list" => ~inbound[k].position

\* The callbacks were called for messages that were popped, and while one runs
\* for the message at the front of the queue, which it has already counted.
UpdatesInv ==
  /\ \A j \in 1..Len(updates) :
       updates[j].of \in 1..(IF spinPc = "callback" THEN handled + 1 ELSE handled)
  /\ spinPc = "callback" => \E j \in 1..Len(updates) : updates[j].of = handled + 1
  /\ UpdatesOnceInOrder

IInv == TypeOK /\ HistoryTypes /\ SessionInv /\ AddressInv /\ InboundInv /\ UpdatesInv

\* Initially the invariant holds.
LEMMA InvInit == Init => IInv
<1>. SUFFICES ASSUME Init
              PROVE  IInv
  OBVIOUS
<1>1. Resting \in Calls
  BY NeighborAssumption DEF Resting, Calls, Ids
<1>2. TypeOK
  <2>1. /\ << >> \in [1..Len(<< >>) -> Service!Statuses]
        /\ << >> \in [1..Len(<< >>) -> 0..Len(<< >>)]
    OBVIOUS
  <2>2. status = << >> /\ requests = << >> /\ sentIn = << >> /\ clients = << >>
    BY DEF Init, Service!ServiceInit
  <2>3. /\ status \in [1..Len(requests) -> Service!Statuses]
        /\ sentIn \in [1..Len(requests) -> 0..Session]
    BY <2>1, <2>2 DEF Session
  <2>4. callbacks \in [Kinds -> BOOLEAN] /\ caller \in [Threads -> Calls]
    BY <1>1 DEF Init
  <2>5. /\ clients \in Seq(Agents) /\ requests \in Seq(Requests)
        /\ handled \in 0..Len(inbound) /\ agentId \in Ids
    BY DEF Init, Ids
  <2>. QED  BY <2>3, <2>4, <2>5 DEF Init, TypeOK
<1>3. HistoryTypes /\ SessionInv
  BY NeighborAssumption DEF Init, HistoryTypes, SessionInv, Session, Connected, Greeted
<1>4. AddressInv
  BY NeighborAssumption
     DEF Init, AddressInv, SourceInv, FreshlyAddressed, Resting, Session
<1>5. InboundInv /\ UpdatesInv
  BY DEF Init, InboundInv, UpdatesInv, UpdatesOnceInOrder
<1>. QED  BY <1>2, <1>3, <1>4, <1>5 DEF IInv

-----------------------------------------------------------------------------
(* What the actions do to the sequences                                    *)

\* A push extends the three histories of the accepted requests.
LEMMA PushFacts ==
  ASSUME TypeOK, SessionInv, NEW t \in Threads, QasPush(t)
  PROVE  /\ requests' \in Seq(Requests)
         /\ Len(requests) \in Nat /\ Len(requests') = Len(requests) + 1
         /\ status' \in [1..Len(requests') -> Service!Statuses]
         /\ sentIn' \in [1..Len(requests') -> 0..Session]
         /\ \A n \in 1..Len(requests) :
              requests'[n] = requests[n] /\ sentIn'[n] = sentIn[n]
         /\ sentIn'[Len(requests')] = 0
         /\ requests'[Len(requests')].source = caller[t].source
         /\ requests'[Len(requests')].dest = caller[t].dest
         /\ requests'[Len(requests')].composed = caller[t].composed
<1>1. PICK kind \in Kinds :
        requests' = Append(requests,
          [kind |-> kind, source |-> caller[t].source, dest |-> caller[t].dest,
           composed |-> caller[t].composed])
  BY DEF QasPush
<1>2. [kind |-> kind, source |-> caller[t].source, dest |-> caller[t].dest,
       composed |-> caller[t].composed] \in Requests
  BY DEF TypeOK, Calls, Requests
<1>3. requests \in Seq(Requests) /\ Len(requests) \in Nat
  BY DEF TypeOK
<1>4. /\ sentIn \in Seq(0..Session) /\ Len(sentIn) = Len(requests)
      /\ status \in Seq(Service!Statuses) /\ Len(status) = Len(requests)
  BY <1>3, FunctionIsSequence DEF TypeOK
<1>5. 0 \in 0..Session /\ "queued" \in Service!Statuses
  BY DEF SessionInv, Service!Statuses
<1>6. /\ requests' \in Seq(Requests) /\ Len(requests') = Len(requests) + 1
      /\ \A n \in 1..Len(requests) : requests'[n] = requests[n]
      /\ requests'[Len(requests) + 1]
           = [kind |-> kind, source |-> caller[t].source, dest |-> caller[t].dest,
              composed |-> caller[t].composed]
  BY <1>1, <1>2, <1>3, AppendFacts
<1>7. /\ sentIn' \in Seq(0..Session) /\ Len(sentIn') = Len(requests) + 1
      /\ \A n \in 1..Len(requests) : sentIn'[n] = sentIn[n]
      /\ sentIn'[Len(requests) + 1] = 0
  <2>1. sentIn' = Append(sentIn, 0)
    BY DEF QasPush
  <2>. QED  BY <2>1, <1>4, <1>5, AppendFacts
<1>8. status' \in Seq(Service!Statuses) /\ Len(status') = Len(requests) + 1
  BY <1>4, <1>5, AppendFacts DEF QasPush, Service!Accept
<1>9. /\ sentIn' \in [1..Len(requests') -> 0..Session]
      /\ status' \in [1..Len(requests') -> Service!Statuses]
  BY <1>6, <1>7, <1>8, SequenceIsFunction
<1>. QED  BY <1>3, <1>6, <1>7, <1>9

\* A message that arrives extends the inbound history.
LEMMA ArrivalFacts ==
  ASSUME TypeOK, HistoryTypes, NEW kind \in Kinds \cup {"other"}, NEW n \in Nat,
         NEW position \in BOOLEAN, Arrives(kind, n, position)
  PROVE  /\ inbound' \in Seq(Messages)
         /\ Len(inbound) \in Nat /\ Len(inbound') = Len(inbound) + 1
         /\ \A k \in 1..Len(inbound) : inbound'[k] = inbound[k]
         /\ inbound'[Len(inbound')].kind = kind
         /\ inbound'[Len(inbound')].position = position
         /\ inbound'[Len(inbound')].expected = (kind \in Kinds /\ callbacks[kind])
<1>. DEFINE m == [kind |-> kind, req |-> n, position |-> position,
                  expected |-> kind \in Kinds /\ callbacks[kind]]
<1>1. m \in Messages
  BY DEF Messages
<1>2. inbound \in Seq(Messages) /\ inbound' = Append(inbound, m)
  BY DEF HistoryTypes, Arrives
<1>3. /\ inbound' \in Seq(Messages)
      /\ Len(inbound) \in Nat /\ Len(inbound') = Len(inbound) + 1
      /\ \A k \in 1..Len(inbound) : inbound'[k] = inbound[k]
      /\ inbound'[Len(inbound) + 1] = m
  BY <1>1, <1>2, AppendFacts
<1>4. inbound'[Len(inbound')] = m
  BY <1>3
<1>. QED  BY <1>3, <1>4

\* An answer or an unsolicited message is an arrival, and a list has no
\* position.
LEMMA PeerArrives ==
  ASSUME TypeOK, PeerOther \/ \E n \in 1..MaxMessages : About(n) /\ PeerAnswer(n)
  PROVE  \E kind \in Kinds \cup {"other"}, m \in Nat, position \in BOOLEAN :
           (kind = "list" => ~position) /\ Arrives(kind, m, position)
<1>1. ASSUME NEW n \in 1..MaxMessages, About(n), PeerAnswer(n)
      PROVE  \E kind \in Kinds \cup {"other"}, m \in Nat, position \in BOOLEAN :
               (kind = "list" => ~position) /\ Arrives(kind, m, position)
  <2>1. requests[n] \in Requests /\ n \in Nat
    BY <1>1, ElementFacts DEF TypeOK, About
  <2>2. requests[n].kind \in Kinds
    BY <2>1 DEF Requests
  <2>. QED  BY <1>1, <2>1, <2>2 DEF PeerAnswer
<1>2. CASE PeerOther
  <2>1. 0 \in Nat /\ FALSE \in BOOLEAN /\ "neighbor" \in Kinds
    BY DEF Kinds
  <2>. QED  BY <1>2, <2>1 DEF PeerOther
<1>. QED  BY <1>1, <1>2

\* A callback that is called extends the history of the updates.
LEMMA CallFacts ==
  ASSUME HistoryTypes, NEW k \in 1..Len(inbound), inbound[k].kind \in Kinds,
         NEW position \in BOOLEAN, Call(k, position)
  PROVE  /\ updates' \in Seq(Updates)
         /\ Len(updates) \in Nat /\ Len(updates') = Len(updates) + 1
         /\ \A j \in 1..Len(updates) : updates'[j] = updates[j]
         /\ updates'[Len(updates')]
              = [kind |-> inbound[k].kind, of |-> k, position |-> position]
<1>1. [kind |-> inbound[k].kind, of |-> k, position |-> position] \in Updates
  BY DEF HistoryTypes, Updates
<1>. QED  BY <1>1, AppendFacts DEF HistoryTypes, Call

\* The greeting extends the history of the clients.
LEMMA GreetFacts ==
  ASSUME TypeOK, SessionInv, Greet
  PROVE  /\ clients' \in Seq(Agents)
         /\ Session \in Nat /\ Session' = Session + 1
         /\ \A i \in 1..Session : clients'[i] = clients[i]
         /\ agentId' = clients'[Session'] /\ agentId' \in Agents
<1>1. PICK id \in Agents : agentId' = id /\ clients' = Append(clients, id)
  BY DEF Greet, AgentId
<1>2. clients \in Seq(Agents)
  BY DEF TypeOK
<1>. QED  BY <1>1, <1>2, AppendFacts DEF Session

-----------------------------------------------------------------------------
(* The steps, one lemma for each part of the invariant                     *)

\* Next, without its guard, in the groups of actions the lemmas go through.
LEMMA NextCases ==
  ASSUME Next
  PROVE  \/ \E t \in Threads : ReadSource(t) \/ ReadDest(t) \/ QasCheck(t)
         \/ \E t \in Threads : QasPush(t)
         \/ \E n \in 1..MaxMessages : About(n) /\ Transmit(n)
         \/ \E n \in 1..MaxMessages : About(n) /\ Drop(n)
         \/ \E n \in 1..MaxMessages : About(n) /\ SendCrash(n)
         \/ \E n \in 1..MaxMessages : About(n) /\ PeerAnswer(n)
         \/ PeerOther
         \/ PeerClose \/ NoticeClose
         \/ \E k \in Kinds : OnUpdated(k)
         \/ HandleMessage
         \/ CallbackEnd
         \/ Listen \/ GreetFails
         \/ Greet
BY DEF Next, Calling

\* Every message that is pushed by the inbound thread, at once.
LEMMA ArrivalCases ==
  ASSUME TypeOK, HistoryTypes,
         PeerOther \/ \E n \in 1..MaxMessages : About(n) /\ PeerAnswer(n)
  PROVE  /\ UNCHANGED <<connVars, caller, outVars, spinVars, callbacks, crashed>>
         /\ \E kind \in Kinds \cup {"other"}, position \in BOOLEAN :
              /\ kind = "list" => ~position
              /\ inbound' \in Seq(Messages)
              /\ Len(inbound) \in Nat /\ Len(inbound') = Len(inbound) + 1
              /\ \A k \in 1..Len(inbound) : inbound'[k] = inbound[k]
              /\ inbound'[Len(inbound')].kind = kind
              /\ inbound'[Len(inbound')].position = position
              /\ inbound'[Len(inbound')].expected = (kind \in Kinds /\ callbacks[kind])
<1>1. PICK kind \in Kinds \cup {"other"}, m \in Nat, position \in BOOLEAN :
        (kind = "list" => ~position) /\ Arrives(kind, m, position)
  BY PeerArrives
<1>2. UNCHANGED <<connVars, caller, outVars, spinVars, callbacks, crashed>>
  BY DEF PeerOther, PeerAnswer
<1>. QED  BY <1>1, <1>2, ArrivalFacts

\* A message is handled by calling its callback, or by popping it.
LEMMA HandleCases ==
  ASSUME TypeOK, HistoryTypes, InboundInv, HandleMessage
  PROVE  /\ UNCHANGED <<connVars, caller, outVars, inbound, callbacks, crashed>>
         /\ spinPc = "idle"
         /\ handled + 1 \in 1..Len(inbound)
         /\ \/ /\ inbound[handled + 1].kind \in Kinds
               /\ Call(handled + 1, inbound[handled + 1].position)
            \/ /\ Ignore
               /\ ~inbound[handled + 1].expected
<1>1. handled + 1 \in 1..Len(inbound)
  BY DEF TypeOK, HistoryTypes, HandleMessage, Pending
<1>2. inbound[handled + 1] \in Messages
  BY <1>1, ElementFacts DEF HistoryTypes
<1>. DEFINE m == inbound[handled + 1]
<1>3. /\ m.position \in BOOLEAN
      /\ m.expected => m.kind \in Kinds /\ callbacks[m.kind]
      /\ m.kind = "list" => ~m.position
  BY <1>1, <1>2 DEF InboundInv, Messages
<1>. DEFINE Handled == \/ m.kind \in Kinds /\ Call(handled + 1, m.position)
                       \/ Ignore /\ ~m.expected
<1>4. ASSUME HandleNeighborList(handled + 1)
      PROVE  Handled
  <2>1. m.kind = "list" /\ m.position = FALSE /\ m.kind \in Kinds
    BY <1>3, <1>4 DEF HandleNeighborList, Kinds
  <2>2. CASE callbacks["list"]
    BY <1>4, <2>1, <2>2 DEF HandleNeighborList
  <2>3. CASE ~callbacks["list"]
    BY <1>3, <1>4, <2>1, <2>3 DEF HandleNeighborList
  <2>. QED  BY <2>2, <2>3
<1>5. ASSUME HandleNeighbor(handled + 1)
      PROVE  Handled
  <2>1. m.kind = "neighbor" /\ m.kind \in Kinds
    BY <1>5 DEF HandleNeighbor, Kinds
  <2>2. CASE callbacks["neighbor"]
    BY <1>5, <2>1, <2>2 DEF HandleNeighbor
  <2>3. CASE ~callbacks["neighbor"]
    BY <1>3, <1>5, <2>1, <2>3 DEF HandleNeighbor
  <2>. QED  BY <2>2, <2>3
<1>6. ASSUME HandleOther(handled + 1)
      PROVE  Handled
  BY <1>3, <1>6 DEF HandleOther
<1>7. Handled
  BY <1>4, <1>5, <1>6 DEF HandleMessage
<1>. QED  BY <1>1, <1>7 DEF HandleMessage, SpinBegins

\* The steps keep the types.
LEMMA TypeStep ==
  ASSUME TypeOK, HistoryTypes, SessionInv, InboundInv, Next
  PROVE  TypeOK' /\ HistoryTypes'
<1>. USE DEF TypeOK, HistoryTypes, outVars, spinVars, connVars
<1>0. Resting \in Calls
  BY NeighborAssumption DEF Resting, Calls, Ids
<1>1. CASE \E t \in Threads : ReadSource(t) \/ ReadDest(t) \/ QasCheck(t)
  <2>1. PICK t \in Threads : ReadSource(t) \/ ReadDest(t) \/ QasCheck(t)
    BY <1>1
  <2>2. caller[t] \in Calls
    OBVIOUS
  <2>3. ReadSource(t) => caller' \in [Threads -> Calls]
    <3>1. 0 \in 0..MaxSessions /\ Session \in 0..MaxSessions /\ 0 \in Ids
      BY NeighborAssumption DEF SessionInv, Ids
    <3>2. [pc |-> "dest", source |-> agentId, dest |-> 0,
           composed |-> IF Greeted THEN Session ELSE 0] \in Calls
      BY <3>1 DEF Calls
    <3>. QED  BY <3>2 DEF ReadSource
  <2>4. ReadDest(t) => caller' \in [Threads -> Calls]
    <3>1. [caller[t] EXCEPT !.pc = "check", !.dest = agentId] \in Calls
      BY <2>2 DEF Calls
    <3>. QED  BY <3>1 DEF ReadDest
  <2>5. QasCheck(t) => caller' \in [Threads -> Calls]
    <3>1. [caller[t] EXCEPT !.pc = "push"] \in Calls
      BY <2>2 DEF Calls
    <3>. QED  BY <1>0, <3>1 DEF QasCheck
  <2>. QED  BY <2>1, <2>3, <2>4, <2>5 DEF ReadSource, ReadDest, QasCheck, Session
<1>2. CASE \E t \in Threads : QasPush(t)
  <2>1. PICK t \in Threads : QasPush(t)
    BY <1>2
  <2>2. caller' \in [Threads -> Calls]
    BY <1>0, <2>1 DEF QasPush
  <2>. QED  BY <2>1, <2>2, PushFacts DEF QasPush, Session
<1>3. CASE \E n \in 1..MaxMessages : About(n) /\ Transmit(n)
  <2>1. PICK n \in 1..MaxMessages : About(n) /\ Transmit(n)
    BY <1>3
  <2>2. status' \in [1..Len(requests) -> Service!Statuses]
    BY <2>1 DEF About, Transmit, Service!Process, Service!Statuses
  <2>3. sentIn' \in [1..Len(requests) -> 0..Session]
    BY <2>1 DEF About, Transmit, SessionInv
  <2>. QED  BY <2>1, <2>2, <2>3 DEF Transmit, Session
<1>4. CASE \E n \in 1..MaxMessages : About(n) /\ Drop(n)
  BY <1>4 DEF About, Drop, Service!Close, Service!Statuses, Session
<1>5. CASE \E n \in 1..MaxMessages : About(n) /\ SendCrash(n)
  BY <1>5 DEF SendCrash, Session
<1>6. CASE PeerOther \/ \E n \in 1..MaxMessages : About(n) /\ PeerAnswer(n)
  BY <1>6, ArrivalCases DEF Session
<1>7. CASE PeerClose \/ NoticeClose \/ Listen \/ GreetFails
  BY <1>7 DEF PeerClose, NoticeClose, Listen, GreetFails, Session
<1>8. CASE \E k \in Kinds : OnUpdated(k)
  BY <1>8 DEF OnUpdated, Session
<1>9. CASE HandleMessage
  <2>1. inbound[handled + 1] \in Messages /\ handled + 1 \in 0..Len(inbound)
    BY <1>9, HandleCases
  <2>2. inbound[handled + 1].position \in BOOLEAN
    BY <2>1 DEF Messages
  <2>3. CASE /\ inbound[handled + 1].kind \in Kinds
             /\ Call(handled + 1, inbound[handled + 1].position)
    BY <1>9, <2>1, <2>2, <2>3, HandleCases, CallFacts DEF Call, Session
  <2>4. CASE Ignore
    BY <1>9, <2>1, <2>4, HandleCases DEF Ignore, Session
  <2>. QED  BY <1>9, <2>3, <2>4, HandleCases
<1>10. CASE CallbackEnd
  BY <1>10 DEF CallbackEnd, Popped, Session
<1>11. CASE Greet
  <2>1. agentId' \in Ids /\ clients' \in Seq(Agents)
    BY <1>11, GreetFacts DEF Ids
  <2>2. 0..Session \subseteq 0..Session'
    BY <1>11, GreetFacts
  <2>3. sentIn' \in [1..Len(requests') -> 0..Session']
    BY <1>11, <2>2 DEF Greet
  <2>. QED  BY <1>11, <2>1, <2>3 DEF Greet
<1>. QED
  BY <1>1, <1>2, <1>3, <1>4, <1>5, <1>6, <1>7, <1>8, <1>9, <1>10, <1>11, NextCases

\* Only spin() changes what is known of the client.
LEMMA SessionStep ==
  ASSUME TypeOK, HistoryTypes, SessionInv, InboundInv, Next
  PROVE  SessionInv'
<1>. USE DEF SessionInv, Session, Greeted, Connected
<1>1. CASE UNCHANGED <<connVars, spinPc>>
  BY <1>1 DEF connVars
<1>2. CASE \/ \E t \in Threads : ReadSource(t) \/ ReadDest(t) \/ QasCheck(t) \/ QasPush(t)
           \/ \E n \in 1..MaxMessages :
                About(n) /\ (Transmit(n) \/ Drop(n) \/ SendCrash(n) \/ PeerAnswer(n))
           \/ PeerOther
           \/ \E k \in Kinds : OnUpdated(k)
  BY <1>1, <1>2
     DEF ReadSource, ReadDest, QasCheck, QasPush, Transmit, Drop, SendCrash, PeerAnswer,
         PeerOther, OnUpdated, spinVars
<1>3. CASE PeerClose \/ NoticeClose \/ Listen \/ GreetFails
  BY <1>3 DEF PeerClose, NoticeClose, Listen, GreetFails, SpinBegins, spinVars
<1>4. CASE HandleMessage
  BY <1>4, HandleCases DEF Call, Ignore, connVars
<1>5. CASE CallbackEnd
  BY <1>5 DEF CallbackEnd, connVars
<1>6. CASE Greet
  <2>1. Session' = Session + 1 /\ Session \in Nat /\ agentId' = clients'[Session']
    BY <1>6, GreetFacts
  <2>. QED  BY <1>6, <2>1, NeighborAssumption DEF Greet
<1>. QED  BY <1>2, <1>3, <1>4, <1>5, <1>6, NextCases

\* Without a greeting and without a push, what the requests say of their
\* client stays true.
LEMMA AddressKept ==
  ASSUME TypeOK, AddressInv, UNCHANGED <<clients, caller, requests, sentIn>>
  PROVE  AddressInv'
BY DEF AddressInv, SourceInv, DestInv, FreshlyAddressed, Session

\* The two reads, the push, the transmission and the greeting, which is the
\* only step that makes the ids in a message stale.
LEMMA AddressStep ==
  ASSUME TypeOK, HistoryTypes, SessionInv, AddressInv, InboundInv, Next
  PROVE  AddressInv'
<1>. USE DEF AddressInv
<1>1. ASSUME NEW t \in Threads, ReadSource(t) \/ ReadDest(t) \/ QasCheck(t)
      PROVE  AddressInv'
  <2>1. UNCHANGED <<clients, agentId, requests, sentIn>>
    BY <1>1 DEF ReadSource, ReadDest, QasCheck, connVars, outVars
  <2>2. SourceInv(caller[t])' /\ (caller'[t].pc \in {"check", "push"} => DestInv(caller[t])')
    <3>1. CASE ReadSource(t)
      <4>1. caller'[t] = [pc |-> "dest", source |-> agentId, dest |-> 0,
                          composed |-> IF Greeted THEN Session ELSE 0]
        BY <3>1 DEF ReadSource, TypeOK
      <4>. QED  BY <2>1, <4>1 DEF SourceInv, SessionInv, Session
    <3>2. CASE ReadDest(t)
      <4>1. caller'[t] = [caller[t] EXCEPT !.pc = "check", !.dest = agentId]
        BY <3>2 DEF ReadDest, TypeOK
      <4>2. caller[t] \in Calls
        BY DEF TypeOK
      <4>3. /\ caller'[t].composed = caller[t].composed
            /\ caller'[t].source = caller[t].source
            /\ caller'[t].dest = agentId
        BY <4>1, <4>2 DEF Calls
      <4>. QED  BY <2>1, <4>3 DEF SourceInv, DestInv, SessionInv, Session
    <3>3. CASE QasCheck(t)
      <4>1. caller'[t] = IF Connected THEN [caller[t] EXCEPT !.pc = "push"] ELSE Resting
        BY <3>3 DEF QasCheck, TypeOK
      <4>2. caller[t] \in Calls /\ caller[t].pc = "check"
        BY <3>3 DEF TypeOK, QasCheck
      <4>3. \/ /\ caller'[t].composed = caller[t].composed
               /\ caller'[t].source = caller[t].source
               /\ caller'[t].dest = caller[t].dest
            \/ caller'[t].composed = 0
        BY <4>1, <4>2 DEF Calls, Resting
      <4>. QED  BY <2>1, <4>2, <4>3 DEF SourceInv, DestInv, SessionInv, Session
    <3>. QED  BY <1>1, <3>1, <3>2, <3>3
  <2>3. \A u \in Threads \ {t} : caller'[u] = caller[u]
    BY <1>1 DEF ReadSource, ReadDest, QasCheck, TypeOK
  <2>. QED  BY <2>1, <2>2, <2>3 DEF SourceInv, DestInv, FreshlyAddressed, Session
<1>2. ASSUME NEW t \in Threads, QasPush(t)
      PROVE  AddressInv'
  <2>1. UNCHANGED <<clients, agentId>> /\ caller[t].pc = "push"
    BY <1>2 DEF QasPush, connVars
  <2>2. caller'[t] = Resting /\ \A u \in Threads \ {t} : caller'[u] = caller[u]
    BY <1>2 DEF QasPush, TypeOK
  <2>3. \A u \in Threads :
          /\ SourceInv(caller[u])'
          /\ caller'[u].pc \in {"check", "push"} => DestInv(caller[u])'
    BY <2>1, <2>2 DEF SourceInv, DestInv, Session, SessionInv, Resting
  <2>4. \A n \in 1..Len(requests') : SourceInv(requests[n])' /\ DestInv(requests[n])'
    <3>. SUFFICES ASSUME NEW n \in 1..Len(requests')
                  PROVE  SourceInv(requests[n])' /\ DestInv(requests[n])'
      OBVIOUS
    <3>1. CASE n \in 1..Len(requests)
      BY <1>2, <2>1, <3>1, PushFacts DEF SourceInv, DestInv, Session
    <3>2. CASE n = Len(requests')
      BY <1>2, <2>1, <3>2, PushFacts DEF SourceInv, DestInv, Session
    <3>. QED  BY <1>2, <3>1, <3>2, PushFacts
  <2>5. FreshlyAddressed'
    <3>. SUFFICES ASSUME NEW n \in 1..Len(requests'), sentIn'[n] # 0,
                         sentIn'[n] = requests'[n].composed
                  PROVE  /\ requests'[n].source = clients[sentIn'[n]]
                         /\ requests'[n].dest = clients[sentIn'[n]]
      BY <2>1 DEF FreshlyAddressed
    <3>1. n \in 1..Len(requests) /\ sentIn'[n] = sentIn[n] /\ requests'[n] = requests[n]
      BY <1>2, PushFacts
    <3>. QED  BY <3>1 DEF FreshlyAddressed
  <2>. QED  BY <2>3, <2>4, <2>5
<1>3. ASSUME NEW n \in 1..MaxMessages, About(n), Transmit(n)
      PROVE  AddressInv'
  <2>1. UNCHANGED <<clients, caller, requests>>
    BY <1>3 DEF Transmit, connVars
  <2>2. \A k \in 1..Len(requests) :
          sentIn'[k] = IF k # n THEN sentIn[k] ELSE IF link = "up" THEN Session ELSE 0
    BY <1>3 DEF Transmit, TypeOK
  <2>3. FreshlyAddressed'
    <3>. SUFFICES ASSUME NEW k \in 1..Len(requests), sentIn'[k] # 0,
                         sentIn'[k] = requests[k].composed
                  PROVE  /\ requests[k].source = clients[sentIn'[k]]
                         /\ requests[k].dest = clients[sentIn'[k]]
      BY <2>1 DEF FreshlyAddressed
    <3>1. CASE sentIn'[k] = sentIn[k]
      BY <3>1 DEF FreshlyAddressed
    <3>2. CASE sentIn'[k] = Session
      BY <3>2 DEF SourceInv, DestInv
    <3>. QED  BY <2>2, <3>1, <3>2
  <2>. QED  BY <2>1, <2>3 DEF SourceInv, DestInv, Session
<1>4. CASE Greet
  <2>1. UNCHANGED <<caller, requests, sentIn>>
    BY <1>4 DEF Greet, outVars
  <2>2. /\ Session \in Nat /\ Session' = Session + 1
        /\ \A i \in 1..Session : clients'[i] = clients[i]
    BY <1>4, GreetFacts
  <2>3. ASSUME NEW r, r.composed \in Nat, SourceInv(r)
        PROVE  /\ r.composed <= Session' /\ r.composed # Session'
               /\ r.composed # 0 => r.source = clients'[r.composed]
    BY <2>2, <2>3 DEF SourceInv
  <2>4. \A t \in Threads : SourceInv(caller[t])' /\ DestInv(caller[t])'
    <3>1. \A t \in Threads : caller[t].composed \in Nat
      BY DEF TypeOK, Calls
    <3>. QED  BY <2>1, <2>3, <3>1 DEF SourceInv, DestInv
  <2>5. \A n \in 1..Len(requests) : SourceInv(requests[n])' /\ DestInv(requests[n])'
    <3>0. \A n \in 1..Len(requests) : requests[n] \in Requests
      BY ElementFacts DEF TypeOK
    <3>1. \A n \in 1..Len(requests) : requests[n].composed \in Nat
      BY <3>0 DEF Requests
    <3>. QED  BY <2>1, <2>3, <3>1 DEF SourceInv, DestInv
  <2>6. FreshlyAddressed'
    <3>1. \A n \in 1..Len(requests) : sentIn[n] \in 0..Session
      BY DEF TypeOK
    <3>2. \A n \in 1..Len(requests) :
            sentIn[n] # 0 => clients'[sentIn[n]] = clients[sentIn[n]]
      BY <2>2, <3>1
    <3>. QED  BY <2>1, <3>2 DEF FreshlyAddressed
  <2>. QED  BY <2>1, <2>4, <2>5, <2>6
<1>5. CASE \/ \E n \in 1..MaxMessages :
                About(n) /\ (Drop(n) \/ SendCrash(n) \/ PeerAnswer(n))
           \/ PeerOther \/ PeerClose \/ NoticeClose \/ CallbackEnd \/ Listen \/ GreetFails
           \/ \E k \in Kinds : OnUpdated(k)
           \/ HandleMessage
  BY <1>5, AddressKept
     DEF Drop, SendCrash, PeerAnswer, PeerOther, PeerClose, NoticeClose, CallbackEnd,
         Listen, GreetFails, OnUpdated, HandleMessage, connVars, outVars
<1>. QED  BY <1>1, <1>2, <1>3, <1>4, <1>5, NextCases

\* A message keeps what its callback was when it arrived.
LEMMA InboundStep ==
  ASSUME TypeOK, HistoryTypes, InboundInv, Next
  PROVE  InboundInv'
<1>1. CASE PeerOther \/ \E n \in 1..MaxMessages : About(n) /\ PeerAnswer(n)
  <2>1. PICK kind \in Kinds \cup {"other"}, position \in BOOLEAN :
          /\ kind = "list" => ~position
          /\ Len(inbound) \in Nat /\ Len(inbound') = Len(inbound) + 1
          /\ \A k \in 1..Len(inbound) : inbound'[k] = inbound[k]
          /\ inbound'[Len(inbound')].kind = kind
          /\ inbound'[Len(inbound')].position = position
          /\ inbound'[Len(inbound')].expected = (kind \in Kinds /\ callbacks[kind])
    BY <1>1, ArrivalCases
  <2>2. callbacks' = callbacks
    BY <1>1, ArrivalCases
  <2>3. \A k \in 1..Len(inbound') : k \in 1..Len(inbound) \/ k = Len(inbound')
    BY <2>1
  <2>. QED  BY <2>1, <2>2, <2>3 DEF InboundInv
<1>2. ASSUME NEW kind \in Kinds, OnUpdated(kind)
      PROVE  InboundInv'
  <2>1. inbound' = inbound /\ \A k \in Kinds : callbacks[k] => callbacks'[k]
    BY <1>2 DEF OnUpdated, TypeOK
  <2>. QED  BY <2>1 DEF InboundInv
<1>3. CASE UNCHANGED <<inbound, callbacks>>
  BY <1>3 DEF InboundInv
<1>4. CASE \/ \E t \in Threads : ReadSource(t) \/ ReadDest(t) \/ QasCheck(t) \/ QasPush(t)
           \/ \E n \in 1..MaxMessages : About(n) /\ (Transmit(n) \/ Drop(n) \/ SendCrash(n))
           \/ PeerClose \/ NoticeClose \/ HandleMessage \/ CallbackEnd
           \/ Listen \/ GreetFails \/ Greet
  BY <1>3, <1>4
     DEF ReadSource, ReadDest, QasCheck, QasPush, Transmit, Drop, SendCrash, PeerClose,
         NoticeClose, HandleMessage, CallbackEnd, Listen, GreetFails, Greet
<1>. QED  BY <1>1, <1>2, <1>4, NextCases

\* A callback is called for the message at the front, which is popped when the
\* callback returns, and for no other.
LEMMA UpdatesStep ==
  ASSUME TypeOK, HistoryTypes, InboundInv, UpdatesInv, Next
  PROVE  UpdatesInv'
<1>. USE DEF UpdatesInv, UpdatesOnceInOrder
<1>t. handled \in Nat /\ Len(inbound) \in Nat /\ handled <= Len(inbound) /\ Len(updates) \in Nat
  BY DEF TypeOK, HistoryTypes
<1>1. CASE UNCHANGED <<inbound, handled, updates>> /\ spinPc # "callback" /\ spinPc' # "callback"
  BY <1>1
<1>2. CASE UNCHANGED <<inbound, handled, updates, spinPc>>
  BY <1>2
<1>3. CASE \/ \E t \in Threads : ReadSource(t) \/ ReadDest(t) \/ QasCheck(t) \/ QasPush(t)
           \/ \E n \in 1..MaxMessages : About(n) /\ (Transmit(n) \/ Drop(n) \/ SendCrash(n))
           \/ PeerClose \/ NoticeClose
           \/ \E k \in Kinds : OnUpdated(k)
  BY <1>2, <1>3
     DEF ReadSource, ReadDest, QasCheck, QasPush, Transmit, Drop, SendCrash, PeerClose,
         NoticeClose, OnUpdated, spinVars
<1>4. CASE Listen \/ GreetFails \/ Greet
  BY <1>1, <1>4 DEF Listen, GreetFails, Greet, SpinBegins
<1>5. CASE PeerOther \/ \E n \in 1..MaxMessages : About(n) /\ PeerAnswer(n)
  <2>1. /\ Len(inbound') = Len(inbound) + 1
        /\ \A k \in 1..Len(inbound) : inbound'[k] = inbound[k]
        /\ UNCHANGED <<handled, updates, spinPc>>
    BY <1>5, ArrivalCases DEF spinVars
  <2>2. \A j \in 1..Len(updates) : updates[j].of \in 1..Len(inbound)
    BY <1>t DEF TypeOK
  <2>3. \A k \in 1..handled : inbound'[k] = inbound[k]
    BY <1>t, <2>1
  <2>. QED  BY <2>1, <2>2, <2>3
<1>6. CASE HandleMessage /\ Ignore
  <2>1. /\ handled' = handled + 1 /\ UNCHANGED <<inbound, updates, spinPc>>
        /\ spinPc = "idle" /\ ~inbound[handled + 1].expected
    <3>1. spinPc = "idle" /\ inbound' = inbound
      BY <1>6, HandleCases
    <3>2. spinPc' = spinPc
      BY <1>6 DEF Ignore
    <3>. QED  BY <1>6, <3>1, <3>2, HandleCases DEF Ignore, Call
  <2>. QED  BY <1>t, <2>1
<1>7. CASE /\ HandleMessage /\ inbound[handled + 1].kind \in Kinds
           /\ Call(handled + 1, inbound[handled + 1].position)
  <2>1. /\ UNCHANGED <<inbound, handled>> /\ spinPc = "idle" /\ spinPc' = "callback"
        /\ handled + 1 \in 1..Len(inbound)
    BY <1>7, HandleCases DEF Call
  <2>0. inbound[handled + 1] \in Messages
    BY <2>1, ElementFacts DEF HistoryTypes
  <2>2. inbound[handled + 1].position \in BOOLEAN
    BY <2>0 DEF Messages
  <2>3. /\ Len(updates') = Len(updates) + 1
        /\ \A j \in 1..Len(updates) : updates'[j] = updates[j]
        /\ updates'[Len(updates')]
             = [kind |-> inbound[handled + 1].kind, of |-> handled + 1,
                position |-> inbound[handled + 1].position]
    BY <1>7, <2>1, <2>2, CallFacts
  <2>4. \A j \in 1..Len(updates') : j \in 1..Len(updates) \/ j = Len(updates')
    BY <1>t, <2>3
  <2>5. /\ \A j \in 1..Len(updates') : updates'[j].of \in 1..(handled + 1)
        /\ \E j \in 1..Len(updates') : updates'[j].of = handled + 1
    BY <1>t, <2>1, <2>3, <2>4
  <2>6. \A i, j \in 1..Len(updates') : i < j => updates'[i].of < updates'[j].of
    BY <1>t, <2>1, <2>3, <2>4
  <2>7. \A j \in 1..Len(updates') :
          /\ updates'[j].kind = inbound[updates'[j].of].kind
          /\ updates'[j].position = inbound[updates'[j].of].position
    BY <1>t, <2>1, <2>3, <2>4
  <2>8. \A k \in 1..handled :
          inbound[k].expected => \E j \in 1..Len(updates') : updates'[j].of = k
    BY <1>t, <2>3
  <2>. QED  BY <2>1, <2>5, <2>6, <2>7, <2>8
<1>8. CASE CallbackEnd
  <2>1. /\ UNCHANGED <<inbound, updates>> /\ handled' = handled + 1
        /\ spinPc = "callback" /\ spinPc' = "idle"
    BY <1>8 DEF CallbackEnd, Popped
  <2>. QED  BY <1>t, <2>1
<1>. QED  BY <1>3, <1>4, <1>5, <1>6, <1>7, <1>8, NextCases, HandleCases

\* The invariant is inductive.
LEMMA InvStep == IInv /\ [Next]_vars => IInv'
<1>. SUFFICES ASSUME IInv, [Next]_vars
              PROVE  IInv'
  OBVIOUS
<1>1. CASE Next
  BY <1>1, TypeStep, SessionStep, AddressStep, InboundStep, UpdatesStep DEF IInv
<1>2. CASE UNCHANGED vars
  <2>1. TypeOK' /\ HistoryTypes' /\ SessionInv'
    BY <1>2 DEF IInv, vars, connVars, outVars, spinVars, TypeOK, HistoryTypes, SessionInv,
                Session, Greeted, Connected
  <2>2. AddressInv'
    BY <1>2, AddressKept DEF IInv, vars, connVars, outVars
  <2>3. InboundInv' /\ UpdatesInv'
    BY <1>2 DEF IInv, vars, spinVars, InboundInv, UpdatesInv, UpdatesOnceInOrder
  <2>. QED  BY <2>1, <2>2, <2>3 DEF IInv
<1>. QED  BY <1>1, <1>2

-----------------------------------------------------------------------------
(* The theorems                                                            *)

\* Type correctness; in particular spin() pops and reads only messages that
\* were pushed (spin, lines 42 to 44), however many sessions there are.
THEOREM NeighborTypeCorrect == Spec => []TypeOK
<1>1. IInv => TypeOK
  BY DEF IInv
<1>. QED  BY <1>1, InvInit, InvStep, PTL DEF Spec

\* For any number of threads, requests and connections: a neighbour request
\* that was begun while a client was greeted and that reaches a client on the
\* same connection carries that client's agent id twice, although the two
\* reads of getSwarmAgentId and the push are separate steps that race with
\* greet and with the other callers.
THEOREM AddressedAfresh == Spec => []FreshlyAddressed
<1>1. IInv => FreshlyAddressed
  BY DEF IInv, AddressInv
<1>. QED  BY <1>1, InvInit, InvStep, PTL DEF Spec

\* For any number of messages and connections: the two callbacks of
\* HiveMindHostApiResponseHandler see each message once and in order, with
\* what it carried, and none is popped without the callback it expects.
THEOREM CalledOnceInOrder == Spec => []UpdatesOnceInOrder
<1>1. IInv => UpdatesOnceInOrder
  BY DEF IInv, UpdatesInv
<1>. QED  BY <1>1, InvInit, InvStep, PTL DEF Spec
=============================================================================
