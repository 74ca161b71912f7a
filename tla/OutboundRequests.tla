-------------------------- MODULE OutboundRequests --------------------------
(***************************************************************************)
(* The outbound path of HiveMindBridgeImpl: queueAndSend, the outbound     *)
(* queue and its thread, the map of inbound responses, and the part of     *)
(* spin() that feeds the map, reconnects and queues the keep-alive.        *)
(*                                                                         *)
(* Four kinds of threads share this state: application threads that call   *)
(* queueAndSend (Callers), the thread that calls spin() in a loop, the     *)
(* outbound thread and the inbound thread (only its effects: a received    *)
(* message, the end of the connection).  Each step is one access to shared *)
(* state.  The outbound queue is a ThreadSafeQueue, whose operations are   *)
(* atomic one by one; m_inboundResponsesMap has no lock.                   *)
(***************************************************************************)
EXTENDS Naturals, Sequences, FiniteSets

CONSTANTS
  Callers,          \* application threads that call queueAndSend
  Ids,              \* request ids
  NoId,             \* stands for "carries no request or response id"
  ReuseIds,         \* may the application use the id of an earlier request?
  DelayBeforeDrop,  \* DELAY_BRFORE_DROP_S
  ThreadSleep,      \* THREAD_SLEEP_MS
  KeepAliveNbSpin,  \* m_keepAliveNbSpin, 0 when there is no keep-alive
  MaxMessages,      \* bound: messages queueAndSend accepts
  MaxConnections,   \* bound: connections accepted
  MaxInbox          \* bound: messages waiting in m_inboundQueue

ASSUME ConstantsAssumption ==
  /\ NoId \notin Ids
  /\ ReuseIds \in BOOLEAN
  /\ DelayBeforeDrop \in Nat
  /\ ThreadSleep \in Nat \ {0}
  /\ KeepAliveNbSpin \in Nat
  /\ MaxMessages \in Nat
  /\ MaxConnections \in Nat
  /\ MaxInbox \in Nat

VARIABLES
  log,              \* history: the accepted messages, in push order
  status,           \* history: what became of each of them (RequestService)
  outboundQueue,    \* m_outboundQueue, a sequence of handles
  outPc, handle,    \* the outbound thread and its local handle
  callerPc,         \* where each application thread is in queueAndSend
  respMap,          \* the keys of m_inboundResponsesMap
  spinPc, spinId,   \* the thread in spin() and the response it is storing
  inbox,            \* m_inboundQueue: response ids, NoId for other messages
  connected,        \* m_isClientConnected
  sock,             \* the client's socket: up, peerClosed or closed
  conn,             \* number of connections accepted so far
  keepAliveCounter, \* m_keepAliveCounter
  delivered,        \* history: the requests that reached a peer
  answered,         \* history: the requests a peer has answered
  crashed           \* the process died: data race, or SIGPIPE

outVars == <<outboundQueue, outPc, handle, log, status>>
spinVars == <<spinPc, spinId, keepAliveCounter>>
connVars == <<connected, sock, conn>>
peerVars == <<inbox, delivered, answered>>
vars == <<outVars, callerPc, respMap, spinVars, connVars, peerVars, crashed>>

Kinds == {"request", "greeting", "other"}
Messages == [kind : Kinds, id : Ids \cup {NoId}]
Handles == [seq : Nat, state : {"READY", "SENT"}, delay : Nat]

\* The status history is the state of the abstract service.
Service == INSTANCE RequestService WITH status <- status

-----------------------------------------------------------------------------
(* queueAndSend                                                            *)

\* The messages the application may pass now; only requests carry an id.
Requests ==
  {[kind |-> "request", id |-> i] :
     i \in {j \in Ids : ReuseIds \/ \A n \in 1..Len(log) : log[n].id # j}}

Greeting == [kind |-> "greeting", id |-> NoId]
Unsupported == [kind |-> "other", id |-> NoId]

\* Bound: every push already decided on still fits in MaxMessages.
Room ==
  Len(log) + Cardinality({c \in Callers : callerPc[c] = "push"})
           + (IF spinPc = "kaPush" THEN 1 ELSE 0) < MaxMessages

\* Wrong variant: the new handle goes to the front of the queue.
WrongPushNew(m) ==
  /\ outboundQueue' =
       <<[seq |-> Len(log) + 1, state |-> "READY", delay |-> 0]>> \o outboundQueue
  /\ log' = Append(log, m)
  /\ status' = Append(status, "queued")

\* The push of a fresh handle; it makes the message the next of the log.
PushNew(m) ==
  /\ outboundQueue' =
       Append(outboundQueue, [seq |-> Len(log) + 1, state |-> "READY", delay |-> 0])
  /\ log' = Append(log, m)
  /\ status' = Append(status, "queued")

\* isTCPClientConnected in queueAndSend; false makes the call return false.
QasCheck(c) ==
  /\ callerPc[c] = "idle"
  /\ connected
  /\ Room
  /\ callerPc' = [callerPc EXCEPT ![c] = "push"]
  /\ UNCHANGED <<outVars, respMap, spinVars, connVars, peerVars, crashed>>

\* The push that follows the check; the connection may be gone by now.
QasPush(c) ==
  /\ callerPc[c] = "push"
  /\ \E m \in Requests \cup {Unsupported} : PushNew(m)
  /\ callerPc' = [callerPc EXCEPT ![c] = "idle"]
  /\ UNCHANGED <<outPc, handle, respMap, spinVars, connVars, peerVars, crashed>>

-----------------------------------------------------------------------------
(* outboundThread                                                          *)

msg == log[handle.seq]

\* Wrong variant: the bumped delay is not stored.
WrongBumped(h) == h

\* setState(SENT), and bumpDelaySinceSent(THREAD_SLEEP_MS)
Sent(h) == [seq |-> h.seq, state |-> "SENT", delay |-> h.delay]
Bumped(h) == [seq |-> h.seq, state |-> h.state, delay |-> h.delay + ThreadSleep]

\* The loop condition.
O_Top ==
  /\ outPc = "top"
  /\ outPc' = IF connected THEN "poll" ELSE "exited"
  /\ UNCHANGED <<outboundQueue, handle, log, status,
                 callerPc, respMap, spinVars, connVars, peerVars, crashed>>

\* empty() and front(); with an empty queue the thread sleeps and loops.
O_Front ==
  /\ outPc = "poll"
  /\ IF outboundQueue = << >>
     THEN outPc' = "top" /\ UNCHANGED handle
     ELSE outPc' = "pop" /\ handle' = Head(outboundQueue)
  /\ UNCHANGED <<outboundQueue, log, status,
                 callerPc, respMap, spinVars, connVars, peerVars, crashed>>

\* pop(), then the dispatch on the kind of message.  A message that is
\* neither a request nor a greeting is logged and forgotten.
O_Pop ==
  /\ outPc = "pop"
  /\ outboundQueue' = Tail(outboundQueue)
  /\ \/ /\ msg.kind = "request"
        /\ outPc' = "search"
        /\ UNCHANGED status
     \/ /\ msg.kind = "greeting"
        /\ outPc' = "send"
        /\ UNCHANGED status
     \/ /\ msg.kind = "other"
        /\ outPc' = "top"
        /\ status' = [status EXCEPT ![handle.seq] = "unsupported"]
  /\ UNCHANGED <<handle, log, callerPc, respMap, spinVars, connVars, peerVars, crashed>>

\* Wrong variant: any response closes the request.
WrongMayHit == respMap # {}

\* The entries find() can meet: while spin() is inside operator[], the entry
\* being inserted may or may not be visible, and a rehash may hide any entry.
Racing == spinPc \in {"insert", "insertLost"}
MayHit == msg.id \in respMap \/ (Racing /\ msg.id = spinId)
MayMiss == msg.id \notin respMap \/ Racing

\* Wrong variants: the test of the state is inverted; operator[] in the place
\* of find() inserts what it does not find.
WrongNotSent(h) == h.state = "SENT"
InsertingFind == respMap' = respMap \cup {msg.id}

\* getState() == READY
NotSent(h) == h.state = "READY"

\* find() leaves the map alone.
Find == UNCHANGED respMap

\* find() in m_inboundResponsesMap, then the test of the handle's state; the
\* delay is bumped by the sleep time and compared with the drop delay.
O_Search ==
  /\ outPc = "search"
  /\ Find
  /\ \/ /\ MayHit
        /\ outPc' = "erase"
        /\ UNCHANGED <<handle, status>>
     \/ /\ MayMiss
        /\ NotSent(handle)
        /\ outPc' = "send"
        /\ UNCHANGED <<handle, status>>
     \/ /\ MayMiss
        /\ ~NotSent(handle)
        /\ handle' = Bumped(handle)
        /\ IF handle'.delay >= DelayBeforeDrop
           THEN outPc' = "top" /\ status' = [status EXCEPT ![handle.seq] = "dropped"]
           ELSE outPc' = "push" /\ UNCHANGED status
  /\ UNCHANGED <<outboundQueue, log, callerPc, spinVars, connVars, peerVars, crashed>>

\* erase(search): the request is over.  An erase that overlaps operator[] may
\* also undo the insertion, or leave the entry in the table.
O_Erase ==
  /\ outPc = "erase"
  /\ \/ respMap' = respMap \ {msg.id} /\ UNCHANGED spinPc
     \/ Racing /\ respMap' = respMap \ {msg.id} /\ spinPc' = "insertLost"
     \/ Racing /\ UNCHANGED <<respMap, spinPc>>
  /\ status' = [status EXCEPT ![handle.seq] = "answered"]
  /\ outPc' = "top"
  /\ UNCHANGED <<outboundQueue, handle, log, callerPc, spinId, keepAliveCounter,
                 connVars, peerVars, crashed>>

\* serializeToStream; its result is ignored.  Without a peer the bytes vanish.
O_Send ==
  /\ outPc = "send"
  /\ delivered' = IF sock = "up" THEN delivered \cup {handle.seq} ELSE delivered
  /\ IF msg.kind = "request"
     THEN /\ handle' = Sent(handle)
          /\ status' = [status EXCEPT ![handle.seq] = "transmitted"]
          /\ outPc' = "push"
     ELSE /\ UNCHANGED handle
          /\ status' = [status EXCEPT ![handle.seq] = "greeted"]
          /\ outPc' = "top"
  /\ UNCHANGED <<outboundQueue, log, callerPc, respMap, spinVars, connVars,
                 inbox, answered, crashed>>

\* Wrong variant: the handle is not put back.
WrongO_Push ==
  /\ outPc = "push"
  /\ outPc' = "top"
  /\ UNCHANGED <<outboundQueue, handle, log, status, callerPc, respMap, spinVars,
                 connVars, peerVars, crashed>>

\* "Cycle through the queue."
O_Push ==
  /\ outPc = "push"
  /\ outboundQueue' = Append(outboundQueue, handle)
  /\ outPc' = "top"
  /\ UNCHANGED <<handle, log, status, callerPc, respMap, spinVars, connVars, peerVars, crashed>>

\* The process dies: an access to the map that overlaps operator[], or a
\* send() without MSG_NOSIGNAL on a connection the peer has closed.
O_Crash ==
  /\ \/ outPc \in {"search", "erase"} /\ Racing
     \/ outPc = "send" /\ sock = "peerClosed"
     \/ spinPc = "greet" /\ sock = "peerClosed"
  /\ crashed' = TRUE
  /\ UNCHANGED <<outVars, callerPc, respMap, spinVars, connVars, peerVars>>

OutboundThread ==
  O_Top \/ O_Front \/ O_Pop \/ O_Search \/ O_Erase \/ O_Send \/ O_Push

-----------------------------------------------------------------------------
(* spin()                                                                  *)

\* Wrong variant: a response handle is stored for every message.
WrongGivesResponseHandle(m) == TRUE

\* handleMessage returns an InboundResponseHandle for a generic or a user-call
\* response only; a host API response goes to its callback and has no handle.
GivesResponseHandle(m) == m # NoId

\* The connected branch: one message of the inbound queue is handled.
S_Handle ==
  /\ spinPc = "idle"
  /\ connected
  /\ IF inbox = << >>
     THEN spinPc' = "keepAlive" /\ UNCHANGED <<inbox, spinId>>
     ELSE /\ inbox' = Tail(inbox)
          /\ spinId' = Head(inbox)
          /\ spinPc' = IF GivesResponseHandle(Head(inbox)) THEN "insert" ELSE "keepAlive"
  /\ UNCHANGED <<outVars, callerPc, respMap, keepAliveCounter, connVars,
                 delivered, answered, crashed>>

\* m_inboundResponsesMap[id] = handle, which began when spinPc became "insert".
S_Insert ==
  /\ \/ spinPc = "insert" /\ respMap' = respMap \cup {spinId}
     \/ spinPc = "insertLost" /\ UNCHANGED respMap
  /\ spinPc' = "keepAlive"
  /\ UNCHANGED <<outVars, callerPc, spinId, keepAliveCounter, connVars, peerVars, crashed>>

\* Wrong variant: spin() listens without joining the outbound thread.
WrongS_Join ==
  /\ spinPc = "idle"
  /\ ~connected
  /\ spinPc' = "listen"
  /\ UNCHANGED <<outVars, callerPc, respMap, spinId, keepAliveCounter, connVars,
                 peerVars, crashed>>

\* The other branch: both threads are joined before listening.  The inbound
\* thread ends by itself, since the flag is false.
S_Join ==
  /\ spinPc \in {"idle", "join"}
  /\ spinPc = "idle" => ~connected
  /\ IF outPc \in {"none", "exited"}
     THEN outPc' = "none" /\ spinPc' = "listen"
     ELSE spinPc' = "join" /\ spinPc # "join" /\ UNCHANGED outPc
  /\ UNCHANGED <<outboundQueue, handle, log, status, callerPc, respMap,
                 spinId, keepAliveCounter, connVars, peerVars, crashed>>

\* listen(): accept() returns a client, or fails and greet() returns false.
S_Listen ==
  /\ spinPc = "listen"
  /\ conn < MaxConnections
  /\ conn' = conn + 1
  /\ \/ connected' = TRUE /\ sock' = "up" /\ spinPc' = "greet"
     \/ spinPc' = "keepAlive" /\ UNCHANGED <<connected, sock>>
  /\ UNCHANGED <<outVars, callerPc, respMap, spinId, keepAliveCounter, peerVars, crashed>>

\* greet() got a greeting and the threads start, or it got something else or
\* the end of the stream and the client is closed.
S_Greet ==
  /\ spinPc = "greet"
  /\ \/ outPc' = "top" /\ UNCHANGED <<connected, sock>>
     \/ connected' = FALSE /\ sock' = "closed" /\ UNCHANGED outPc
  /\ spinPc' = "keepAlive"
  /\ UNCHANGED <<outboundQueue, handle, log, status, callerPc, respMap, conn,
                 spinId, keepAliveCounter, peerVars, crashed>>

\* The end of spin(): the counter, and queueAndSend's check when it is due.
S_KeepAlive ==
  /\ spinPc = "keepAlive"
  /\ \/ /\ KeepAliveNbSpin = 0
        /\ spinPc' = "idle"
        /\ UNCHANGED keepAliveCounter
     \/ /\ KeepAliveNbSpin > 0
        /\ keepAliveCounter < KeepAliveNbSpin
        /\ keepAliveCounter' = keepAliveCounter + 1
        /\ spinPc' = "idle"
     \/ /\ KeepAliveNbSpin > 0
        /\ keepAliveCounter >= KeepAliveNbSpin
        /\ keepAliveCounter' = 1
        /\ spinPc' = IF connected /\ Room THEN "kaPush" ELSE "idle"
  /\ UNCHANGED <<outVars, callerPc, respMap, spinId, connVars, peerVars, crashed>>

\* The push of the keep-alive greeting.
S_KaPush ==
  /\ spinPc = "kaPush"
  /\ PushNew(Greeting)
  /\ spinPc' = "idle"
  /\ UNCHANGED <<outPc, handle, callerPc, respMap, spinId, keepAliveCounter,
                 connVars, peerVars, crashed>>

SpinThread ==
  S_Handle \/ S_Insert \/ S_Join \/ S_Listen \/ S_Greet \/ S_KeepAlive \/ S_KaPush

-----------------------------------------------------------------------------
(* The peer, as the inbound thread sees it                                 *)

\* The inbound thread runs: started by greet, until the flag is false.
Receiving == connected /\ spinPc # "greet" /\ Len(inbox) < MaxInbox

\* A response to a request that reached a peer.  Broadcast requests get
\* several, and a response may arrive after its request was dropped.
PeerRespond ==
  /\ Receiving
  /\ \E n \in delivered :
       /\ log[n].kind = "request"
       /\ inbox' = Append(inbox, log[n].id)
       /\ answered' = answered \cup {n}
  /\ UNCHANGED <<outVars, callerPc, respMap, spinVars, connVars, delivered, crashed>>

\* A message without effect here: a request, a greeting, a host API response.
PeerSendOther ==
  /\ Receiving
  /\ inbox' = Append(inbox, NoId)
  /\ UNCHANGED <<outVars, callerPc, respMap, spinVars, connVars, delivered, answered, crashed>>

PeerClose ==
  /\ sock = "up"
  /\ sock' = "peerClosed"
  /\ UNCHANGED <<outVars, callerPc, respMap, spinVars, connected, conn, peerVars, crashed>>

\* receive() of the inbound thread sees the end of the stream.
NoticeClose ==
  /\ connected
  /\ spinPc # "greet"
  /\ sock = "peerClosed"
  /\ connected' = FALSE
  /\ sock' = "closed"
  /\ UNCHANGED <<outVars, callerPc, respMap, spinVars, conn, peerVars, crashed>>

-----------------------------------------------------------------------------
Init ==
  /\ log = << >>
  /\ status = << >>
  /\ outboundQueue = << >>
  /\ outPc = "none"
  /\ handle = [seq |-> 0, state |-> "READY", delay |-> 0]
  /\ callerPc = [c \in Callers |-> "idle"]
  /\ respMap = {}
  /\ spinPc = "idle"
  /\ spinId = NoId
  /\ inbox = << >>
  /\ connected = FALSE
  /\ sock = "closed"
  /\ conn = 0
  /\ keepAliveCounter = 0
  /\ delivered = {}
  /\ answered = {}
  /\ crashed = FALSE

Next ==
  /\ ~crashed
  /\ \/ \E c \in Callers : QasCheck(c) \/ QasPush(c)
     \/ OutboundThread
     \/ O_Crash
     \/ SpinThread
     \/ PeerRespond \/ PeerSendOther \/ PeerClose \/ NoticeClose

Spec == Init /\ [][Next]_vars

\* Fairness: a running outbound thread keeps being scheduled.  Nothing is
\* assumed of the callers, of spin() or of the peer.
FairSpec == Spec /\ WF_vars(~crashed /\ OutboundThread)

-----------------------------------------------------------------------------
(* Properties                                                              *)

OutPcs == {"none", "top", "poll", "pop", "search", "erase", "send", "push", "exited"}
SpinPcs == {"idle", "insert", "insertLost", "join", "listen", "greet", "keepAlive", "kaPush"}

\* Every variable has its type (a stored response has an id); the log and the statuses have equal length.
TypeOK ==
  /\ log \in Seq(Messages)
  /\ status \in Seq(Service!Statuses)
  /\ Len(status) = Len(log)
  /\ outboundQueue \in Seq(Handles)
  /\ outPc \in OutPcs
  /\ handle \in Handles
  /\ callerPc \in [Callers -> {"idle", "push"}]
  /\ respMap \subseteq Ids
  /\ spinPc \in SpinPcs
  /\ spinId \in Ids \cup {NoId}
  /\ Racing => spinId \in Ids
  /\ inbox \in Seq(Ids \cup {NoId})
  /\ connected \in BOOLEAN
  /\ sock \in {"up", "peerClosed", "closed"}
  /\ conn \in Nat
  /\ keepAliveCounter \in Nat
  /\ delivered \subseteq 1..Len(log)
  /\ answered \subseteq delivered
  /\ crashed \in BOOLEAN

\* The handle is held by the outbound thread and no longer in the queue.
InHand == outPc \in {"search", "erase", "send", "push"}

\* The n-th message still has to be transmitted, answered or dropped.
Open(n) == n \in 1..Len(log) /\ status[n] \in {"queued", "transmitted"}

\* A message queueAndSend accepted is neither lost nor duplicated between the
\* pops and pushes of the outbound thread, the pushes of the other threads and
\* a disconnection at any point: it is open exactly while it has one place,
\* in the queue or in the thread's hands (outboundThread, lines 190-229).
OneOwner ==
  \A n \in 1..Len(log) :
    Cardinality({i \in 1..Len(outboundQueue) : outboundQueue[i].seq = n})
      + (IF InHand /\ handle.seq = n THEN 1 ELSE 0)
    = (IF Open(n) THEN 1 ELSE 0)

\* front() and pop() are two locked operations (lines 191-192): the element
\* popped is the one that was read, whatever was pushed in between.
PopsWhatItRead ==
  outPc = "pop" => outboundQueue # << >> /\ Head(outboundQueue) = handle

\* "Received a response for this request so we delete the request" (line 200):
\* a request deleted from the queue as answered was answered by a peer.
DeletedOnlyIfAnswered ==
  \A n \in 1..Len(log) : status[n] = "answered" => n \in answered

\* m_inboundResponsesMap is never emptied, but it grows only with requests
\* that a peer has answered: each entry has the id of one of them (spin, line
\* 54, against find and erase of the outbound thread, lines 198-203).
EntriesAreAnswered == \A i \in respMap : \E n \in answered : log[n].id = i

\* The outbound thread of a lost connection is over before spin() listens for
\* the next client (lines 84-88): its backlog goes out through one thread only.
NoStaleThread == spinPc \in {"listen", "greet"} => outPc = "none"

\* The outbound path implements RequestService: messages are transmitted in
\* the order queueAndSend accepted them and at most once, across cycles of the
\* queue and reconnections, and only transmitted requests are closed.
ImplementsService == Service!ServiceSpec

\* The drop delay is in seconds (DELAY_BRFORE_DROP_S): a request that waits
\* alone in the queue, revisited after every sleep of ThreadSleep
\* milliseconds, is dropped only when that delay has gone by.
DroppedAfterDelay ==
  [][\A n \in 1..Len(log) :
       (status[n] = "transmitted" /\ status'[n] = "dropped")
         => handle'.delay >= 1000 * DelayBeforeDrop]_vars

\* Every open message is eventually transmitted and closed while the outbound
\* thread runs: it cannot starve behind messages that cycle through the queue.
EventuallyClosed ==
  \A n \in 1..MaxMessages :
    (Open(n) /\ outPc \notin {"none", "exited"})
      ~> (~connected \/ crashed \/ ~Open(n))
=============================================================================
