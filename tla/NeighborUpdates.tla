-------------------------- MODULE NeighborUpdates ---------------------------
(***************************************************************************)
(* Neighbour requests and their answers: sendNeighborUpdateRequest and     *)
(* sendNeighborListUpdateRequest, which address the HiveMind by the agent  *)
(* id that the last greeting left in m_swarmAgentID, the HiveMind, and     *)
(* HiveMindHostApiResponseHandler with its two callbacks.                  *)
(*                                                                         *)
(* The outbound queue and thread appear as RequestService, which           *)
(* OutboundRequests implements.  A host API response gives no response     *)
(* handle, so here a transmitted request is closed by the drop delay only. *)
(***************************************************************************)
EXTENDS Naturals, Sequences, FiniteSets

CONSTANTS
  Threads,          \* threads of the application that send requests
  SpinThread,       \* the one of them that also calls spin()
  Agents,           \* agent ids of HiveMinds
  MaxMessages,      \* bound: requests begun, and messages other than answers
  MaxSessions       \* bound: connections that were greeted

ASSUME NeighborAssumption ==
  /\ SpinThread \in Threads
  /\ Agents \subseteq Nat \ {0}
  /\ MaxMessages \in Nat /\ MaxSessions \in Nat

VARIABLES
  link,             \* the connection: up, peerClosed (not yet noticed), down
  clients,          \* history: the agent ids of the greeted clients
  agentId,          \* m_swarmAgentID
  caller,           \* the request each thread is sending
  requests,         \* history: the requests that were accepted, in order
  status,           \* what became of each of them (RequestService)
  sentIn,           \* history: the session each one reached a client in, or 0
  inbound,          \* history: the messages pushed to m_inboundQueue
  handled,          \* number of them that were popped
  spinPc,           \* spin(): "idle", "greet", "callback"
  callbacks,        \* which of the two callbacks are set
  updates,          \* history: what the callbacks were called with
  crashed           \* SIGPIPE ended the process

connVars == <<link, clients, agentId>>
outVars == <<requests, status, sentIn>>
spinVars == <<handled, spinPc, updates>>
vars == <<connVars, caller, outVars, inbound, spinVars, callbacks, crashed>>

Service == INSTANCE RequestService WITH status <- status

Kinds == {"list", "neighbor"}
Session == Len(clients)

\* The flag m_isClientConnected is true from accept() on; the inbound and the
\* outbound thread run from the greeting on.
Connected == link # "down"
Greeted == Connected /\ spinPc # "greet"

\* Bound: requests, calls that may still push one, and unsolicited messages.
Room ==
  Len(requests) + Cardinality({t \in Threads : caller[t].pc # "idle"})
    + Cardinality({k \in 1..Len(inbound) : inbound[k].req = 0}) < MaxMessages

-----------------------------------------------------------------------------
(* sendNeighborUpdateRequest and sendNeighborListUpdateRequest             *)

Resting == [pc |-> "idle", source |-> 0, dest |-> 0, composed |-> 0]

\* The thread in spin() sends between two spins or from within a callback.
MayCall(t) == t = SpinThread => spinPc \in {"idle", "callback"}

\* getSwarmAgentId(), for the source of the message.
ReadSource(t) ==
  /\ caller[t].pc = "idle"
  /\ MayCall(t)
  /\ Room
  /\ caller' = [caller EXCEPT ![t] =
       [pc |-> "dest", source |-> agentId, dest |-> 0,
        composed |-> IF Greeted THEN Session ELSE 0]]
  /\ UNCHANGED <<connVars, outVars, inbound, spinVars, callbacks, crashed>>

\* getSwarmAgentId() again, for the destination.
ReadDest(t) ==
  /\ caller[t].pc = "dest"
  /\ caller' = [caller EXCEPT ![t].pc = "check", ![t].dest = agentId]
  /\ UNCHANGED <<connVars, outVars, inbound, spinVars, callbacks, crashed>>

\* queueAndSend tests the flag, and without client returns false.
QasCheck(t) ==
  /\ caller[t].pc = "check"
  /\ caller' = [caller EXCEPT ![t] = IF Connected THEN [@ EXCEPT !.pc = "push"] ELSE Resting]
  /\ UNCHANGED <<connVars, outVars, inbound, spinVars, callbacks, crashed>>

\* The push, of a request for one neighbour or for the list.
QasPush(t) ==
  /\ caller[t].pc = "push"
  /\ Service!Accept
  /\ \E kind \in Kinds :
       requests' = Append(requests,
         [kind |-> kind, source |-> caller[t].source, dest |-> caller[t].dest,
          composed |-> caller[t].composed])
  /\ sentIn' = Append(sentIn, 0)
  /\ caller' = [caller EXCEPT ![t] = Resting]
  /\ UNCHANGED <<connVars, inbound, spinVars, callbacks, crashed>>

Calling(t) == ReadDest(t) \/ QasCheck(t) \/ QasPush(t)

-----------------------------------------------------------------------------
(* The outbound thread                                                     *)

\* The oldest queued request goes out, whoever the client is by now.
Transmit(n) ==
  /\ Greeted
  /\ Service!Process(n) /\ status'[n] = "transmitted"
  /\ sentIn' = [sentIn EXCEPT ![n] = IF link = "up" THEN Session ELSE 0]
  /\ UNCHANGED <<connVars, caller, requests, inbound, spinVars, callbacks, crashed>>

\* The drop delay, also for a request that was answered.
Drop(n) ==
  /\ Greeted
  /\ Service!Close(n) /\ status'[n] = "dropped"
  /\ UNCHANGED <<connVars, caller, requests, sentIn, inbound, spinVars, callbacks, crashed>>

\* send() without MSG_NOSIGNAL on a connection the peer has closed.
SendCrash(n) ==
  /\ Greeted
  /\ link = "peerClosed"
  /\ Service!OldestQueued(n)
  /\ crashed' = TRUE
  /\ UNCHANGED <<connVars, caller, outVars, inbound, spinVars, callbacks>>

-----------------------------------------------------------------------------
(* The HiveMind, and the inbound thread that pushes what it sends          *)

\* `expected' records whether the callback was there when the message came.
Arrives(kind, n, position) ==
  inbound' = Append(inbound,
    [kind |-> kind, req |-> n, position |-> position,
     expected |-> kind \in Kinds /\ callbacks[kind]])

\* A HiveMind answers a request that is addressed to it, and forwards others.
PeerAnswer(n) ==
  /\ Greeted /\ link = "up"
  /\ sentIn[n] = Session
  /\ requests[n].dest = clients[Session]
  /\ \A k \in 1..Len(inbound) : inbound[k].req # n
  /\ \E position \in BOOLEAN :
       /\ requests[n].kind = "list" => ~position
       /\ Arrives(requests[n].kind, n, position)
  /\ UNCHANGED <<connVars, caller, outVars, spinVars, callbacks, crashed>>

\* An update nobody asked for, or any message that is not an update: another
\* host API response ("unsupported"), a greeting, a request.
PeerOther ==
  /\ Greeted /\ link = "up"
  /\ Room
  /\ \E kind \in {"neighbor", "other"} : Arrives(kind, 0, FALSE)
  /\ UNCHANGED <<connVars, caller, outVars, spinVars, callbacks, crashed>>

PeerClose ==
  /\ link = "up"
  /\ link' = "peerClosed"
  /\ UNCHANGED <<clients, agentId, caller, outVars, inbound, spinVars, callbacks, crashed>>

\* receive() of the inbound thread sees the end of the stream.
NoticeClose ==
  /\ Greeted
  /\ link = "peerClosed"
  /\ link' = "down"
  /\ UNCHANGED <<clients, agentId, caller, outVars, inbound, spinVars, callbacks, crashed>>

-----------------------------------------------------------------------------
(* HiveMindHostApiResponseHandler                                          *)

\* onNeighborListUpdated and onNeighborUpdated, between two spins.
OnUpdated(kind) ==
  /\ spinPc = "idle" /\ caller[SpinThread].pc = "idle"
  /\ ~callbacks[kind]
  /\ callbacks' = [callbacks EXCEPT ![kind] = TRUE]
  /\ UNCHANGED <<connVars, caller, outVars, inbound, spinVars, crashed>>

\* The callback is called from within handleMessage, before the message is
\* popped; or nothing is called and the message is popped.
Call(k, position) ==
  /\ updates' = Append(updates, [kind |-> inbound[k].kind, of |-> k, position |-> position])
  /\ spinPc' = "callback"
  /\ UNCHANGED handled
Ignore == handled' = handled + 1 /\ UNCHANGED <<spinPc, updates>>

HandleNeighborList(k) ==
  /\ inbound[k].kind = "list"
  /\ IF callbacks["list"] THEN Call(k, FALSE) ELSE Ignore

HandleNeighbor(k) ==
  /\ inbound[k].kind = "neighbor"
  /\ IF callbacks["neighbor"] THEN Call(k, inbound[k].position) ELSE Ignore

\* A response of another kind is logged; other messages are not for here.
HandleOther(k) == inbound[k].kind \notin Kinds /\ Ignore

-----------------------------------------------------------------------------
(* spin()                                                                  *)

SpinBegins == spinPc = "idle" /\ caller[SpinThread].pc = "idle"

\* Wrong variant: the last message waits for another one.
WrongPending == handled + 1 < Len(inbound)

\* !m_inboundQueue.empty()
Pending == handled < Len(inbound)

HandleMessage ==
  /\ SpinBegins
  /\ Connected
  /\ Pending
  /\ LET k == handled + 1 IN HandleNeighborList(k) \/ HandleNeighbor(k) \/ HandleOther(k)
  /\ UNCHANGED <<connVars, caller, outVars, inbound, callbacks, crashed>>

\* Wrong variants: the message stays at the front; the next one is popped too.
WrongPopped == handled
DoublePopped == handled + 2

\* m_inboundQueue.pop()
Popped == handled + 1

\* The callback returns.
CallbackEnd ==
  /\ spinPc = "callback" /\ caller[SpinThread].pc = "idle"
  /\ handled' = Popped
  /\ spinPc' = "idle"
  /\ UNCHANGED <<connVars, caller, outVars, inbound, updates, callbacks, crashed>>

\* Both threads are joined and a client is accepted; the flag is true.
Listen ==
  /\ SpinBegins
  /\ ~Connected
  /\ Session < MaxSessions
  /\ link' = "up"
  /\ spinPc' = "greet"
  /\ UNCHANGED <<clients, agentId, caller, outVars, inbound, handled, updates,
                 callbacks, crashed>>

\* Wrong variant: the id of the first client is kept.
WrongAgentId(id) == IF agentId = 0 THEN id ELSE agentId

\* m_swarmAgentID = swarmAgentId.value()
AgentId(id) == id

\* The client greets with its agent id, and the threads start.
Greet ==
  /\ spinPc = "greet"
  /\ link = "up"
  /\ \E id \in Agents :
       /\ agentId' = AgentId(id)
       /\ clients' = Append(clients, id)
  /\ spinPc' = "idle"
  /\ UNCHANGED <<link, caller, outVars, inbound, handled, updates, callbacks, crashed>>

\* It sends something else, or leaves, and the bridge closes the connection.
GreetFails ==
  /\ spinPc = "greet"
  /\ link' = "down"
  /\ spinPc' = "idle"
  /\ UNCHANGED <<clients, agentId, caller, outVars, inbound, handled, updates,
                 callbacks, crashed>>

-----------------------------------------------------------------------------
Init ==
  /\ link = "down"
  /\ clients = << >>
  /\ agentId = 0
  /\ caller = [t \in Threads |-> Resting]
  /\ Service!ServiceInit
  /\ requests = << >>
  /\ sentIn = << >>
  /\ inbound = << >>
  /\ handled = 0
  /\ spinPc = "idle"
  /\ callbacks = [k \in Kinds |-> FALSE]
  /\ updates = << >>
  /\ crashed = FALSE

\* A step about the n-th request, and a step of spin() that waits for nobody.
About(n) == n \in 1..Len(requests)
SpinStep == HandleMessage \/ CallbackEnd \/ Calling(SpinThread)

Next ==
  /\ ~crashed
  /\ \/ \E t \in Threads : ReadSource(t) \/ Calling(t)
     \/ \E n \in 1..MaxMessages :
          About(n) /\ (Transmit(n) \/ Drop(n) \/ SendCrash(n) \/ PeerAnswer(n))
     \/ PeerOther \/ PeerClose \/ NoticeClose
     \/ \E k \in Kinds : OnUpdated(k)
     \/ HandleMessage \/ CallbackEnd \/ Listen \/ Greet \/ GreetFails

Spec == Init /\ [][Next]_vars

\* The application keeps calling spin() and its callbacks return, the outbound
\* thread runs, and the HiveMind answers what is addressed to it.
FairSpec ==
  /\ Spec
  /\ WF_vars(~crashed /\ SpinStep)
  /\ \A n \in 1..MaxMessages :
       /\ WF_vars(~crashed /\ About(n) /\ Transmit(n))
       /\ WF_vars(~crashed /\ About(n) /\ PeerAnswer(n))

-----------------------------------------------------------------------------
(* Properties                                                              *)

Ids == Agents \cup {0}
Calls == [pc : {"idle", "dest", "check", "push"}, source : Ids, dest : Ids,
          composed : 0..MaxSessions]
Requests == [kind : Kinds, source : Ids, dest : Ids, composed : 0..MaxSessions]

\* Every variable has its type; a message is popped only once it was pushed.
TypeOK ==
  /\ link \in {"up", "peerClosed", "down"}
  /\ clients \in Seq(Agents)
  /\ agentId \in Ids
  /\ caller \in [Threads -> Calls]
  /\ requests \in Seq(Requests)
  /\ status \in [1..Len(requests) -> Service!Statuses]
  /\ sentIn \in [1..Len(requests) -> 0..Session]
  /\ handled \in 0..Len(inbound)
  /\ spinPc \in {"idle", "greet", "callback"}
  /\ spinPc = "callback" => handled < Len(inbound)
  /\ callbacks \in [Kinds -> BOOLEAN]
  /\ crashed \in BOOLEAN

\* A request that was composed while a client was greeted, and that reached a
\* client on the same connection, is from and to that client's agent id:
\* stale ids, or two different ones, only occur in requests that were begun
\* before the greeting or that outlived their connection (greet, line 279,
\* against the two reads of getSwarmAgentId, lines 291 and 300).
FreshlyAddressed ==
  \A n \in 1..Len(requests) :
    (sentIn[n] # 0 /\ sentIn[n] = requests[n].composed)
      => requests[n].source = clients[sentIn[n]] /\ requests[n].dest = clients[sentIn[n]]

\* The callbacks see each message at most once and in the order of arrival,
\* with the position it carried, and miss none that came after they were set,
\* although messages are left in m_inboundQueue by a lost connection.
UpdatesOnceInOrder ==
  /\ \A i, j \in 1..Len(updates) : i < j => updates[i].of < updates[j].of
  /\ \A j \in 1..Len(updates) :
       LET m == inbound[updates[j].of] IN
       updates[j].kind = m.kind /\ updates[j].position = m.position
  /\ \A k \in 1..handled :
       inbound[k].expected => \E j \in 1..Len(updates) : updates[j].of = k

Updated(n) == \E j \in 1..Len(updates) : inbound[updates[j].of].req = n

\* "The response will be received asynchronously and should be handled by a
\* callback": the answer to a request reaches the callback that was set before
\* it was transmitted, if the connection lasts on which it was composed.
AnswerReachesCallback ==
  <>[](Greeted /\ link = "up" /\ ~crashed)
    => \A n \in 1..MaxMessages :
         (About(n) /\ status[n] = "queued" /\ requests[n].composed = Session
            /\ callbacks[requests[n].kind])
           ~> (About(n) /\ (Updated(n) \/ requests[n].composed # Session))
=============================================================================
