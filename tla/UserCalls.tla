----------------------------- MODULE UserCalls ------------------------------
(***************************************************************************)
(* User calls from the swarm: MessageHandler's dispatch of user-call       *)
(* requests to UserCallRequestHandler, the acknowledgement, the callback   *)
(* that std::async runs on a thread of its own, the loop of spin() that    *)
(* collects finished callbacks and sends what they return, all this across *)
(* lost connections and new ones, and the end of the bridge.               *)
(*                                                                         *)
(* Requests are numbered in the order in which they reach the inbound      *)
(* queue.  The steps by which a connection begins and ends are those of    *)
(* BridgeThreads; here they are one action each.                           *)
(***************************************************************************)
EXTENDS UserCallbackMap, FiniteSets

CONSTANTS
  Indices,           \* indices that description requests ask for
  AskPastEnd,        \* may one of them turn out to be the list's length?
  RegisterAnytime,   \* does the application register while callbacks start?
  MaxRequests,       \* bound: user-call requests that arrive
  MaxSessions        \* bound: connections that were greeted

ASSUME CallsAssumption ==
  /\ Indices \subseteq Nat
  /\ AskPastEnd \in BOOLEAN /\ RegisterAnytime \in BOOLEAN
  /\ MaxRequests \in Nat /\ MaxSessions \in Nat

VARIABLES
  link,              \* the connection: up, peerClosed (not yet noticed), down
  session,           \* number of connections that were greeted
  requests,          \* history: the requests that arrived
  handled,           \* number of requests taken off the inbound queue
  spinPc, cursor,    \* spin(): "idle", "handle", "loop"; the loop's position
  handles,           \* m_inboundRequestsQueue: request numbers
  task,              \* the asynchronous callback of each request
  ran,               \* history: the function each callback ran
  wire,              \* history: acknowledgements and returns, as serialized
  life,              \* the bridge: alive, destroying, gone
  crashed            \* undefined behaviour or SIGPIPE ended the process

linkVars == <<link, session>>
spinVars == <<handled, spinPc, cursor, handles, wire>>
taskVars == <<task, ran>>
callVars == <<linkVars, requests, spinVars, taskVars, life>>
vars == <<registryVars, callVars, crashed>>

Request == [kind : {"length", "describe", "call", "unknown"}, index : Indices,
            name : Names \cup {Garbage}]

\* absent: no future.  Else a thread that starts, runs, or has ended with a
\* value, with too many values, or with none.
TaskStates == {"absent", "started", "running", "value", "tooMany", "nothing"}
Unfinished == {"started", "running"}
Finished == {"value", "tooMany", "nothing"}

\* The flag m_isClientConnected.
Connected == link # "down"

-----------------------------------------------------------------------------
(* The swarm, the connection and the application                           *)

\* The inbound thread pushes a request.
Arrive ==
  /\ link = "up"
  /\ Len(requests) < MaxRequests
  /\ \E m \in Request :
       /\ m.kind # "describe" => m.index = CHOOSE i \in Indices : TRUE
       /\ m.kind # "call" => m.name = Garbage
       /\ \/ m.kind # "describe"
          \/ AskPastEnd \/ m.index < Len(names) \/ m.index > MaxRegistrations
       /\ requests' = Append(requests, m)
  /\ task' = Append(task, "absent")
  /\ ran' = Append(ran, 0)
  /\ UNCHANGED <<registryVars, linkVars, spinVars, life, crashed>>

PeerClose ==
  /\ link = "up"
  /\ link' = "peerClosed"
  /\ UNCHANGED <<registryVars, session, requests, spinVars, taskVars, life, crashed>>

\* The inbound thread's receive() sees the end and clears the flag, at any
\* moment of a spin().
NoticeClose ==
  /\ link = "peerClosed"
  /\ link' = "down"
  /\ UNCHANGED <<registryVars, session, requests, spinVars, taskVars, life, crashed>>

\* registerCustomAction, between two spins.
Register ==
  /\ spinPc = "idle" /\ life = "alive"
  /\ RegisterAnytime \/ \A q \in 1..Len(task) : task[q] # "started"
  /\ \E name \in Names : RegisterFind(name)
  /\ UNCHANGED <<callVars, crashed>>

Registered == RegisterStore /\ UNCHANGED <<callVars, crashed>>

-----------------------------------------------------------------------------
(* spin()                                                                  *)

Spinning == spinPc = "idle" /\ Idle /\ life = "alive"

\* isTCPClientConnected, tested once per spin.
SpinBegin ==
  /\ Spinning
  /\ Connected
  /\ spinPc' = "handle"
  /\ UNCHANGED <<registryVars, linkVars, requests, handled, cursor, handles, wire,
                 taskVars, life, crashed>>

\* Wrong variant: the handles of the lost connection are forgotten.
ForgettingHandlesAfter == << >>

\* What a reconnection leaves in m_inboundRequestsQueue: everything.
HandlesAfter == handles

\* The other branch of spin(), when it ends with a greeted client.
Reconnect ==
  /\ Spinning
  /\ ~Connected
  /\ session < MaxSessions
  /\ link' = "up"
  /\ session' = session + 1
  /\ handles' = HandlesAfter
  /\ UNCHANGED <<registryVars, requests, handled, spinPc, cursor, wire, taskVars, life, crashed>>

\* A frame on its way to the client, or lost with the connection (session 0):
\* the result of serializeToStream is ignored.
Frame(type, q, status, value) ==
  [type |-> type, req |-> q, status |-> status, value |-> value,
   session |-> IF link = "up" THEN session ELSE 0]

\* What handling does besides the answer: the handle is appended.
Answer(q, status, value) ==
  /\ wire' = Append(wire, Frame("ack", q, status, value))
  /\ handles' = Append(handles, q)

\* handleFunctionListLengthRequest
HandleLength(q) ==
  /\ requests[q].kind = "length"
  /\ Answer(q, "length", Len(names))
  /\ UNCHANGED <<registryVars, task>>

\* handleFunctionDescriptionRequest: getManifestAt, then getNameAt.
HandleDescribe(q) ==
  LET index == requests[q].index IN
  /\ requests[q].kind = "describe"
  /\ \/ /\ ~InRange(index)
        /\ Answer(q, "badRequest", 0)
        /\ UNCHANGED registryVars
     \/ /\ InRange(index)
        /\ PastEnd(index) => names # << >>
        /\ Answer(q, "described", NameAt(index))
        /\ GetManifestAt(index)
  /\ UNCHANGED task

\* Wrong variant: the name is not looked up before the task starts.
WrongHandleCall(q) ==
  /\ requests[q].kind = "call"
  /\ task' = [task EXCEPT ![q] = "started"]
  /\ Answer(q, "ok", 0)
  /\ UNCHANGED registryVars

\* handleFunctionCallRequest: a registered name starts an asynchronous task.
HandleCall(q) ==
  /\ requests[q].kind = "call"
  /\ \/ /\ HasCallback(requests[q].name)
        /\ task' = [task EXCEPT ![q] = "started"]
        /\ Answer(q, "ok", 0)
     \/ /\ ~HasCallback(requests[q].name)
        /\ Answer(q, "badRequest", 0)
        /\ UNCHANGED task
  /\ UNCHANGED registryVars

\* Any other user-call request.
HandleUnknown(q) ==
  /\ requests[q].kind = "unknown"
  /\ Answer(q, "unknown", 0)
  /\ UNCHANGED <<registryVars, task>>

\* Wrong variant: the message is not popped.
WrongPopped == handled

Popped == handled + 1

\* The first half of spin(): the front message, if there is one.
Handle ==
  /\ spinPc = "handle"
  /\ handled < Len(requests)
  /\ LET q == handled + 1 IN
     HandleLength(q) \/ HandleDescribe(q) \/ HandleCall(q) \/ HandleUnknown(q)
  /\ handled' = Popped
  /\ spinPc' = "loop"
  /\ cursor' = 1
  /\ UNCHANGED <<linkVars, requests, ran, life, crashed>>

HandleNothing ==
  /\ spinPc = "handle"
  /\ handled = Len(requests)
  /\ spinPc' = "loop"
  /\ cursor' = 1
  /\ UNCHANGED <<registryVars, linkVars, requests, handled, handles, wire, taskVars, life, crashed>>

\* Reading past the end of the vector ends the process, at the latest when
\* the vector is empty and has no memory at all.
HandlePastEnd ==
  /\ spinPc = "handle"
  /\ handled < Len(requests)
  /\ requests[handled + 1].kind = "describe"
  /\ PastEnd(requests[handled + 1].index)
  /\ crashed' = TRUE
  /\ UNCHANGED <<registryVars, callVars>>

\* Wrong variants: the element after the erased one is lost too; a returned
\* handle is kept; the loop stops at a callback that still runs.
WrongRemove(s, i) == SubSeq(s, 1, i - 1) \o SubSeq(s, i + 2, Len(s))
KeepingRemove(s, i) == s
StoppingSkip == Len(handles) + 1

\* erase(result), and result++
Remove(s, i) == SubSeq(s, 1, i - 1) \o SubSeq(s, i + 1, Len(s))
Skip == cursor + 1

\* sendReturn: a value is sent unless it has too many arguments.
SendReturn(q) ==
  wire' = IF task[q] = "value" THEN Append(wire, Frame("return", q, "value", ran[q])) ELSE wire

\* One turn of the loop over m_inboundRequestsQueue: without future the handle
\* is erased, with a finished one its return is sent and it is erased, else
\* the loop goes on to the next.
Collect ==
  /\ spinPc = "loop"
  /\ cursor <= Len(handles)
  /\ LET q == handles[cursor] IN
     \/ /\ task[q] = "absent"
        /\ handles' = Remove(handles, cursor)
        /\ UNCHANGED <<cursor, wire>>
     \/ /\ task[q] \in Finished
        /\ SendReturn(q)
        /\ handles' = Remove(handles, cursor)
        /\ UNCHANGED cursor
     \/ /\ task[q] \in Unfinished
        /\ cursor' = Skip
        /\ UNCHANGED <<handles, wire>>
  /\ UNCHANGED <<registryVars, linkVars, requests, handled, spinPc, taskVars, life, crashed>>

EndSpin ==
  /\ spinPc = "loop"
  /\ cursor > Len(handles)
  /\ spinPc' = "idle"
  /\ UNCHANGED <<registryVars, linkVars, requests, handled, cursor, handles, wire,
                 taskVars, life, crashed>>

\* send() without MSG_NOSIGNAL on a connection the peer has closed.
SendCrash ==
  /\ link = "peerClosed"
  /\ \/ spinPc = "handle" /\ handled < Len(requests)
     \/ spinPc = "loop" /\ cursor <= Len(handles) /\ task[handles[cursor]] = "value"
  /\ crashed' = TRUE
  /\ UNCHANGED <<registryVars, callVars>>

-----------------------------------------------------------------------------
(* callbackWrapper, on the thread of std::async                            *)

\* The functions getCallback may find: the old or the new one while
\* registerCallback replaces it.
Found(name) ==
  {v \in 1..version :
     \/ HasCallback(name) /\ v = callbacks[name]
     \/ registering = name /\ v = version}

\* getCallback again.  While registerCallback writes to the map, the look-up
\* may miss any name; the empty function throws when it is called.
TaskStart(q) ==
  /\ task[q] = "started"
  /\ \/ /\ \E v \in Found(requests[q].name) : ran' = [ran EXCEPT ![q] = v]
        /\ task' = [task EXCEPT ![q] = "running"]
     \/ /\ ~Idle \/ Found(requests[q].name) = {}
        /\ task' = [task EXCEPT ![q] = "nothing"]
        /\ UNCHANGED ran
  /\ UNCHANGED <<registryVars, linkVars, requests, spinVars, life, crashed>>

\* The look-up meets the map in an inconsistent state.
TaskRace(q) ==
  /\ task[q] = "started"
  /\ ~Idle
  /\ crashed' = TRUE
  /\ UNCHANGED <<registryVars, callVars>>

\* The callback returns a value, too many values or nothing, or it throws.
TaskEnd(q) ==
  /\ task[q] = "running"
  /\ \E result \in Finished : task' = [task EXCEPT ![q] = result]
  /\ UNCHANGED <<registryVars, linkVars, requests, spinVars, ran, life, crashed>>

-----------------------------------------------------------------------------
(* The end: the members of HiveMindBridge in reverse order of declaration  *)

\* ~HiveMindBridgeImpl closes the connection and joins its threads.
Destroy ==
  /\ Spinning
  /\ life' = "destroying"
  /\ link' = "down"
  /\ UNCHANGED <<registryVars, session, requests, spinVars, taskVars, crashed>>

\* Wrong variants: giving up a future does not wait for its callback; a
\* callback that throws never makes its future ready.
NeverWaits(q) == TRUE
ValueWaitedFor(q) == task[q] = "value"

\* The last reference to a future of std::async waits for the callback.
WaitedFor(q) == task[q] \notin Unfinished

\* The destructor of m_inboundRequestsQueue, one handle.
DestroyHandle ==
  /\ life = "destroying"
  /\ handles # << >>
  /\ WaitedFor(Head(handles))
  /\ handles' = Tail(handles)
  /\ UNCHANGED <<registryVars, linkVars, requests, handled, spinPc, cursor, wire,
                 taskVars, life, crashed>>

\* ~UserCallbackMap, long after the bridge that was declared last.
DestroyRegistry ==
  /\ life = "destroying"
  /\ handles = << >>
  /\ life' = "gone"
  /\ UNCHANGED <<registryVars, linkVars, requests, spinVars, taskVars, crashed>>

-----------------------------------------------------------------------------
Init ==
  /\ RegistryInit
  /\ link = "down"
  /\ session = 0
  /\ requests = << >>
  /\ handled = 0
  /\ spinPc = "idle"
  /\ cursor = 1
  /\ handles = << >>
  /\ task = << >>
  /\ ran = << >>
  /\ wire = << >>
  /\ life = "alive"
  /\ crashed = FALSE

SpinStep == Registered \/ SpinBegin \/ Handle \/ HandleNothing \/ Collect \/ EndSpin
DestructorStep == DestroyHandle \/ DestroyRegistry
TaskStep(q) == q \in 1..Len(task) /\ (TaskStart(q) \/ TaskRace(q) \/ TaskEnd(q))

Next ==
  /\ ~crashed
  /\ \/ SpinStep \/ HandlePastEnd \/ SendCrash \/ Reconnect
     \/ Arrive \/ PeerClose \/ NoticeClose \/ Register
     \/ Destroy \/ DestructorStep
     \/ \E q \in 1..MaxRequests : TaskStep(q)

Spec == Init /\ [][Next]_vars

\* The application keeps calling spin(), and started threads are scheduled.
\* Callbacks may run for ever, and nobody has to connect.
FairSpec ==
  /\ Spec
  /\ WF_vars(~crashed /\ (SpinStep \/ DestructorStep))
  /\ \A q \in 1..MaxRequests :
       WF_vars(~crashed /\ q \in 1..Len(task) /\ TaskStart(q))

-----------------------------------------------------------------------------
(* Properties                                                              *)

\* Every variable has its type; handles in m_inboundRequestsQueue belong to
\* requests that were taken off the inbound queue (spin, lines 42-48).
TypeOK ==
  /\ callbacks \in [DOMAIN callbacks -> 0..version]
  /\ DOMAIN callbacks \subseteq Names \cup {Garbage}
  /\ names \in Seq(Names)
  /\ registering \in Names \cup {None}
  /\ version \in 0..MaxRegistrations
  /\ link \in {"up", "peerClosed", "down"}
  /\ session \in 0..MaxSessions
  /\ requests \in Seq(Request)
  /\ handled \in 0..Len(requests)
  /\ spinPc \in {"idle", "handle", "loop"}
  /\ cursor \in Nat
  /\ handles \in Seq(1..handled)
  /\ task \in [1..Len(requests) -> TaskStates]
  /\ ran \in [1..Len(requests) -> 0..version]
  /\ life \in {"alive", "destroying", "gone"}
  /\ crashed \in BOOLEAN

Returns(q) == {k \in 1..Len(wire) : wire[k].type = "return" /\ wire[k].req = q}
Acks(q) == {k \in 1..Len(wire) : wire[k].type = "ack" /\ wire[k].req = q}

\* A handled request has one acknowledgement, and a return comes at most once,
\* after an acknowledgement with Ok, on the same or a later connection, and
\* from a callback that ended with a value (spin, lines 46-78, and sendReturn).
ReturnProtocol ==
  \A q \in 1..Len(requests) :
    /\ Cardinality(Acks(q)) = (IF q <= handled THEN 1 ELSE 0)
    /\ Cardinality(Returns(q)) <= 1
    /\ \A k \in Returns(q) : \E a \in Acks(q) :
         /\ a < k /\ wire[a].status = "ok"
         /\ wire[k].session # 0 => wire[a].session <= wire[k].session
    /\ Returns(q) # {} => task[q] = "value" /\ ran[q] # 0

\* A handle stays in m_inboundRequestsQueue, once, until its callback's result
\* was taken, whichever earlier handles the loop erased or skipped and however
\* often the connection was lost meanwhile.
NoHandleLost ==
  \A q \in 1..handled :
    (life = "alive" /\ (task[q] \in Unfinished \/ (task[q] = "value" /\ Returns(q) = {})))
      => Cardinality({k \in 1..Len(handles) : handles[k] = q}) = 1

\* No callback outlives the map in which it looks itself up: the futures held
\* in m_inboundRequestsQueue make the destructor wait for every callback that
\* was started, and the members of HiveMindBridge are declared in that order.
RegistryOutlivesCallbacks ==
  life = "gone" => \A q \in 1..Len(task) : task[q] \notin Unfinished

\* A call acknowledged with Ok runs the function: the second look-up, on the
\* callback's thread, does not fail when the first one succeeded.
AckedCallsRun ==
  \A q \in 1..handled :
    (task[q] \in Finished) => ran[q] # 0

\* Description answers agree for ever: two answers name the same function
\* exactly when they are for the same index, so a remote enumeration that
\* overlaps registrations sees each function once.
EnumerationStable ==
  \A j, k \in 1..Len(wire) :
    (wire[j].status = "described" /\ wire[k].status = "described")
      => (requests[wire[j].req].index = requests[wire[k].req].index
            <=> wire[j].value = wire[k].value)

\* The value of a finished callback is sent, even if callbacks that were
\* called earlier never end and the connection was lost and replaced in
\* between, provided that some connection lasts.
ReturnsSent ==
  <>[](link = "up" /\ life = "alive" /\ ~crashed)
    => \A q \in 1..MaxRequests :
         (q \in 1..Len(task) /\ task[q] = "value")
           ~> (q \in 1..Len(task) /\ Returns(q) # {})

\* The destructor waits for nothing but running callbacks: if they all end,
\* it ends.
DestructionEnds ==
  <>[](\A q \in 1..Len(task) : task[q] # "running")
    => ((life = "destroying") ~> (life = "gone" \/ crashed))
=============================================================================
