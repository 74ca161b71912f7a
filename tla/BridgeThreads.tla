--------------------------- MODULE BridgeThreads ----------------------------
(***************************************************************************)
(* The life cycle of a connection: TCPServer, the branch of spin() that    *)
(* connects, greet(), the inbound and the outbound thread as far as they   *)
(* start, block, notice the end of the connection and exit, and the        *)
(* destructors.  The thread that calls spin() also runs the destructors    *)
(* ("main").                                                               *)
(*                                                                         *)
(* Descriptors are numbers that the kernel hands out again, lowest first,  *)
(* and that the rest of the application uses too.  TCPServer keeps the     *)
(* number of the client's descriptor in m_clientFd, never resets it, and   *)
(* leaves it uninitialized until the first accept().                       *)
(***************************************************************************)
EXTENDS Naturals, FiniteSets

CONSTANTS
  MaxFd,            \* descriptors are 1..MaxFd
  MaxConnections,   \* bound: clients accepted
  MaxAppOpens       \* bound: descriptors the rest of the application opens

ASSUME BoundsAssumption ==
  MaxFd \in Nat \ {0} /\ MaxConnections \in Nat /\ MaxAppOpens \in Nat

VARIABLES
  pc,               \* where each thread is
  ret,              \* where a thread goes on after TCPServer::close
  connected,        \* m_isClientConnected
  clientFd,         \* m_clientFd
  fds,              \* the descriptor table of the process
  sock,             \* the socket of the latest connection
  conns,            \* number of clients accepted
  connects,         \* how often the onConnect hook ran
  disconnects,      \* how often the onDisconnect hook ran
  silent,           \* history: clients the bridge closed itself after accept
  noticed,          \* history: connections whose end a recv() reported
  appOpens, appHeld \* descriptors the application opened, and holds

vars == <<pc, ret, connected, clientFd, fds, sock, conns, connects,
          disconnects, silent, noticed, appOpens, appHeld>>

Fds == 1..MaxFd
BadFd == 0          \* a number that is no descriptor, such as accept's -1
Threads == {"main", "in", "out"}
Socks == {"none", "open", "peerClosed", "reset", "shut"}

At(t, l) == pc[t] = l
Goto(t, l) == pc' = [pc EXCEPT ![t] = l]

\* m_clientFd names the client's socket.
OnClient == clientFd \in Fds /\ fds[clientFd] = "client"

Lowest(f) == fds[f] = "free" /\ \A g \in 1..(f - 1) : fds[g] # "free"

hookVars == <<connects, disconnects, silent, noticed>>
appVars == <<appOpens, appHeld>>
tcpVars == <<connected, clientFd, fds, sock, conns>>

-----------------------------------------------------------------------------
(* TCPServer::close, run by either thread                                  *)

Close(t, after) ==
  /\ Goto(t, "shutdown")
  /\ ret' = [ret EXCEPT ![t] = after]

\* Wrong variant: close() without ::shutdown.
WrongCloseShutdown(t) ==
  /\ At(t, "shutdown")
  /\ Goto(t, "closeFd")
  /\ UNCHANGED <<ret, tcpVars, hookVars, appVars>>

\* ::shutdown(m_clientFd) wakes a blocked recv().
CloseShutdown(t) ==
  /\ At(t, "shutdown")
  /\ sock' = IF OnClient THEN "shut" ELSE sock
  /\ Goto(t, "closeFd")
  /\ UNCHANGED <<ret, connected, clientFd, fds, conns, hookVars, appVars>>

\* ::close(m_clientFd) frees whatever has that number now.
CloseFd(t) ==
  /\ At(t, "closeFd")
  /\ fds' = [f \in Fds |-> IF f = clientFd THEN "free" ELSE fds[f]]
  /\ Goto(t, "clearFlag")
  /\ UNCHANGED <<ret, connected, clientFd, sock, conns, hookVars, appVars>>

CloseClearFlag(t) ==
  /\ At(t, "clearFlag")
  /\ connected' = FALSE
  /\ Goto(t, ret[t])
  /\ UNCHANGED <<ret, clientFd, fds, sock, conns, hookVars, appVars>>

-----------------------------------------------------------------------------
(* TCPServer::receive, run by greet() and by the inbound thread            *)

\* A message did not arrive: the inbound thread loops; greet() returns false
\* and spin() closes the client.
ReceiveFailed(t) ==
  \/ t = "in" /\ Goto(t, "loop") /\ UNCHANGED <<ret, silent>>
  \/ t = "main" /\ Close(t, "idle") /\ silent' = silent + 1

\* The call of recv(): it fails at once unless m_clientFd is the client.
Recv(t) ==
  /\ At(t, "recv")
  /\ \/ OnClient /\ Goto(t, "blocked") /\ UNCHANGED <<ret, silent>>
     \/ ~OnClient /\ ReceiveFailed(t)
  /\ UNCHANGED <<tcpVars, connects, disconnects, noticed, appVars>>

\* recv() gets a message.  greet() wants a greeting.
RecvMessage(t) ==
  /\ At(t, "blocked")
  /\ sock = "open"
  /\ \/ t = "in" /\ Goto(t, "loop") /\ UNCHANGED <<ret, silent>>
     \/ t = "main" /\ Goto(t, "startIn") /\ UNCHANGED <<ret, silent>>
     \/ t = "main" /\ ReceiveFailed(t)
  /\ UNCHANGED <<tcpVars, connects, disconnects, noticed, appVars>>

\* recv() returns -1, which is not taken for a disconnection; the next recv()
\* on that socket would return 0.
RecvError(t) ==
  /\ At(t, "blocked")
  /\ sock = "reset"
  /\ sock' = "peerClosed"
  /\ noticed' = noticed \cup {conns}
  /\ ReceiveFailed(t)
  /\ UNCHANGED <<connected, clientFd, fds, conns, connects, disconnects, appVars>>

\* Wrong variant: the end of the stream is only a failed read.
WrongRecvEnd(t) ==
  /\ At(t, "blocked")
  /\ sock \in {"peerClosed", "shut"}
  /\ ReceiveFailed(t)
  /\ UNCHANGED <<tcpVars, connects, disconnects, noticed, appVars>>

\* recv() returns 0: the onDisconnect hook, the flag, close().
RecvEnd(t) ==
  /\ At(t, "blocked")
  /\ sock \in {"peerClosed", "shut"}
  /\ noticed' = noticed \cup {conns}
  /\ Goto(t, "hookD")
  /\ UNCHANGED <<ret, tcpVars, connects, disconnects, silent, appVars>>

OnDisconnect(t) ==
  /\ At(t, "hookD")
  /\ disconnects' = disconnects + 1
  /\ Goto(t, "flagOff")
  /\ UNCHANGED <<ret, tcpVars, connects, silent, noticed, appVars>>

\* Wrong variants: the flag and the socket are left alone; the inbound thread
\* goes on where greet() does.
NoFlagOff(t) ==
  /\ At(t, "flagOff")
  /\ Goto(t, IF t = "in" THEN "loop" ELSE "greetFailed")
  /\ UNCHANGED <<ret, tcpVars, hookVars, appVars>>

WrongFlagOff(t) ==
  /\ At(t, "flagOff")
  /\ connected' = FALSE
  /\ Close(t, "greetFailed")
  /\ UNCHANGED <<clientFd, fds, sock, conns, hookVars, appVars>>

FlagOff(t) ==
  /\ At(t, "flagOff")
  /\ connected' = FALSE
  /\ Close(t, IF t = "in" THEN "loop" ELSE "greetFailed")
  /\ UNCHANGED <<clientFd, fds, sock, conns, hookVars, appVars>>

-----------------------------------------------------------------------------
(* spin() without a client                                                 *)

Spin ==
  /\ At("main", "idle")
  /\ ~connected
  /\ Goto("main", "joinIn")
  /\ UNCHANGED <<ret, tcpVars, hookVars, appVars>>

\* Wrong variant: a detached thread is not waited for.
WrongJoin(t, here, next) ==
  /\ At("main", here)
  /\ Goto("main", next)
  /\ UNCHANGED <<ret, tcpVars, hookVars, appVars>>

\* join() waits for a joinable thread and makes it not joinable.
Join(t, here, next) ==
  /\ At("main", here)
  /\ pc[t] \in {"none", "exited"}
  /\ pc' = [pc EXCEPT ![t] = "none", !["main"] = next]
  /\ UNCHANGED <<ret, tcpVars, hookVars, appVars>>

JoinInbound == Join("in", "joinIn", "joinOut")
JoinOutbound == Join("out", "joinOut", "accept")

\* accept() in TCPServer::listen.
Accept ==
  /\ At("main", "accept")
  /\ conns < MaxConnections
  /\ \E f \in Fds :
       /\ Lowest(f)
       /\ fds' = [fds EXCEPT ![f] = "client"]
       /\ clientFd' = f
  /\ sock' = "open"
  /\ conns' = conns + 1
  /\ Goto("main", "hookC")
  /\ UNCHANGED <<ret, connected, hookVars, appVars>>

\* accept() fails: greet() returns false at once and spin() calls close().
AcceptFails ==
  /\ At("main", "accept")
  /\ clientFd' = BadFd
  /\ connected' = FALSE
  /\ Close("main", "idle")
  /\ UNCHANGED <<fds, sock, conns, hookVars, appVars>>

\* The onConnect hook runs before the flag is set.
OnConnect ==
  /\ At("main", "hookC")
  /\ connects' = connects + 1
  /\ Goto("main", "setFlag")
  /\ UNCHANGED <<ret, tcpVars, disconnects, silent, noticed, appVars>>

\* The flag is set; greet() sends its greeting and receives.
SetFlag ==
  /\ At("main", "setFlag")
  /\ connected' = TRUE
  /\ Goto("main", "recv")
  /\ UNCHANGED <<ret, clientFd, fds, sock, conns, hookVars, appVars>>

\* receive() closed the client and greet() returned false: close() again.
GreetFailed ==
  /\ At("main", "greetFailed")
  /\ Close("main", "idle")
  /\ UNCHANGED <<tcpVars, hookVars, appVars>>

\* m_inboundThread = std::thread(...), m_outboundThread = std::thread(...)
StartInbound ==
  /\ At("main", "startIn")
  /\ pc' = [pc EXCEPT !["in"] = "loop", !["main"] = "startOut"]
  /\ UNCHANGED <<ret, tcpVars, hookVars, appVars>>

StartOutbound ==
  /\ At("main", "startOut")
  /\ pc' = [pc EXCEPT !["out"] = "loop", !["main"] = "idle"]
  /\ UNCHANGED <<ret, tcpVars, hookVars, appVars>>

-----------------------------------------------------------------------------
(* The loops of the two threads                                            *)

InboundLoop ==
  /\ At("in", "loop")
  /\ Goto("in", IF connected THEN "recv" ELSE "exited")
  /\ UNCHANGED <<ret, tcpVars, hookVars, appVars>>

\* Its work on the queue is in OutboundRequests and never blocks.
OutboundLoop ==
  /\ At("out", "loop")
  /\ ~connected
  /\ Goto("out", "exited")
  /\ UNCHANGED <<ret, tcpVars, hookVars, appVars>>

-----------------------------------------------------------------------------
(* ~HiveMindBridgeImpl, then ~TCPServer                                    *)

Destroy ==
  /\ At("main", "idle")
  /\ Close("main", "dJoinIn")
  /\ UNCHANGED <<tcpVars, hookVars, appVars>>

DestroyJoinInbound == Join("in", "dJoinIn", "dJoinOut")
DestroyJoinOutbound == Join("out", "dJoinOut", "dServer")

DestroyServer ==
  /\ At("main", "dServer")
  /\ Close("main", "done")
  /\ UNCHANGED <<tcpVars, hookVars, appVars>>

-----------------------------------------------------------------------------
(* The peer, and the rest of the application                               *)

PeerLeaves ==
  /\ sock = "open"
  /\ sock' \in {"peerClosed", "reset"}
  /\ UNCHANGED <<pc, ret, connected, clientFd, fds, conns, hookVars, appVars>>

AppOpen ==
  /\ appOpens < MaxAppOpens
  /\ \E f \in Fds :
       /\ Lowest(f)
       /\ fds' = [fds EXCEPT ![f] = "app"]
       /\ appHeld' = appHeld \cup {f}
  /\ appOpens' = appOpens + 1
  /\ UNCHANGED <<pc, ret, connected, clientFd, sock, conns, hookVars>>

AppClose ==
  /\ \E f \in appHeld :
       /\ fds' = [fds EXCEPT ![f] = "free"]
       /\ appHeld' = appHeld \ {f}
  /\ UNCHANGED <<pc, ret, connected, clientFd, sock, conns, hookVars, appOpens>>

-----------------------------------------------------------------------------
\* m_clientFd is uninitialized: it may be any number.
Init ==
  /\ pc = [t \in Threads |-> IF t = "main" THEN "idle" ELSE "none"]
  /\ ret = [t \in Threads |-> "idle"]
  /\ connected = FALSE
  /\ clientFd \in Fds \cup {BadFd}
  /\ fds = [f \in Fds |-> "free"]
  /\ sock = "none"
  /\ conns = 0
  /\ connects = 0
  /\ disconnects = 0
  /\ silent = 0
  /\ noticed = {}
  /\ appOpens = 0
  /\ appHeld = {}

\* The steps of TCPServer on behalf of thread t that need nothing of the peer.
ServerStep(t) ==
  \/ CloseShutdown(t) \/ CloseFd(t) \/ CloseClearFlag(t)
  \/ Recv(t) \/ RecvError(t) \/ RecvEnd(t) \/ OnDisconnect(t) \/ FlagOff(t)

SpinStep ==
  \/ Spin \/ JoinInbound \/ JoinOutbound \/ OnConnect \/ SetFlag \/ GreetFailed
  \/ StartInbound \/ StartOutbound

DestructorStep == DestroyJoinInbound \/ DestroyJoinOutbound \/ DestroyServer

MainStep == ServerStep("main") \/ SpinStep \/ DestructorStep
InboundStep == ServerStep("in") \/ InboundLoop

Environment ==
  \/ Accept \/ AcceptFails \/ Destroy
  \/ \E t \in {"main", "in"} : RecvMessage(t)
  \/ PeerLeaves \/ AppOpen \/ AppClose

Next == MainStep \/ InboundStep \/ OutboundLoop \/ Environment

Spec == Init /\ [][Next]_vars

\* The threads are scheduled and the application keeps calling spin().  The
\* peer need not connect, speak or leave, and nobody has to destroy the bridge.
FairSpec ==
  Spec /\ WF_vars(MainStep) /\ WF_vars(InboundStep) /\ WF_vars(OutboundLoop)

-----------------------------------------------------------------------------
(* Properties                                                              *)

MainLabels ==
  {"idle", "joinIn", "joinOut", "accept", "hookC", "setFlag", "recv", "blocked",
   "hookD", "flagOff", "shutdown", "closeFd", "clearFlag", "greetFailed",
   "startIn", "startOut", "dJoinIn", "dJoinOut", "dServer", "done"}
WorkerLabels ==
  {"none", "loop", "recv", "blocked", "hookD", "flagOff", "shutdown", "closeFd",
   "clearFlag", "exited"}

\* Every thread is at a label of its own code and returns from close() into it
\* (receive and close are shared by main and the inbound thread).
TypeOK ==
  /\ pc \in [Threads -> MainLabels \cup WorkerLabels]
  /\ pc["main"] \in MainLabels
  /\ pc["in"] \in WorkerLabels
  /\ pc["out"] \in {"none", "loop", "exited"}
  /\ ret \in [Threads -> {"idle", "greetFailed", "loop", "dJoinIn", "done"}]
  /\ connected \in BOOLEAN
  /\ clientFd \in Fds \cup {BadFd}
  /\ fds \in [Fds -> {"free", "client", "app"}]
  /\ sock \in Socks
  /\ conns \in 0..MaxConnections
  /\ connects \in Nat /\ disconnects \in Nat /\ silent \in Nat
  /\ noticed \subseteq 1..conns
  /\ appOpens \in 0..MaxAppOpens
  /\ appHeld \subseteq Fds

\* The thread objects are free whenever a client is accepted, greeted and its
\* threads are started (spin, lines 80-92): no worker of an earlier connection
\* can read, close or answer on the new one, and the assignment to a
\* std::thread never meets a joinable thread, which would end the process.
WorkersJoined ==
  /\ pc["main"] \in {"accept", "hookC", "setFlag", "recv", "blocked", "hookD",
                     "flagOff", "greetFailed", "startIn"}
       => pc["in"] = "none" /\ pc["out"] = "none"
  /\ pc["main"] = "startOut" => pc["out"] = "none"

\* The hooks alternate: a connection gets at most one onDisconnect, and the
\* next onConnect comes only after the previous client's onDisconnect or after
\* the bridge closed that client itself (TCPServer::listen and receive).
HooksPaired ==
  /\ disconnects + silent <= connects
  /\ connects <= disconnects + silent + 1

\* TCPServer::close is documented to "Terminate a client connection": once a
\* client was accepted, so that m_clientFd has a value, no call of it closes a
\* descriptor the rest of the application holds.
ClosesOnlyClient == conns > 0 => \A f \in appHeld : fds[f] = "app"

\* onDisconnect is run "as soon as the TCP Server notices that the connection
\* was lost": when the next client can be accepted, it has run for every
\* connection whose end a recv() reported.
LossReported ==
  pc["main"] = "accept" => Cardinality(noticed) <= disconnects

\* The bridge is being destroyed.
Destroying == ret["main"] \in {"dJoinIn", "done"}

\* The descriptor of the client was closed by the application, which held the
\* same number from before a stray close() of the bridge (ClosesOnlyClient).
ClientFdStolen == connected /\ ~OnClient /\ pc["main"] # "clearFlag"

\* When the client of a running bridge leaves, spin() comes back to accept(),
\* unless the bridge is destroyed first (receive, the loops of both threads,
\* and spin, lines 80-88).
ListensAgain ==
  (sock \in {"peerClosed", "reset"} /\ connected)
     ~> (pc["main"] = "accept" \/ Destroying \/ ClientFdStolen)

\* The destructor of a bridge ends, whatever its threads were doing: close()
\* wakes them up from recv(), and both joins return.
DestructorEnds ==
  (pc["main"] = "shutdown" /\ ret["main"] = "dJoinIn")
     ~> (pc["main"] = "done" \/ ClientFdStolen)
=============================================================================
