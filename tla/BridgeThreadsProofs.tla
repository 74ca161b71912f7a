------------------------ MODULE BridgeThreadsProofs -------------------------
(***************************************************************************)
(* Theorems about BridgeThreads, for every number of descriptors, clients  *)
(* and descriptors of the application.                                     *)
(***************************************************************************)
EXTENDS BridgeThreads, TLAPS

-----------------------------------------------------------------------------
(* The inductive invariant                                                 *)

Closing == {"shutdown", "closeFd", "clearFlag"}

\* Each thread that runs close() goes on where it came from, and a connection
\* was accepted before anything is known of its socket.
ReturnInv ==
  /\ ret["main"] \in {"idle", "greetFailed", "dJoinIn", "done"}
  /\ pc["in"] \in Closing => ret["in"] = "loop"
  /\ sock # "none" => conns > 0
  /\ \A f \in Fds : fds[f] = "client" => conns > 0

\* Where the inbound thread, and where the outbound thread, cannot exist.
NoInbound ==
  \/ pc["main"] \in {"joinOut", "accept", "hookC", "setFlag", "recv", "blocked",
                     "hookD", "flagOff", "greetFailed", "startIn",
                     "dJoinOut", "dServer", "done"}
  \/ pc["main"] \in Closing /\ ret["main"] # "dJoinIn"
NoOutbound ==
  \/ pc["main"] \in {"accept", "hookC", "setFlag", "recv", "blocked", "hookD",
                     "flagOff", "greetFailed", "startIn", "startOut",
                     "dServer", "done"}
  \/ pc["main"] \in Closing /\ ret["main"] # "dJoinIn"

ThreadInv ==
  /\ NoInbound => pc["in"] = "none"
  /\ NoOutbound => pc["out"] = "none"

\* The hooks owe one onDisconnect, or they are even.
Owing == connects = disconnects + silent + 1
Even == connects = disconnects + silent

\* When the hooks owe an onDisconnect and when they do not: it is owed from
\* the onConnect hook on until a recv() reports the end or the bridge closes
\* the client, and without a connection spin() listens only when they are even.
LedgerInv ==
  /\ Owing \/ Even
  /\ pc["main"] \in {"setFlag", "recv", "blocked", "hookD", "startIn"} => Owing
  /\ pc["main"] \in {"recv", "blocked", "hookD", "startIn"} => connected
  /\ pc["main"] \in {"joinIn", "joinOut", "accept", "hookC", "flagOff", "greetFailed"} => Even
  /\ pc["main"] \in Closing /\ ret["main"] \in {"idle", "greetFailed"} => Even
  /\ pc["main"] \in {"idle", "startOut"} /\ ~connected => Even
  /\ pc["in"] \in {"recv", "blocked", "hookD"} => Owing
  /\ pc["in"] = "loop" /\ connected => Owing
  /\ pc["in"] \in {"flagOff"} \cup Closing => Even

IInv == TypeOK /\ ReturnInv /\ ThreadInv /\ LedgerInv

-----------------------------------------------------------------------------
(* Types                                                                   *)

\* The invariant holds when the bridge is constructed, whatever number the
\* uninitialized m_clientFd holds.
LEMMA InvInit == Init => IInv
<1>. SUFFICES ASSUME Init  PROVE IInv
  OBVIOUS
<1>1. TypeOK
  <2>1. /\ pc \in [Threads -> MainLabels \cup WorkerLabels]
        /\ pc["main"] \in MainLabels
        /\ pc["in"] \in WorkerLabels
        /\ pc["out"] \in {"none", "loop", "exited"}
    BY DEF Init, Threads, MainLabels, WorkerLabels
  <2>2. ret \in [Threads -> {"idle", "greetFailed", "loop", "dJoinIn", "done"}]
    BY DEF Init
  <2>3. fds \in [Fds -> {"free", "client", "app"}]
    BY DEF Init
  <2>4. /\ conns \in 0..MaxConnections
        /\ connects \in Nat /\ disconnects \in Nat /\ silent \in Nat
        /\ appOpens \in 0..MaxAppOpens
    BY BoundsAssumption DEF Init
  <2>5. clientFd \in Fds \cup {BadFd} /\ noticed \subseteq 1..conns /\ appHeld \subseteq Fds
    BY DEF Init
  <2>6. connected \in BOOLEAN /\ sock \in Socks
    BY DEF Init, Socks
  <2>. QED  BY <2>1, <2>2, <2>3, <2>4, <2>5, <2>6 DEF TypeOK
<1>4. ReturnInv
  BY DEF Init, ReturnInv, Threads, Closing
<1>2. ThreadInv
  BY DEF Init, ThreadInv, NoInbound, NoOutbound, Threads
<1>3. LedgerInv
  BY DEF Init, LedgerInv, Owing, Even, Threads, Closing
<1>. QED  BY <1>1, <1>2, <1>3, <1>4 DEF IInv

\* The steps of TCPServer on behalf of main or of the inbound thread, and
\* those that belong to one thread, or to the environment.
LEMMA NextCases ==
  ASSUME Next
  PROVE  \/ \E t \in {"main", "in"} :
              \/ CloseShutdown(t) \/ CloseFd(t) \/ CloseClearFlag(t)
              \/ Recv(t) \/ RecvMessage(t) \/ RecvError(t) \/ RecvEnd(t)
              \/ OnDisconnect(t) \/ FlagOff(t)
         \/ SpinStep \/ DestructorStep \/ InboundLoop \/ OutboundLoop
         \/ Accept \/ AcceptFails \/ Destroy \/ PeerLeaves \/ AppOpen \/ AppClose
BY DEF Next, MainStep, InboundStep, ServerStep, Environment

\* A jump of one thread to a label of its own keeps the type of pc.
LEMMA GotoType ==
  ASSUME TypeOK, NEW t \in Threads, NEW l, Goto(t, l),
         t = "main" => l \in MainLabels,
         t = "in" => l \in WorkerLabels,
         t = "out" => l \in {"none", "loop", "exited"}
  PROVE  /\ pc' \in [Threads -> MainLabels \cup WorkerLabels]
         /\ pc'["main"] \in MainLabels
         /\ pc'["in"] \in WorkerLabels
         /\ pc'["out"] \in {"none", "loop", "exited"}
         /\ pc'[t] = l
         /\ \A u \in Threads \ {t} : pc'[u] = pc[u]
BY DEF TypeOK, Goto, Threads, WorkerLabels

\* The type of pc, in one conjunct.
PcType ==
  /\ pc \in [Threads -> MainLabels \cup WorkerLabels]
  /\ pc["main"] \in MainLabels
  /\ pc["in"] \in WorkerLabels
  /\ pc["out"] \in {"none", "loop", "exited"}

\* Every step keeps the threads in their own code.
LEMMA PcStep ==
  ASSUME TypeOK, ReturnInv, Next
  PROVE  PcType'
<1>. USE DEF PcType
<1>1. ASSUME NEW t \in {"main", "in"},
             \/ CloseShutdown(t) \/ CloseFd(t) \/ Recv(t) \/ RecvMessage(t)
             \/ RecvError(t) \/ RecvEnd(t) \/ OnDisconnect(t) \/ FlagOff(t)
      PROVE  PcType'
  <2>1. \/ Goto(t, "shutdown") \/ Goto(t, "closeFd") \/ Goto(t, "clearFlag")
        \/ Goto(t, "blocked") \/ Goto(t, "hookD") \/ Goto(t, "flagOff")
        \/ t = "in" /\ Goto(t, "loop")
        \/ t = "main" /\ Goto(t, "startIn")
    BY <1>1 DEF CloseShutdown, CloseFd, Recv, RecvMessage, RecvError, RecvEnd,
                OnDisconnect, FlagOff, ReceiveFailed, Close
  <2>. QED  BY <2>1, GotoType DEF Threads, MainLabels, WorkerLabels
<1>2. ASSUME NEW t \in {"main", "in"}, CloseClearFlag(t)
      PROVE  PcType'
  <2>1. t = "in" => ret[t] \in WorkerLabels
    BY <1>2 DEF CloseClearFlag, At, ReturnInv, Closing, WorkerLabels
  <2>2. t = "main" => ret[t] \in MainLabels
    BY DEF ReturnInv, MainLabels
  <2>. QED  BY <1>2, <2>1, <2>2, GotoType DEF CloseClearFlag, Threads
<1>3. CASE \/ Spin \/ OnConnect \/ SetFlag \/ GreetFailed \/ DestroyServer
           \/ Accept \/ AcceptFails \/ Destroy
  <2>1. \/ Goto("main", "joinIn") \/ Goto("main", "setFlag") \/ Goto("main", "recv")
        \/ Goto("main", "shutdown") \/ Goto("main", "hookC")
    BY <1>3 DEF Spin, OnConnect, SetFlag, GreetFailed, DestroyServer, Accept,
                AcceptFails, Destroy, Close
  <2>. QED  BY <2>1, GotoType DEF Threads, MainLabels
<1>4. ASSUME NEW t \in {"in", "out"}, NEW here, NEW next \in MainLabels, Join(t, here, next)
      PROVE  PcType'
  BY <1>4 DEF Join, TypeOK, Threads, WorkerLabels
<1>5. CASE \/ JoinInbound \/ JoinOutbound \/ DestroyJoinInbound \/ DestroyJoinOutbound
  BY <1>4, <1>5 DEF JoinInbound, JoinOutbound, DestroyJoinInbound, DestroyJoinOutbound,
                    MainLabels
<1>6. CASE StartInbound \/ StartOutbound
  BY <1>6 DEF StartInbound, StartOutbound, TypeOK, Threads, MainLabels, WorkerLabels
<1>7. CASE InboundLoop
  BY <1>7, GotoType DEF InboundLoop, Threads, WorkerLabels
<1>8. CASE OutboundLoop
  BY <1>8, GotoType DEF OutboundLoop, Threads
<1>9. CASE PeerLeaves \/ AppOpen \/ AppClose
  BY <1>9 DEF PeerLeaves, AppOpen, AppClose, TypeOK
<1>. QED
  BY <1>1, <1>2, <1>3, <1>5, <1>6, <1>7, <1>8, <1>9, NextCases DEF SpinStep, DestructorStep

\* Where the threads go on after close().
RetType ==
  /\ ret \in [Threads -> {"idle", "greetFailed", "loop", "dJoinIn", "done"}]
  /\ ret["main"] \in {"idle", "greetFailed", "dJoinIn", "done"}
  /\ pc["in"] \in Closing => ret["in"] = "loop"

\* A call of close() by main or by the inbound thread.
LEMMA CloseRet ==
  ASSUME TypeOK, ReturnInv, NEW t \in {"main", "in"}, NEW after, Close(t, after),
         t = "in" => after = "loop",
         t = "main" => after \in {"idle", "greetFailed", "dJoinIn", "done"}
  PROVE  RetType'
BY DEF Close, Goto, TypeOK, ReturnInv, RetType, Threads, Closing

\* Every step keeps the places to go on at.
LEMMA RetStep ==
  ASSUME TypeOK, ReturnInv, Next
  PROVE  RetType'
<1>1. ASSUME NEW t \in {"main", "in"}, ReceiveFailed(t)
      PROVE  RetType'
  <2>1. CASE t = "in"
    BY <1>1, <2>1 DEF ReceiveFailed, Goto, TypeOK, ReturnInv, RetType, Threads, Closing
  <2>2. CASE t = "main"
    BY <1>1, <2>2, CloseRet DEF ReceiveFailed
  <2>. QED  BY <2>1, <2>2
<1>2. ASSUME NEW t \in {"main", "in"}, FlagOff(t)
      PROVE  RetType'
  BY <1>2, CloseRet DEF FlagOff
<1>3. CASE AcceptFails \/ GreetFailed \/ Destroy \/ DestroyServer
  BY <1>3, CloseRet DEF AcceptFails, GreetFailed, Destroy, DestroyServer
<1>4. ASSUME UNCHANGED ret, pc'["in"] \in Closing => pc["in"] \in Closing
      PROVE  RetType'
  BY <1>4 DEF TypeOK, ReturnInv, RetType
<1>5. ASSUME NEW t \in {"main", "in"},
             \/ CloseShutdown(t) \/ CloseFd(t) \/ CloseClearFlag(t)
             \/ Recv(t) \/ RecvMessage(t) \/ RecvError(t) \/ RecvEnd(t) \/ OnDisconnect(t)
      PROVE  RetType'
  <2>1. CASE CloseShutdown(t) \/ CloseFd(t)
    BY <1>4, <2>1 DEF CloseShutdown, CloseFd, At, Goto, TypeOK, Threads, Closing
  <2>2. CASE CloseClearFlag(t)
    BY <1>4, <2>2 DEF CloseClearFlag, At, Goto, TypeOK, ReturnInv, Threads, Closing
  <2>3. CASE RecvEnd(t) \/ OnDisconnect(t)
    BY <1>4, <2>3 DEF RecvEnd, OnDisconnect, At, Goto, TypeOK, Threads, Closing
  <2>4. CASE RecvError(t)
    BY <1>1, <2>4 DEF RecvError
  <2>5. CASE RecvMessage(t) \/ Recv(t)
    <3>1. \/ ReceiveFailed(t)
          \/ UNCHANGED ret /\ (Goto(t, "loop") \/ Goto(t, "startIn") \/ Goto(t, "blocked"))
      BY <2>5 DEF RecvMessage, Recv
    <3>. QED  BY <1>1, <1>4, <3>1 DEF Goto, TypeOK, Threads, Closing
  <2>. QED  BY <1>5, <2>1, <2>2, <2>3, <2>4, <2>5
<1>6. CASE \/ Spin \/ OnConnect \/ SetFlag \/ Accept
           \/ JoinInbound \/ JoinOutbound \/ DestroyJoinInbound \/ DestroyJoinOutbound
           \/ StartInbound \/ StartOutbound \/ InboundLoop \/ OutboundLoop
           \/ PeerLeaves \/ AppOpen \/ AppClose
  <2>1. UNCHANGED ret
    BY <1>6 DEF Spin, OnConnect, SetFlag, Accept, JoinInbound, JoinOutbound, DestroyJoinInbound,
                DestroyJoinOutbound, Join, StartInbound, StartOutbound, InboundLoop,
                OutboundLoop, PeerLeaves, AppOpen, AppClose
  <2>2. pc'["in"] \in Closing => pc["in"] \in Closing
    <3>1. CASE Spin \/ OnConnect \/ SetFlag \/ Accept \/ InboundLoop \/ OutboundLoop
      BY <3>1 DEF Spin, OnConnect, SetFlag, Accept, InboundLoop, OutboundLoop, Goto,
                  TypeOK, Threads, Closing
    <3>2. CASE JoinInbound \/ JoinOutbound \/ DestroyJoinInbound \/ DestroyJoinOutbound
      BY <3>2 DEF JoinInbound, JoinOutbound, DestroyJoinInbound, DestroyJoinOutbound, Join,
                  TypeOK, Threads, Closing
    <3>3. CASE StartInbound \/ StartOutbound
      BY <3>3 DEF StartInbound, StartOutbound, TypeOK, Threads, Closing
    <3>4. CASE PeerLeaves \/ AppOpen \/ AppClose
      BY <3>4 DEF PeerLeaves, AppOpen, AppClose
    <3>. QED  BY <1>6, <3>1, <3>2, <3>3, <3>4
  <2>. QED  BY <1>4, <2>1, <2>2
<1>. QED
  BY <1>2, <1>3, <1>5, <1>6, NextCases DEF SpinStep, DestructorStep

\* The rest of the type invariant: the connection, the descriptors, the hooks.
DataType ==
  /\ connected \in BOOLEAN
  /\ clientFd \in Fds \cup {BadFd}
  /\ fds \in [Fds -> {"free", "client", "app"}]
  /\ sock \in Socks
  /\ conns \in 0..MaxConnections
  /\ connects \in Nat /\ disconnects \in Nat /\ silent \in Nat
  /\ noticed \subseteq 1..conns
  /\ appOpens \in 0..MaxAppOpens
  /\ appHeld \subseteq Fds
  /\ sock # "none" => conns > 0
  /\ \A f \in Fds : fds[f] = "client" => conns > 0

\* Every step keeps these types.
LEMMA DataStep ==
  ASSUME TypeOK, ReturnInv, Next
  PROVE  DataType'
<1>. USE BoundsAssumption DEF hookVars, appVars, tcpVars
<1>0. DataType
  BY DEF TypeOK, ReturnInv, DataType
<1>1. ASSUME NEW t \in {"main", "in"}, CloseShutdown(t)
      PROVE  DataType'
  BY <1>0, <1>1 DEF CloseShutdown, OnClient, DataType, Socks
<1>2. ASSUME NEW t \in {"main", "in"}, CloseFd(t)
      PROVE  DataType'
  BY <1>0, <1>2 DEF CloseFd, DataType
<1>3. ASSUME NEW t \in {"main", "in"}, CloseClearFlag(t) \/ FlagOff(t)
      PROVE  DataType'
  BY <1>0, <1>3 DEF CloseClearFlag, FlagOff, DataType
<1>4. ASSUME NEW t \in {"main", "in"}, ReceiveFailed(t)
      PROVE  silent' \in Nat
  BY <1>0, <1>4 DEF ReceiveFailed, DataType
<1>5. ASSUME NEW t \in {"main", "in"}, Recv(t) \/ RecvMessage(t)
      PROVE  DataType'
  BY <1>0, <1>4, <1>5 DEF Recv, RecvMessage, DataType
<1>6. ASSUME NEW t \in {"main", "in"}, RecvError(t)
      PROVE  DataType'
  BY <1>0, <1>4, <1>6 DEF RecvError, DataType, Socks
<1>7. ASSUME NEW t \in {"main", "in"}, RecvEnd(t) \/ OnDisconnect(t)
      PROVE  DataType'
  <2>1. CASE RecvEnd(t)
    BY <1>0, <2>1 DEF RecvEnd, DataType, Socks
  <2>2. CASE OnDisconnect(t)
    BY <1>0, <2>2 DEF OnDisconnect, DataType
  <2>. QED  BY <1>7, <2>1, <2>2
<1>8. CASE \/ Spin \/ GreetFailed \/ JoinInbound \/ JoinOutbound \/ StartInbound
           \/ StartOutbound \/ DestructorStep \/ InboundLoop \/ OutboundLoop \/ Destroy
  <2>1. UNCHANGED <<tcpVars, hookVars, appVars>>
    BY <1>8 DEF Spin, GreetFailed, JoinInbound, JoinOutbound, StartInbound, StartOutbound,
                DestructorStep, DestroyJoinInbound, DestroyJoinOutbound, DestroyServer, Join,
                InboundLoop, OutboundLoop, Destroy
  <2>. QED  BY <1>0, <2>1 DEF DataType
<1>9. CASE OnConnect \/ SetFlag
  <2>1. CASE OnConnect
    BY <1>0, <2>1 DEF OnConnect, DataType
  <2>2. CASE SetFlag
    BY <1>0, <2>2 DEF SetFlag, DataType
  <2>. QED  BY <1>9, <2>1, <2>2
<1>10. CASE Accept
  BY <1>0, <1>10 DEF Accept, DataType, Socks
<1>11. CASE AcceptFails
  BY <1>0, <1>11 DEF AcceptFails, DataType
<1>12. CASE PeerLeaves
  BY <1>0, <1>12 DEF PeerLeaves, DataType, Socks
<1>13. CASE AppOpen \/ AppClose
  <2>1. CASE AppOpen
    BY <1>0, <2>1 DEF AppOpen, DataType
  <2>2. CASE AppClose
    BY <1>0, <2>2 DEF AppClose, DataType
  <2>. QED  BY <1>13, <2>1, <2>2
<1>. QED
  BY <1>1, <1>2, <1>3, <1>5, <1>6, <1>7, <1>8, <1>9, <1>10, <1>11, <1>12, <1>13, NextCases
     DEF SpinStep

-----------------------------------------------------------------------------
(* The threads of a connection                                             *)

\* A step of the inbound thread leaves the others where they are.
LEMMA InboundMoves ==
  ASSUME TypeOK, ThreadInv, NEW l, At("in", l), l # "none",
         UNCHANGED <<pc["main"], pc["out"], ret["main"]>>
  PROVE  ThreadInv'
BY DEF At, ThreadInv, NoInbound, NoOutbound

\* A step of main that neither starts nor joins a thread.
LEMMA MainMoves ==
  ASSUME ThreadInv, UNCHANGED <<pc["in"], pc["out"]>>,
         NoInbound' => NoInbound, NoOutbound' => NoOutbound
  PROVE  ThreadInv'
BY DEF ThreadInv

\* Every step keeps the workers out of the places where they cannot exist.
LEMMA ThreadStep ==
  ASSUME TypeOK, ReturnInv, ThreadInv, Next
  PROVE  ThreadInv'
<1>. USE DEF At, Goto, TypeOK, Threads
<1>1. ASSUME \/ CloseShutdown("in") \/ CloseFd("in") \/ CloseClearFlag("in")
             \/ Recv("in") \/ RecvMessage("in") \/ RecvError("in") \/ RecvEnd("in")
             \/ OnDisconnect("in") \/ FlagOff("in") \/ InboundLoop
      PROVE  ThreadInv'
  <2>1. UNCHANGED <<pc["main"], pc["out"], ret["main"]>>
    BY <1>1 DEF CloseShutdown, CloseFd, CloseClearFlag, Recv, RecvMessage, RecvError, RecvEnd,
                OnDisconnect, FlagOff, InboundLoop, ReceiveFailed, Close
  <2>2. \E l : At("in", l) /\ l # "none"
    BY <1>1 DEF CloseShutdown, CloseFd, CloseClearFlag, Recv, RecvMessage, RecvError, RecvEnd,
                OnDisconnect, FlagOff, InboundLoop
  <2>. QED  BY <2>1, <2>2, InboundMoves
<1>2. CASE CloseShutdown("main") \/ CloseFd("main")
  BY <1>2, MainMoves DEF CloseShutdown, CloseFd, NoInbound, NoOutbound, Closing
<1>3. CASE CloseClearFlag("main")
  BY <1>3, MainMoves DEF CloseClearFlag, ReturnInv, NoInbound, NoOutbound, Closing
<1>4. CASE \/ Recv("main") \/ RecvMessage("main") \/ RecvError("main")
           \/ RecvEnd("main") \/ OnDisconnect("main") \/ FlagOff("main")
  <2>1. UNCHANGED <<pc["in"], pc["out"]>>
    BY <1>4 DEF Recv, RecvMessage, RecvError, RecvEnd, OnDisconnect, FlagOff, ReceiveFailed, Close
  <2>2. NoInbound /\ NoOutbound
    BY <1>4 DEF Recv, RecvMessage, RecvError, RecvEnd, OnDisconnect, FlagOff, NoInbound, NoOutbound
  <2>. QED  BY <2>1, <2>2, MainMoves
<1>5. CASE Accept \/ AcceptFails \/ OnConnect \/ SetFlag \/ GreetFailed \/ DestroyServer
  <2>1. UNCHANGED <<pc["in"], pc["out"]>>
    BY <1>5 DEF Accept, AcceptFails, OnConnect, SetFlag, GreetFailed, DestroyServer, Close
  <2>2. NoInbound /\ NoOutbound
    BY <1>5 DEF Accept, AcceptFails, OnConnect, SetFlag, GreetFailed, DestroyServer,
                NoInbound, NoOutbound
  <2>. QED  BY <2>1, <2>2, MainMoves
<1>6. CASE Spin \/ Destroy
  BY <1>6, MainMoves DEF Spin, Destroy, Close, NoInbound, NoOutbound, Closing
<1>7. CASE JoinInbound \/ DestroyJoinInbound
  BY <1>7 DEF JoinInbound, DestroyJoinInbound, Join, ThreadInv, NoInbound, NoOutbound, Closing
<1>8. CASE JoinOutbound \/ DestroyJoinOutbound
  BY <1>8 DEF JoinOutbound, DestroyJoinOutbound, Join, ThreadInv, NoInbound, NoOutbound, Closing
<1>9. CASE StartInbound
  BY <1>9 DEF StartInbound, ThreadInv, NoInbound, NoOutbound, Closing
<1>10. CASE StartOutbound
  BY <1>10 DEF StartOutbound, ThreadInv, NoInbound, NoOutbound, Closing
<1>11. CASE OutboundLoop
  BY <1>11 DEF OutboundLoop, ThreadInv, NoInbound, NoOutbound
<1>12. CASE PeerLeaves \/ AppOpen \/ AppClose
  BY <1>12, MainMoves DEF PeerLeaves, AppOpen, AppClose, NoInbound, NoOutbound
<1>. QED
  BY <1>1, <1>2, <1>3, <1>4, <1>5, <1>6, <1>7, <1>8, <1>9, <1>10, <1>11, <1>12, NextCases
     DEF SpinStep, DestructorStep

-----------------------------------------------------------------------------
(* The hooks                                                               *)

hooks == <<connects, disconnects, silent>>

\* A hook or a silent close settles what was owed.
LEMMA Settle ==
  ASSUME TypeOK, Owing, UNCHANGED connects,
         \/ disconnects' = disconnects + 1 /\ UNCHANGED silent
         \/ silent' = silent + 1 /\ UNCHANGED disconnects
  PROVE  Even'
BY DEF TypeOK, Owing, Even

\* Every step keeps the ledger of hooks.
LEMMA LedgerStep ==
  ASSUME IInv, Next
  PROVE  LedgerInv'
<1>. USE DEF At, Goto, Threads, hookVars, tcpVars
<1>0. TypeOK /\ ReturnInv /\ ThreadInv /\ LedgerInv
  BY DEF IInv
<1>p. pc \in [Threads -> MainLabels \cup WorkerLabels]
  BY <1>0 DEF TypeOK
<1>r. ret \in [Threads -> {"idle", "greetFailed", "loop", "dJoinIn", "done"}]
  BY <1>0 DEF TypeOK
<1>e. ASSUME UNCHANGED hooks  PROVE (Owing' <=> Owing) /\ (Even' <=> Even)
  BY <1>e DEF hooks, Owing, Even
<1>1. ASSUME NEW t \in {"main", "in"}, CloseShutdown(t) \/ CloseFd(t)
      PROVE  LedgerInv'
  BY <1>0, <1>1, <1>p, <1>e DEF CloseShutdown, CloseFd, LedgerInv, Closing, hooks
<1>2. CASE CloseClearFlag("in")
  BY <1>0, <1>2, <1>p, <1>e
     DEF CloseClearFlag, LedgerInv, ReturnInv, ThreadInv, NoInbound, Closing, hooks
<1>3. CASE CloseClearFlag("main")
  BY <1>0, <1>3, <1>p, <1>e DEF CloseClearFlag, LedgerInv, ReturnInv, Closing, hooks
<1>4. CASE FlagOff("in")
  BY <1>0, <1>4, <1>p, <1>r, <1>e DEF FlagOff, Close, LedgerInv, ThreadInv, NoInbound, Closing, hooks
<1>5. CASE FlagOff("main")
  BY <1>0, <1>5, <1>p, <1>r, <1>e DEF FlagOff, Close, LedgerInv, ThreadInv, NoInbound, Closing, hooks
<1>6. CASE Recv("in") \/ RecvMessage("in") \/ RecvError("in") \/ RecvEnd("in")
  BY <1>0, <1>6, <1>p, <1>e
     DEF Recv, RecvMessage, RecvError, RecvEnd, ReceiveFailed, LedgerInv, Closing, hooks
<1>7. CASE OnDisconnect("in")
  <2>1. Even'
    BY <1>0, <1>7, Settle DEF OnDisconnect, LedgerInv
  <2>. QED  BY <1>0, <1>7, <1>p, <2>1 DEF OnDisconnect, LedgerInv, ThreadInv, NoInbound, Closing
<1>8. CASE OnDisconnect("main")
  <2>1. Even'
    BY <1>0, <1>8, Settle DEF OnDisconnect, LedgerInv
  <2>. QED  BY <1>0, <1>8, <1>p, <2>1 DEF OnDisconnect, LedgerInv, ThreadInv, NoInbound, Closing
<1>9. ASSUME ReceiveFailed("main"), pc["main"] \in {"recv", "blocked"},
             UNCHANGED <<connected, connects, disconnects>>
      PROVE  LedgerInv'
  <2>1. Even'
    BY <1>0, <1>9, Settle DEF ReceiveFailed, LedgerInv
  <2>. QED
    BY <1>0, <1>9, <1>p, <1>r, <2>1 DEF ReceiveFailed, Close, LedgerInv, ThreadInv, NoInbound, Closing
<1>10. CASE Recv("main") \/ RecvMessage("main") \/ RecvError("main") \/ RecvEnd("main")
  <2>1. CASE ReceiveFailed("main")
    BY <1>9, <1>10, <2>1 DEF Recv, RecvMessage, RecvError, RecvEnd
  <2>2. CASE ~ReceiveFailed("main")
    BY <1>0, <1>10, <1>p, <1>e, <2>2
       DEF Recv, RecvMessage, RecvError, RecvEnd, LedgerInv, Closing, hooks
  <2>. QED  BY <2>1, <2>2
<1>11. CASE Spin \/ GreetFailed \/ Destroy \/ DestroyServer
  BY <1>0, <1>11, <1>p, <1>r, <1>e
     DEF Spin, GreetFailed, Destroy, DestroyServer, Close, LedgerInv, Closing, hooks
<1>12. CASE JoinInbound \/ JoinOutbound \/ DestroyJoinInbound \/ DestroyJoinOutbound
  BY <1>0, <1>12, <1>p, <1>e
     DEF JoinInbound, JoinOutbound, DestroyJoinInbound, DestroyJoinOutbound, Join,
         LedgerInv, Closing, hooks
<1>13. CASE Accept
  BY <1>0, <1>13, <1>p, <1>e DEF Accept, LedgerInv, Closing, hooks
<1>14. CASE AcceptFails
  BY <1>0, <1>14, <1>p, <1>r, <1>e
     DEF AcceptFails, Close, LedgerInv, ThreadInv, NoInbound, Closing, hooks
<1>15. CASE OnConnect
  <2>1. Owing'
    BY <1>0, <1>15 DEF OnConnect, LedgerInv, Owing, Even, TypeOK
  <2>. QED  BY <1>0, <1>15, <1>p, <2>1 DEF OnConnect, LedgerInv, ThreadInv, NoInbound, Closing
<1>16. CASE SetFlag
  BY <1>0, <1>16, <1>p, <1>e DEF SetFlag, LedgerInv, ThreadInv, NoInbound, Closing, hooks
<1>17. CASE StartInbound
  BY <1>0, <1>17, <1>p, <1>e DEF StartInbound, LedgerInv, Closing, hooks
<1>18. CASE StartOutbound
  BY <1>0, <1>18, <1>p, <1>e DEF StartOutbound, LedgerInv, Closing, hooks
<1>19. CASE InboundLoop
  BY <1>0, <1>19, <1>p, <1>e DEF InboundLoop, LedgerInv, Closing, hooks
<1>20. CASE OutboundLoop
  BY <1>0, <1>20, <1>p, <1>e DEF OutboundLoop, LedgerInv, Closing, hooks
<1>21. CASE PeerLeaves \/ AppOpen \/ AppClose
  BY <1>0, <1>21, <1>e DEF PeerLeaves, AppOpen, AppClose, LedgerInv, hooks
<1>. QED
  BY <1>1, <1>2, <1>3, <1>4, <1>5, <1>6, <1>7, <1>8, <1>10, <1>11, <1>12, <1>13, <1>14,
     <1>15, <1>16, <1>17, <1>18, <1>19, <1>20, <1>21, NextCases
     DEF SpinStep, DestructorStep

-----------------------------------------------------------------------------
(* The theorems                                                            *)

\* Every step keeps the whole invariant.
LEMMA InvStep == IInv /\ [Next]_vars => IInv'
<1>. SUFFICES ASSUME IInv, [Next]_vars  PROVE IInv'
  OBVIOUS
<1>0. TypeOK /\ ReturnInv /\ ThreadInv
  BY DEF IInv
<1>1. CASE Next
  <2>1. PcType' /\ RetType' /\ DataType'
    BY <1>0, <1>1, PcStep, RetStep, DataStep
  <2>2. TypeOK' /\ ReturnInv'
    BY <2>1 DEF PcType, RetType, DataType, TypeOK, ReturnInv
  <2>. QED  BY <1>0, <1>1, <2>2, ThreadStep, LedgerStep DEF IInv
<1>2. CASE UNCHANGED vars
  BY <1>2 DEF vars, IInv, TypeOK, ReturnInv, ThreadInv, NoInbound, NoOutbound, LedgerInv,
              Owing, Even
<1>. QED  BY <1>1, <1>2

\* BridgeThreads is type correct.
THEOREM ThreadsTypeCorrect == Spec => []TypeOK
<1>1. IInv => TypeOK
  BY DEF IInv
<1>. QED  BY <1>1, InvInit, InvStep, PTL DEF Spec

\* No worker of an earlier connection is alive while spin() accepts, greets and
\* starts the threads of the next one.
THEOREM ConnectionsDoNotOverlap == Spec => []WorkersJoined
<1>1. IInv => WorkersJoined
  BY DEF IInv, ThreadInv, NoInbound, NoOutbound, WorkersJoined
<1>. QED  BY <1>1, InvInit, InvStep, PTL DEF Spec

\* The hooks alternate, for any number of connections that end in any way.
THEOREM HooksAlternate == Spec => []HooksPaired
<1>1. IInv => HooksPaired
  BY DEF IInv, TypeOK, LedgerInv, Owing, Even, HooksPaired
<1>. QED  BY <1>1, InvInit, InvStep, PTL DEF Spec
=============================================================================
