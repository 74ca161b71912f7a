-------------------------- MODULE UserCallsProofs ---------------------------
(***************************************************************************)
(* Theorems about UserCalls and its registry, for every value of their     *)
(* constants.  Those about the enumeration of the registry suppose that no *)
(* description request asks one past the end of the list, and the one      *)
(* about the second look-up that nothing is registered while callbacks     *)
(* start: the runs calls_past_end and calls_races show what happens else.  *)
(***************************************************************************)
EXTENDS UserCalls, SequenceFacts, SequenceTheorems, FiniteSetTheorems, TLAPS

-----------------------------------------------------------------------------
(* The inductive invariant                                                 *)

Answers == {"length", "badRequest", "described", "ok", "unknown"}
Values == Nat \cup Names \cup {Garbage}
Frames == [type : {"ack", "return"}, req : Nat, status : Answers \cup {"value"},
           value : Values, session : 0..MaxSessions]

MoreTypes ==
  /\ wire \in Seq(Frames)
  /\ overwriting \in BOOLEAN
  /\ cursor \in Nat \ {0}

\* Registering and spinning exclude each other, and both end with the bridge.
PhaseInv ==
  /\ ~Idle => spinPc = "idle"
  /\ life # "alive" => link = "down" /\ spinPc = "idle" /\ Idle

Held(q) == \E k \in 1..Len(handles) : handles[k] = q

\* What the handles in m_inboundRequestsQueue say of their callbacks: the
\* queue holds each at most once, and every callback whose result is not yet
\* taken; only requests that were handled have one.
HandleInv ==
  /\ \A i, j \in 1..Len(handles) : handles[i] = handles[j] => i = j
  /\ \A q \in 1..Len(requests) :
       /\ q > handled => task[q] = "absent"
       /\ task[q] \in Unfinished => Held(q)
       /\ (life = "alive" /\ task[q] = "value") => Held(q) \/ Returns(q) # {}
       /\ task[q] \in {"running", "value", "tooMany"} => ran[q] # 0
  /\ life = "gone" => handles = << >>

\* What was sent: frames are about requests that were handled, there is one
\* frame of a type for a request, an acknowledgement for each that was handled,
\* with Ok if a callback was started, and a return follows it when the handle
\* is no longer held.
WireInv ==
  /\ \A k \in 1..Len(wire) : wire[k].req \in 1..handled /\ wire[k].session <= session
  /\ \A j, k \in 1..Len(wire) :
       (wire[j].type = wire[k].type /\ wire[j].req = wire[k].req) => j = k
  /\ \A q \in 1..handled : \E a \in Acks(q) : task[q] # "absent" => wire[a].status = "ok"
  /\ \A k \in 1..Len(wire) : wire[k].type = "return" =>
       /\ task[wire[k].req] = "value" /\ ran[wire[k].req] # 0 /\ ~Held(wire[k].req)
       /\ \E a \in Acks(wire[k].req) :
            /\ a < k /\ wire[a].status = "ok"
            /\ wire[k].session # 0 => wire[a].session <= wire[k].session

BaseInv == TypeOK /\ MoreTypes /\ PhaseInv /\ HandleInv /\ WireInv

\* The registry, if no description request asks one past the end: the list and
\* the map have the same names, each once, and every name has a function.  A
\* request that was within the list stays so, and an answer keeps its name.
RegistryInv ==
  /\ \A n \in DOMAIN callbacks : callbacks[n] # 0
  /\ DOMAIN callbacks = Range(names)
  /\ \A i, j \in 1..Len(names) : names[i] = names[j] => i = j
  /\ Len(names) <= version
  /\ ~Idle => /\ Len(names) < version
              /\ overwriting = (registering \in DOMAIN callbacks)
  /\ \A q \in 1..Len(requests) : requests[q].kind = "describe" =>
       requests[q].index < Len(names) \/ requests[q].index > MaxRegistrations
  /\ \A k \in 1..Len(wire) : wire[k].status = "described" =>
       /\ requests[wire[k].req].index < Len(names)
       /\ wire[k].value = names[requests[wire[k].req].index + 1]

\* A callback that was started finds its function, if besides nothing is
\* registered between its start and its second look-up.
StartInv ==
  /\ ~Idle => \A q \in 1..Len(task) : task[q] # "started"
  /\ \A q \in 1..Len(task) :
       /\ task[q] = "started" => HasCallback(requests[q].name)
       /\ task[q] = "nothing" => ran[q] # 0

-----------------------------------------------------------------------------
(* Facts about sets and sequences                                          *)

\* A set whose elements all equal one of them has one element.
LEMMA OneElement ==
  ASSUME NEW S, NEW x \in S, \A y \in S : y = x
  PROVE  Cardinality(S) = 1
<1>1. S = {x}
  OBVIOUS
<1>. QED  BY <1>1, FS_Singleton

\* A set whose elements are all equal has at most one element.
LEMMA AtMostOne ==
  ASSUME NEW S, \A x, y \in S : x = y
  PROVE  Cardinality(S) <= 1
<1>1. CASE S = {}
  BY <1>1, FS_EmptySet
<1>2. ASSUME NEW x \in S
      PROVE  Cardinality(S) <= 1
  <2>1. Cardinality(S) = 1
    BY OneElement
  <2>. QED  BY <2>1
<1>. QED  BY <1>1, <1>2

\* erase(): the elements before keep their place, the ones after move up.
LEMMA RemoveFacts ==
  ASSUME NEW S, NEW s \in Seq(S), NEW i \in 1..Len(s)
  PROVE  /\ Remove(s, i) \in Seq(S)
         /\ Len(Remove(s, i)) = Len(s) - 1
         /\ \A k \in 1..(Len(s) - 1) :
              Remove(s, i)[k] = IF k < i THEN s[k] ELSE s[k + 1]
<1>0. Len(s) \in Nat /\ i \in Nat /\ \A k \in 1..Len(s) : s[k] \in S
  BY ElementFacts
<1>1. /\ SubSeq(s, 1, i - 1) \in Seq(S)
      /\ Len(SubSeq(s, 1, i - 1)) = i - 1
      /\ \A k \in 1..(i - 1) : SubSeq(s, 1, i - 1)[k] = s[k]
  <2>1. \A k \in 1..(i - 1) : s[k] \in S
    BY <1>0
  <2>2. 1 \in Int /\ i - 1 \in Int
    BY <1>0
  <2>. QED  BY <1>0, <2>1, <2>2, SubSeqProperties
<1>2. /\ SubSeq(s, i + 1, Len(s)) \in Seq(S)
      /\ Len(SubSeq(s, i + 1, Len(s))) = Len(s) - i
      /\ \A k \in 1..(Len(s) - i) : SubSeq(s, i + 1, Len(s))[k] = s[i + k]
  <2>1. \A k \in (i + 1)..Len(s) : s[k] \in S
    BY <1>0
  <2>2. i + 1 \in Int /\ Len(s) \in Int
    BY <1>0
  <2>. QED  BY <1>0, <2>1, <2>2, SubSeqProperties
<1>. DEFINE a == SubSeq(s, 1, i - 1)
            b == SubSeq(s, i + 1, Len(s))
<1>3. /\ a \o b \in Seq(S)
      /\ Len(a \o b) = Len(a) + Len(b)
      /\ \A k \in 1..(Len(a) + Len(b)) :
           (a \o b)[k] = IF k <= Len(a) THEN a[k] ELSE b[k - Len(a)]
  BY <1>1, <1>2, ConcatProperties
<1>. HIDE DEF a, b
<1>4. Remove(s, i) = a \o b /\ Len(a) = i - 1 /\ Len(b) = Len(s) - i
  BY <1>1, <1>2 DEF Remove, a, b
<1>5. ASSUME NEW k \in 1..(Len(s) - 1)
      PROVE  (a \o b)[k] = IF k < i THEN s[k] ELSE s[k + 1]
  <2>1. CASE k < i
    BY <1>0, <1>1, <1>3, <1>4, <2>1 DEF a
  <2>2. CASE k >= i
    <3>1. (a \o b)[k] = b[k - (i - 1)]
      BY <1>0, <1>3, <1>4, <2>2
    <3>2. b[k - (i - 1)] = s[i + (k - (i - 1))]
      BY <1>0, <1>2, <2>2 DEF b
    <3>. QED  BY <1>0, <2>2, <3>1, <3>2
  <2>3. k < i \/ k >= i
    BY <1>0
  <2>. QED  BY <2>1, <2>2, <2>3
<1>6. Len(a) + Len(b) = Len(s) - 1
  BY <1>0, <1>4
<1>. QED  BY <1>3, <1>4, <1>5, <1>6

\* Initially the invariants hold.
LEMMA BaseInit == Init => BaseInv
<1>. SUFFICES ASSUME Init
              PROVE  BaseInv
  OBVIOUS
<1>. USE DEF Init, RegistryInit
<1>1. /\ << >> \in [1..Len(<< >>) -> TaskStates]
      /\ << >> \in [1..Len(<< >>) -> 0..0]
  OBVIOUS
<1>2. /\ task \in [1..Len(requests) -> TaskStates]
      /\ ran \in [1..Len(requests) -> 0..version]
  BY <1>1
<1>3. /\ DOMAIN callbacks = {}
      /\ callbacks \in [DOMAIN callbacks -> 0..version]
  OBVIOUS
<1>4. handles \in Seq(1..handled) /\ names \in Seq(Names) /\ requests \in Seq(Request)
  OBVIOUS
<1>5. TypeOK
  <2>1. /\ handled \in 0..Len(requests) /\ cursor \in Nat /\ session \in 0..MaxSessions
        /\ version \in 0..MaxRegistrations
    BY RegistryAssumption, CallsAssumption
  <2>. QED  BY <1>2, <1>3, <1>4, <2>1 DEF TypeOK
<1>6. MoreTypes /\ PhaseInv
  <2>1. wire \in Seq(Frames) /\ cursor \in Nat \ {0}
    OBVIOUS
  <2>2. overwriting \in BOOLEAN /\ Idle
    BY DEF Idle
  <2>. QED  BY <2>1, <2>2 DEF MoreTypes, PhaseInv
<1>7. HandleInv /\ WireInv
  BY DEF HandleInv, WireInv, Acks
<1>. QED  BY <1>5, <1>6, <1>7 DEF BaseInv

-----------------------------------------------------------------------------
(* What the actions do                                                     *)

\* Next, without its guard, in the groups of actions the lemmas go through.
LEMMA NextCases ==
  ASSUME Next
  PROVE  \/ Registered \/ Register
         \/ SpinBegin \/ HandleNothing \/ EndSpin
         \/ Handle \/ Collect
         \/ HandlePastEnd \/ SendCrash
         \/ PeerClose \/ NoticeClose \/ Reconnect \/ Destroy \/ DestroyRegistry
         \/ Arrive
         \/ DestroyHandle
         \/ \E q \in 1..MaxRequests : q \in 1..Len(task) /\ TaskStart(q)
         \/ \E q \in 1..MaxRequests : q \in 1..Len(task) /\ TaskRace(q)
         \/ \E q \in 1..MaxRequests : q \in 1..Len(task) /\ TaskEnd(q)
BY DEF Next, SpinStep, DestructorStep, TaskStep

\* The lengths that the proofs compute with.
LEMMA LengthFacts ==
  ASSUME TypeOK, MoreTypes
  PROVE  /\ Len(requests) \in Nat /\ Len(task) = Len(requests) /\ Len(ran) = Len(requests)
         /\ Len(handles) \in Nat /\ Len(wire) \in Nat /\ Len(names) \in Nat
         /\ handled \in Nat /\ handled <= Len(requests)
         /\ version \in Nat /\ session \in Nat
         /\ \A k \in 1..Len(handles) : handles[k] \in 1..handled
         /\ \A k \in 1..Len(wire) : wire[k] \in Frames
<1>1. /\ requests \in Seq(Request) /\ handles \in Seq(1..handled) /\ names \in Seq(Names)
      /\ wire \in Seq(Frames)
  BY DEF TypeOK, MoreTypes
<1>2. /\ Len(requests) \in Nat /\ Len(handles) \in Nat /\ Len(wire) \in Nat
      /\ Len(names) \in Nat
  BY <1>1
<1>3. Len(task) = Len(requests) /\ Len(ran) = Len(requests)
  BY <1>2, FunctionIsSequence DEF TypeOK
<1>4. handled \in Nat /\ handled <= Len(requests) /\ version \in Nat /\ session \in Nat
  BY <1>2, RegistryAssumption, CallsAssumption DEF TypeOK
<1>5. /\ \A k \in 1..Len(handles) : handles[k] \in 1..handled
      /\ \A k \in 1..Len(wire) : wire[k] \in Frames
  BY <1>1, ElementFacts
<1>. QED  BY <1>2, <1>3, <1>4, <1>5

\* A frame has its type, and the current session or none.
LEMMA FrameFacts ==
  ASSUME TypeOK, NEW t \in {"ack", "return"}, NEW q \in Nat,
         NEW status \in Answers \cup {"value"}, NEW value \in Values
  PROVE  /\ Frame(t, q, status, value) \in Frames
         /\ Frame(t, q, status, value).type = t
         /\ Frame(t, q, status, value).req = q
         /\ Frame(t, q, status, value).status = status
         /\ Frame(t, q, status, value).value = value
         /\ Frame(t, q, status, value).session \in {0, session}
<1>1. session \in 0..MaxSessions /\ 0 \in 0..MaxSessions
  BY CallsAssumption DEF TypeOK
<1>2. (IF link = "up" THEN session ELSE 0) \in 0..MaxSessions
  BY <1>1
<1>. QED  BY <1>2 DEF Frame, Frames

\* A list that is asked within its test has a name to give, or the string past
\* its end.
LEMMA NameAtType ==
  ASSUME TypeOK, MoreTypes, NEW q \in 1..Len(requests), InRange(requests[q].index)
  PROVE  NameAt(requests[q].index) \in Names \cup {Garbage}
<1>1. requests[q] \in Request
  BY ElementFacts DEF TypeOK
<1>2. requests[q].index \in Nat
  BY <1>1, CallsAssumption DEF Request
<1>3. CASE PastEnd(requests[q].index)
  BY <1>3 DEF NameAt
<1>4. CASE ~PastEnd(requests[q].index)
  <2>1. requests[q].index + 1 \in 1..Len(names)
    BY <1>2, <1>4, LengthFacts DEF PastEnd, InRange
  <2>2. names[requests[q].index + 1] \in Names
    BY <2>1, ElementFacts DEF TypeOK
  <2>. QED  BY <1>4, <2>2 DEF NameAt
<1>. QED  BY <1>3, <1>4

\* What handling a request may answer and start.
LEMMA HandleCases ==
  ASSUME TypeOK, MoreTypes, Handle
  PROVE  /\ handled + 1 \in 1..Len(requests) /\ handled' = handled + 1
         /\ spinPc = "handle" /\ spinPc' = "loop" /\ cursor' = 1
         /\ UNCHANGED <<linkVars, requests, ran, life, crashed>>
         /\ \E status \in Answers, value \in Values :
              /\ Answer(handled + 1, status, value)
              /\ \/ /\ status = "ok"
                    /\ HasCallback(requests[handled + 1].name)
                    /\ task' = [task EXCEPT ![handled + 1] = "started"]
                    /\ UNCHANGED registryVars
                 \/ status # "described" /\ UNCHANGED <<registryVars, task>>
                 \/ /\ status = "described"
                    /\ requests[handled + 1].kind = "describe"
                    /\ InRange(requests[handled + 1].index)
                    /\ value = NameAt(requests[handled + 1].index)
                    /\ GetManifestAt(requests[handled + 1].index)
                    /\ UNCHANGED task
<1>. DEFINE q == handled + 1
            Effect(status, value) ==
              \/ /\ status = "ok"
                 /\ HasCallback(requests[q].name)
                 /\ task' = [task EXCEPT ![q] = "started"]
                 /\ UNCHANGED registryVars
              \/ status # "described" /\ UNCHANGED <<registryVars, task>>
              \/ /\ status = "described"
                 /\ requests[q].kind = "describe"
                 /\ InRange(requests[q].index)
                 /\ value = NameAt(requests[q].index)
                 /\ GetManifestAt(requests[q].index)
                 /\ UNCHANGED task
            Goal == \E status \in Answers, value \in Values :
                      Answer(q, status, value) /\ Effect(status, value)
<1>0. q \in 1..Len(requests) /\ 0 \in Values /\ Len(names) \in Values
  BY LengthFacts DEF Handle, Values
<1>1. ASSUME HandleLength(q)
      PROVE  Goal
  <2>1. "length" \in Answers /\ Answer(q, "length", Len(names)) /\ Effect("length", Len(names))
    BY <1>1 DEF HandleLength, Answers
  <2>. QED  BY <1>0, <2>1
<1>2. ASSUME HandleDescribe(q)
      PROVE  Goal
  <2>1. CASE Answer(q, "badRequest", 0) /\ UNCHANGED <<registryVars, task>>
    BY <1>0, <2>1 DEF Answers
  <2>2. CASE /\ InRange(requests[q].index)
             /\ Answer(q, "described", NameAt(requests[q].index))
             /\ GetManifestAt(requests[q].index)
    <3>2. NameAt(requests[q].index) \in Values
      BY <1>0, <2>2, NameAtType DEF Values
    <3>3. "described" \in Answers /\ Effect("described", NameAt(requests[q].index))
      BY <1>2, <2>2 DEF HandleDescribe, Answers
    <3>. QED  BY <2>2, <3>2, <3>3
  <2>. QED  BY <1>2, <2>1, <2>2 DEF HandleDescribe
<1>3. ASSUME HandleCall(q)
      PROVE  Goal
  <2>1. CASE HasCallback(requests[q].name)
    <3>1. "ok" \in Answers /\ Answer(q, "ok", 0) /\ Effect("ok", 0)
      BY <1>3, <2>1 DEF HandleCall, Answers
    <3>. QED  BY <1>0, <3>1
  <2>2. CASE ~HasCallback(requests[q].name)
    <3>1. /\ "badRequest" \in Answers /\ Answer(q, "badRequest", 0)
          /\ Effect("badRequest", 0)
      BY <1>3, <2>2 DEF HandleCall, Answers
    <3>. QED  BY <1>0, <3>1
  <2>. QED  BY <2>1, <2>2
<1>4. ASSUME HandleUnknown(q)
      PROVE  Goal
  <2>1. "unknown" \in Answers /\ Answer(q, "unknown", 0) /\ Effect("unknown", 0)
    BY <1>4 DEF HandleUnknown, Answers
  <2>. QED  BY <1>0, <2>1
<1>5. Goal
  BY <1>1, <1>2, <1>3, <1>4 DEF Handle
<1>. QED  BY <1>0, <1>5 DEF Handle, Popped

\* What the loop of spin() does with a handle.
LEMMA CollectCases ==
  ASSUME TypeOK, MoreTypes, HandleInv, Collect
  PROVE  /\ spinPc = "loop" /\ cursor \in 1..Len(handles)
         /\ handles[cursor] \in 1..handled
         /\ UNCHANGED <<registryVars, linkVars, requests, handled, spinPc, task, ran, life,
                        crashed>>
         /\ \/ /\ task[handles[cursor]] \in {"absent", "tooMany", "nothing"}
               /\ handles' = Remove(handles, cursor)
               /\ UNCHANGED <<cursor, wire>>
            \/ /\ task[handles[cursor]] = "value"
               /\ wire' = Append(wire, Frame("return", handles[cursor], "value",
                                             ran[handles[cursor]]))
               /\ handles' = Remove(handles, cursor)
               /\ UNCHANGED cursor
            \/ /\ task[handles[cursor]] \in Unfinished
               /\ cursor' = cursor + 1
               /\ UNCHANGED <<handles, wire>>
<1>1. cursor \in 1..Len(handles) /\ handles[cursor] \in 1..handled
  BY LengthFacts DEF Collect, MoreTypes
<1>. QED  BY <1>1 DEF Collect, SendReturn, Skip, Finished, taskVars

\* What a callback's thread does to its task.
LEMMA TaskFacts ==
  ASSUME TypeOK, MoreTypes, HandleInv, NEW q \in 1..Len(task), TaskStart(q) \/ TaskEnd(q)
  PROVE  /\ UNCHANGED <<registryVars, linkVars, requests, spinVars, life, crashed>>
         /\ task' \in [1..Len(requests) -> TaskStates]
         /\ ran' \in [1..Len(requests) -> 0..version]
         /\ q \in 1..Len(requests)
         /\ \A p \in 1..Len(requests) : p # q => task'[p] = task[p] /\ ran'[p] = ran[p]
         /\ task[q] \in Unfinished /\ task'[q] # "absent" /\ task'[q] # "started"
         /\ \/ ran'[q] # 0
            \/ /\ task[q] = "started" /\ task'[q] = "nothing"
               /\ ~Idle \/ Found(requests[q].name) = {}
<1>0. /\ q \in 1..Len(requests)
      /\ task \in [1..Len(requests) -> TaskStates]
      /\ ran \in [1..Len(requests) -> 0..version]
  BY LengthFacts DEF TypeOK
<1>1. CASE TaskStart(q) /\ task' = [task EXCEPT ![q] = "running"]
  <2>1. PICK v \in Found(requests[q].name) : ran' = [ran EXCEPT ![q] = v]
    BY <1>1, <1>0 DEF TaskStart, TaskStates
  <2>2. v \in 0..version /\ v # 0
    BY <2>1, LengthFacts DEF Found
  <2>3. ran' \in [1..Len(requests) -> 0..version] /\ ran'[q] # 0
    BY <1>0, <2>1, <2>2
  <2>. QED  BY <1>0, <1>1, <2>1, <2>3 DEF TaskStart, TaskStates, Unfinished
<1>2. CASE TaskStart(q) /\ task' = [task EXCEPT ![q] = "nothing"]
  BY <1>0, <1>2 DEF TaskStart, TaskStates, Unfinished
<1>3. CASE TaskEnd(q)
  <2>1. ran[q] # 0
    BY <1>0, <1>3 DEF TaskEnd, HandleInv
  <2>. QED  BY <1>0, <1>3, <2>1 DEF TaskEnd, TaskStates, Unfinished, Finished
<1>. QED  BY <1>1, <1>2, <1>3 DEF TaskStart

\* An answer extends the histories by an acknowledgement and a handle.
LEMMA AnswerFacts ==
  ASSUME TypeOK, MoreTypes, NEW status \in Answers, NEW value \in Values,
         Answer(handled + 1, status, value)
  PROVE  /\ wire' \in Seq(Frames) /\ Len(wire') = Len(wire) + 1
         /\ \A k \in 1..Len(wire) : wire'[k] = wire[k]
         /\ wire'[Len(wire')].type = "ack" /\ wire'[Len(wire')].req = handled + 1
         /\ wire'[Len(wire')].status = status /\ wire'[Len(wire')].value = value
         /\ wire'[Len(wire')].session \in {0, session}
         /\ handles' \in Seq(1..(handled + 1)) /\ Len(handles') = Len(handles) + 1
         /\ \A k \in 1..Len(handles) : handles'[k] = handles[k]
         /\ handles'[Len(handles')] = handled + 1
<1>. DEFINE f == Frame("ack", handled + 1, status, value)
<1>1. handled + 1 \in Nat /\ handled + 1 \in 1..(handled + 1)
  BY LengthFacts
<1>2. /\ f \in Frames /\ f.type = "ack" /\ f.req = handled + 1
      /\ f.status = status /\ f.value = value /\ f.session \in {0, session}
  BY <1>1, FrameFacts
<1>. HIDE DEF f
<1>3. /\ wire' \in Seq(Frames) /\ Len(wire') = Len(wire) + 1
      /\ \A k \in 1..Len(wire) : wire'[k] = wire[k]
      /\ wire'[Len(wire')] = f
  <2>1. wire' = Append(wire, f)
    BY DEF Answer, f
  <2>. QED  BY <1>2, <2>1, AppendFacts DEF MoreTypes
<1>4. handles \in Seq(1..(handled + 1))
  <2>1. 1..handled \subseteq 1..(handled + 1)
    BY LengthFacts
  <2>. QED  BY <2>1, SequenceSubset DEF TypeOK
<1>5. /\ handles' \in Seq(1..(handled + 1)) /\ Len(handles') = Len(handles) + 1
      /\ \A k \in 1..Len(handles) : handles'[k] = handles[k]
      /\ handles'[Len(handles')] = handled + 1
  <2>1. handles' = Append(handles, handled + 1)
    BY DEF Answer
  <2>. QED  BY <1>1, <1>4, <2>1, AppendFacts
<1>. QED  BY <1>2, <1>3, <1>5

\* A return extends the history of the frames.
LEMMA ReturnFacts ==
  ASSUME TypeOK, MoreTypes, NEW q \in 1..handled,
         wire' = Append(wire, Frame("return", q, "value", ran[q]))
  PROVE  /\ wire' \in Seq(Frames) /\ Len(wire') = Len(wire) + 1
         /\ \A k \in 1..Len(wire) : wire'[k] = wire[k]
         /\ wire'[Len(wire')].type = "return" /\ wire'[Len(wire')].req = q
         /\ wire'[Len(wire')].status = "value"
         /\ wire'[Len(wire')].session \in {0, session}
<1>. DEFINE f == Frame("return", q, "value", ran[q])
<1>1. q \in Nat /\ ran[q] \in Values
  <2>1. q \in 1..Len(requests)
    BY LengthFacts
  <2>2. ran[q] \in 0..version
    BY <2>1 DEF TypeOK
  <2>. QED  BY <2>1, <2>2, LengthFacts DEF Values
<1>2. /\ f \in Frames /\ f.type = "return" /\ f.req = q /\ f.status = "value"
      /\ f.session \in {0, session}
  BY <1>1, FrameFacts
<1>. HIDE DEF f
<1>3. wire' = Append(wire, f)
  BY DEF f
<1>. QED  BY <1>2, <1>3, AppendFacts DEF MoreTypes

-----------------------------------------------------------------------------
(* The steps, one lemma for each part of the invariant                     *)

\* The steps keep the types.
LEMMA TypeStep ==
  ASSUME TypeOK, MoreTypes, HandleInv, Next
  PROVE  TypeOK' /\ MoreTypes'
<1>. USE LengthFacts DEF registryVars, linkVars, spinVars, taskVars, callVars
<1>1. CASE Registered
  <2>1. registering \in Names
    BY <1>1 DEF Registered, RegisterStore, Idle, TypeOK
  <2>2. names' \in Seq(Names)
    BY <1>1, <2>1, AppendFacts DEF Registered, RegisterStore, NamesAfter, TypeOK
  <2>3. /\ callbacks' \in [DOMAIN callbacks' -> 0..version']
        /\ DOMAIN callbacks' \subseteq Names \cup {Garbage}
    BY <1>1, <2>1 DEF Registered, RegisterStore, TypeOK
  <2>. QED  BY <1>1, <2>2, <2>3 DEF Registered, RegisterStore, TypeOK, MoreTypes
<1>2. CASE Register
  <2>1. PICK name \in Names : RegisterFind(name)
    BY <1>2 DEF Register
  <2>2. version' = version + 1 /\ version' \in 0..MaxRegistrations
    BY <2>1, RegistryAssumption DEF RegisterFind, TypeOK
  <2>3. 0..version \subseteq 0..version'
    BY <2>2
  <2>4. /\ callbacks' \in [DOMAIN callbacks' -> 0..version']
        /\ ran' \in [1..Len(requests') -> 0..version']
    BY <1>2, <2>1, <2>3 DEF Register, RegisterFind, TypeOK
  <2>. QED  BY <1>2, <2>1, <2>2, <2>4 DEF Register, RegisterFind, TypeOK, MoreTypes
<1>3. CASE SpinBegin \/ HandleNothing \/ EndSpin
  BY <1>3 DEF SpinBegin, HandleNothing, EndSpin, TypeOK, MoreTypes
<1>4. CASE Handle
  <2>1. PICK status \in Answers, value \in Values :
          /\ Answer(handled + 1, status, value)
          /\ \/ /\ task' = [task EXCEPT ![handled + 1] = "started"]
                /\ UNCHANGED registryVars
             \/ UNCHANGED <<registryVars, task>>
             \/ /\ InRange(requests[handled + 1].index)
                /\ value = NameAt(requests[handled + 1].index)
                /\ GetManifestAt(requests[handled + 1].index)
                /\ UNCHANGED task
    BY <1>4, HandleCases
  <2>2. wire' \in Seq(Frames) /\ handles' \in Seq(1..handled')
    BY <1>4, <2>1, AnswerFacts, HandleCases
  <2>3. task' \in [1..Len(requests') -> TaskStates]
    BY <1>4, <2>1, HandleCases DEF TypeOK, TaskStates
  <2>4. /\ callbacks' \in [DOMAIN callbacks' -> 0..version']
        /\ DOMAIN callbacks' \subseteq Names \cup {Garbage}
    <3>1. CASE UNCHANGED registryVars
      BY <3>1 DEF TypeOK
    <3>2. CASE /\ InRange(requests[handled + 1].index)
               /\ GetManifestAt(requests[handled + 1].index)
      <4>. DEFINE name == NameAt(requests[handled + 1].index)
      <4>1. name \in Names \cup {Garbage}
        BY <1>4, <3>2, HandleCases, NameAtType
      <4>2. /\ callbacks' = [n \in DOMAIN callbacks \cup {name} |->
                               IF n \in DOMAIN callbacks THEN callbacks[n] ELSE 0]
            /\ version' = version
        BY <3>2 DEF GetManifestAt
      <4>. HIDE DEF name
      <4>. QED  BY <4>1, <4>2 DEF TypeOK
    <3>. QED  BY <2>1, <3>1, <3>2
  <2>5. UNCHANGED <<names, registering, overwriting, version>>
    BY <2>1 DEF GetManifestAt
  <2>6. /\ handled' \in 0..Len(requests') /\ spinPc' = "loop" /\ cursor' = 1
        /\ UNCHANGED <<link, session, requests, ran, life, crashed>>
    BY <1>4, HandleCases
  <2>7. TypeOK'
    BY <2>2, <2>3, <2>4, <2>5, <2>6 DEF TypeOK
  <2>8. MoreTypes'
    BY <2>2, <2>5, <2>6 DEF MoreTypes
  <2>. QED  BY <2>7, <2>8
<1>5. CASE Collect
  <2>1. handles' \in Seq(1..handled) /\ wire' \in Seq(Frames) /\ cursor' \in Nat \ {0}
    <3>1. Remove(handles, cursor) \in Seq(1..handled)
      BY <1>5, CollectCases, RemoveFacts DEF TypeOK
    <3>2. handles' \in Seq(1..handled)
      BY <1>5, <3>1, CollectCases DEF TypeOK
    <3>3. wire' \in Seq(Frames)
      BY <1>5, CollectCases, ReturnFacts DEF MoreTypes
    <3>4. cursor' \in Nat \ {0}
      BY <1>5, CollectCases DEF MoreTypes
    <3>. QED  BY <3>2, <3>3, <3>4
  <2>. QED  BY <1>5, <2>1, CollectCases DEF TypeOK, MoreTypes
<1>6. CASE HandlePastEnd \/ SendCrash
           \/ \E q \in 1..MaxRequests : q \in 1..Len(task) /\ TaskRace(q)
  BY <1>6 DEF HandlePastEnd, SendCrash, TaskRace, TypeOK, MoreTypes
<1>7. CASE PeerClose \/ NoticeClose \/ Destroy \/ DestroyRegistry
  BY <1>7 DEF PeerClose, NoticeClose, Destroy, DestroyRegistry, TypeOK, MoreTypes
<1>8. CASE Reconnect
  BY <1>8, CallsAssumption DEF Reconnect, HandlesAfter, TypeOK, MoreTypes
<1>9. CASE Arrive
  <2>1. PICK m \in Request : requests' = Append(requests, m)
    BY <1>9 DEF Arrive
  <2>2. requests' \in Seq(Request) /\ Len(requests') = Len(requests) + 1
    BY <2>1, AppendFacts DEF TypeOK
  <2>3. task \in Seq(TaskStates) /\ ran \in Seq(0..version)
    BY FunctionIsSequence DEF TypeOK
  <2>4. "absent" \in TaskStates /\ 0 \in 0..version
    BY DEF TaskStates
  <2>5. /\ task' \in Seq(TaskStates) /\ Len(task') = Len(requests')
        /\ ran' \in Seq(0..version) /\ Len(ran') = Len(requests')
    BY <1>9, <2>2, <2>3, <2>4, AppendFacts DEF Arrive
  <2>6. /\ task' \in [1..Len(requests') -> TaskStates]
        /\ ran' \in [1..Len(requests') -> 0..version]
    BY <2>5, SequenceIsFunction
  <2>. QED  BY <1>9, <2>2, <2>6 DEF Arrive, TypeOK, MoreTypes
<1>10. CASE DestroyHandle
  BY <1>10, TailFacts DEF DestroyHandle, TypeOK, MoreTypes
<1>11. ASSUME NEW q \in 1..Len(task), TaskStart(q) \/ TaskEnd(q)
       PROVE  TypeOK' /\ MoreTypes'
  BY <1>11, TaskFacts DEF TypeOK, MoreTypes
<1>. QED
  BY <1>1, <1>2, <1>3, <1>4, <1>5, <1>6, <1>7, <1>8, <1>9, <1>10, <1>11, NextCases

\* The phases of the application, of spin() and of the bridge.
LEMMA PhaseStep ==
  ASSUME TypeOK, MoreTypes, HandleInv, PhaseInv, Next
  PROVE  PhaseInv'
<1>. USE DEF PhaseInv, Idle, registryVars, linkVars, spinVars, callVars
<1>1. CASE Registered \/ Register
  BY <1>1 DEF Registered, RegisterStore, Register, RegisterFind
<1>2. CASE SpinBegin \/ HandleNothing \/ EndSpin
  BY <1>2 DEF SpinBegin, HandleNothing, EndSpin, Spinning
<1>3. CASE Handle
  <2>1. UNCHANGED <<registering, link, life>> /\ spinPc = "handle"
    BY <1>3, HandleCases DEF GetManifestAt
  <2>. QED  BY <2>1
<1>4. CASE Collect
  BY <1>4 DEF Collect
<1>5. CASE HandlePastEnd \/ SendCrash
           \/ \E q \in 1..MaxRequests : q \in 1..Len(task) /\ TaskRace(q)
  BY <1>5 DEF HandlePastEnd, SendCrash, TaskRace
<1>6. CASE PeerClose \/ NoticeClose \/ Reconnect \/ Destroy \/ DestroyRegistry
  BY <1>6 DEF PeerClose, NoticeClose, Reconnect, Destroy, DestroyRegistry, Spinning
<1>7. CASE Arrive \/ DestroyHandle
  BY <1>7 DEF Arrive, DestroyHandle
<1>8. CASE \E q \in 1..MaxRequests : q \in 1..Len(task) /\ (TaskStart(q) \/ TaskEnd(q))
  BY <1>8 DEF TaskStart, TaskEnd
<1>. QED  BY <1>1, <1>2, <1>3, <1>4, <1>5, <1>6, <1>7, <1>8, NextCases

\* Most actions leave alone what the other two parts are about.
LEMMA Kept ==
  ASSUME HandleInv, WireInv, UNCHANGED <<requests, handled, handles, task, ran, wire>>,
         session' >= session, session \in Nat, session' \in Nat, MoreTypes,
         life' # "alive" \/ life = "alive", life' = "gone" => handles = << >>
  PROVE  HandleInv' /\ WireInv'
<1>1. \A q : Held(q)' = Held(q) /\ Returns(q)' = Returns(q) /\ Acks(q)' = Acks(q)
  BY DEF Held, Returns, Acks
<1>2. HandleInv'
  BY <1>1 DEF HandleInv
<1>3. \A k \in 1..Len(wire) : wire[k].session \in Nat
  <2>1. \A k \in 1..Len(wire) : wire[k] \in Frames
    BY ElementFacts DEF MoreTypes
  <2>. QED  BY <2>1 DEF Frames
<1>4. WireInv'
  BY <1>1, <1>3 DEF WireInv
<1>. QED  BY <1>2, <1>4

\* Handling a request.
LEMMA HandleStep ==
  ASSUME TypeOK, MoreTypes, PhaseInv, HandleInv, WireInv, Handle
  PROVE  HandleInv' /\ WireInv'
<1>4. PICK p \in Nat : p = handled + 1
  BY LengthFacts
<1>1. PICK status \in Answers, value \in Values :
        /\ Answer(p, status, value)
        /\ \/ status = "ok" /\ task' = [task EXCEPT ![p] = "started"]
           \/ UNCHANGED task
  BY <1>4, HandleCases
<1>2. /\ p \in 1..Len(requests) /\ handled' = p
      /\ UNCHANGED <<requests, ran, session, life>> /\ life = "alive"
  BY <1>4, HandleCases DEF PhaseInv, linkVars
<1>3. /\ Len(wire') = Len(wire) + 1
      /\ \A k \in 1..Len(wire) : wire'[k] = wire[k]
      /\ wire'[Len(wire')].type = "ack" /\ wire'[Len(wire')].req = p
      /\ wire'[Len(wire')].status = status
      /\ wire'[Len(wire')].session \in {0, session}
      /\ Len(handles') = Len(handles) + 1
      /\ \A k \in 1..Len(handles) : handles'[k] = handles[k]
      /\ handles'[Len(handles')] = p
  BY <1>1, <1>4, AnswerFacts
<1>t. /\ task[p] = "absent" /\ task'[p] \in {"absent", "started"}
      /\ \A q \in 1..Len(requests) : q # p => task'[q] = task[q]
      /\ task'[p] = "started" => status = "ok"
  <2>1. task[p] = "absent"
    BY <1>2, <1>4, LengthFacts DEF HandleInv
  <2>. QED  BY <1>1, <1>2, <2>1 DEF TypeOK
<1>5. /\ \A k \in 1..Len(handles') : k \in 1..Len(handles) \/ k = Len(handles')
      /\ \A k \in 1..Len(wire') : k \in 1..Len(wire) \/ k = Len(wire')
      /\ \A k \in 1..Len(handles) : k \in 1..Len(handles')
      /\ \A k \in 1..Len(wire) : k \in 1..Len(wire')
      /\ Len(handles') \in 1..Len(handles') /\ Len(wire') \in 1..Len(wire')
      /\ \A q \in 1..handled' : q \in 1..handled \/ q = p
      /\ \A q \in 1..handled : q # p
  BY <1>2, <1>3, <1>4, LengthFacts
<1>6. /\ Held(p)' /\ \A q : Held(q) => Held(q)'
      /\ \A q : q # p /\ Held(q)' => Held(q)
  BY <1>3, <1>5 DEF Held
<1>7. /\ \A q : Acks(q) \subseteq Acks(q)'
      /\ Len(wire') \in Acks(p)'
      /\ \A q : Returns(q)' = Returns(q)
  <2>1. \A q : Acks(q) \subseteq Acks(q)'
    BY <1>3, <1>5 DEF Acks
  <2>2. Len(wire') \in Acks(p)'
    BY <1>3, <1>5 DEF Acks
  <2>3. \A q : Returns(q)' = Returns(q)
    BY <1>3, <1>5 DEF Returns
  <2>. QED  BY <2>1, <2>2, <2>3
<1>8. HandleInv'
  <2>1. \A i, j \in 1..Len(handles') : handles'[i] = handles'[j] => i = j
    <3>1. \A k \in 1..Len(handles) : handles[k] # p
      BY <1>5, LengthFacts
    <3>. SUFFICES ASSUME NEW i \in 1..Len(handles'), NEW j \in 1..Len(handles'),
                         handles'[i] = handles'[j]
                  PROVE  i = j
      OBVIOUS
    <3>2. CASE i \in 1..Len(handles) /\ j \in 1..Len(handles)
      BY <1>3, <3>2 DEF HandleInv
    <3>3. CASE i = Len(handles') \/ j = Len(handles')
      BY <1>3, <1>5, <3>1, <3>3
    <3>. QED  BY <1>5, <3>2, <3>3
  <2>2. ASSUME NEW q \in 1..Len(requests')
        PROVE  /\ q > handled' => task'[q] = "absent"
               /\ task'[q] \in Unfinished => Held(q)'
               /\ (life' = "alive" /\ task'[q] = "value") => Held(q)' \/ Returns(q)' # {}
               /\ task'[q] \in {"running", "value", "tooMany"} => ran'[q] # 0
    <3>1. CASE q = p
      BY <1>2, <1>4, <1>6, <1>t, <3>1, LengthFacts
    <3>2. CASE q # p
      <4>1. q \in 1..Len(requests) /\ task'[q] = task[q] /\ ran'[q] = ran[q]
            /\ (q > handled' => q > handled)
        BY <1>2, <1>4, <1>t, <3>2, LengthFacts
      <4>. QED  BY <1>2, <1>6, <1>7, <4>1 DEF HandleInv
    <3>. QED  BY <3>1, <3>2
  <2>3. life' # "gone"
    BY <1>2
  <2>. QED  BY <2>1, <2>2, <2>3 DEF HandleInv
<1>9. WireInv'
  <2>0. \A k \in 1..Len(wire) : wire[k].req \in 1..handled /\ wire[k].req # p
    BY <1>5 DEF WireInv
  <2>1. \A k \in 1..Len(wire') : wire'[k].req \in 1..handled' /\ wire'[k].session <= session'
    <3>1. p \in 1..handled' /\ 1..handled \subseteq 1..handled'
      BY <1>2, <1>4, LengthFacts
    <3>2. 0 <= session /\ session <= session /\ session' = session
      BY <1>2, LengthFacts
    <3>3. ASSUME NEW k \in 1..Len(wire)
          PROVE  wire'[k].req \in 1..handled' /\ wire'[k].session <= session'
      BY <1>3, <3>1, <3>2 DEF WireInv
    <3>4. wire'[Len(wire')].req \in 1..handled' /\ wire'[Len(wire')].session <= session'
      BY <1>3, <3>1, <3>2
    <3>. QED  BY <1>5, <3>3, <3>4
  <2>2. \A j, k \in 1..Len(wire') :
          (wire'[j].type = wire'[k].type /\ wire'[j].req = wire'[k].req) => j = k
    <3>. SUFFICES ASSUME NEW j \in 1..Len(wire'), NEW k \in 1..Len(wire'),
                         wire'[j].type = wire'[k].type, wire'[j].req = wire'[k].req
                  PROVE  j = k
      OBVIOUS
    <3>1. CASE j \in 1..Len(wire) /\ k \in 1..Len(wire)
      BY <1>3, <3>1 DEF WireInv
    <3>2. CASE j = Len(wire') \/ k = Len(wire')
      BY <1>3, <1>5, <2>0, <3>2
    <3>. QED  BY <1>5, <3>1, <3>2
  <2>3. \A q \in 1..handled' :
          \E a \in Acks(q)' : task'[q] # "absent" => wire'[a].status = "ok"
    <3>1. \A q \in 1..handled : \E a \in Acks(q) :
            (task[q] # "absent" => wire[a].status = "ok") /\ a \in 1..Len(wire)
      BY DEF WireInv, Acks
    <3>2. \A q \in 1..handled : task'[q] = task[q]
      BY <1>5, <1>t, LengthFacts
    <3>3. task'[p] # "absent" => wire'[Len(wire')].status = "ok"
      BY <1>3, <1>t
    <3>. QED  BY <1>3, <1>5, <1>7, <3>1, <3>2, <3>3
  <2>4. ASSUME NEW k \in 1..Len(wire'), wire'[k].type = "return"
        PROVE  /\ task'[wire'[k].req] = "value" /\ ran'[wire'[k].req] # 0
               /\ ~Held(wire[k].req)'
               /\ \E a \in Acks(wire[k].req)' :
                    /\ a < k /\ wire'[a].status = "ok"
                    /\ wire'[k].session # 0 => wire'[a].session <= wire'[k].session
    <3>1. k \in 1..Len(wire) /\ wire'[k] = wire[k]
      BY <1>3, <1>5, <2>4
    <3>2. wire[k].req \in 1..Len(requests) /\ wire[k].req # p
      BY <2>0, <3>1, LengthFacts
    <3>q. PICK q \in 1..Len(requests) : q = wire[k].req /\ q # p
      BY <3>2
    <3>3. PICK a \in Acks(q) :
            /\ a < k /\ wire[a].status = "ok"
            /\ wire[k].session # 0 => wire[a].session <= wire[k].session
      BY <2>4, <3>1, <3>q DEF WireInv
    <3>4. a \in Acks(q)' /\ wire'[a] = wire[a]
      BY <1>3, <1>7, <3>3 DEF Acks
    <3>5. task[q] = "value" /\ ran[q] # 0 /\ ~Held(q)
      BY <2>4, <3>1, <3>q DEF WireInv
    <3>6. ~Held(q)'
      BY <1>6, <3>q, <3>5
    <3>7. Held(wire[k].req)' = Held(q)' /\ Acks(wire[k].req)' = Acks(q)'
      BY <3>1, <3>q
    <3>. QED  BY <1>2, <1>t, <3>1, <3>q, <3>3, <3>4, <3>5, <3>6, <3>7
  <2>. QED  BY <2>1, <2>2, <2>3, <2>4 DEF WireInv
<1>. QED  BY <1>8, <1>9

\* Erasing a handle, from the loop or from the front, loses no other.
LEMMA ErasedHandle ==
  ASSUME TypeOK, MoreTypes, HandleInv, NEW c \in 1..Len(handles),
         NEW h \in 1..handled, h = handles[c], handles' = Remove(handles, c)
  PROVE  /\ \A i, j \in 1..Len(handles') : handles'[i] = handles'[j] => i = j
         /\ ~Held(h)' /\ \A q : q # h => (Held(q)' <=> Held(q))
<1>1. /\ Len(handles) \in Nat /\ Len(handles') = Len(handles) - 1 /\ c \in Nat
      /\ \A k \in 1..Len(handles') :
           handles'[k] = IF k < c THEN handles[k] ELSE handles[k + 1]
  <2>1. handles \in Seq(1..handled)
    BY DEF TypeOK
  <2>2. Len(handles) \in Nat /\ c \in Nat
    BY <2>1
  <2>3. /\ Len(handles') = Len(handles) - 1
        /\ \A k \in 1..(Len(handles) - 1) :
             handles'[k] = IF k < c THEN handles[k] ELSE handles[k + 1]
    BY <2>1, RemoveFacts
  <2>. QED  BY <2>2, <2>3
<1>2. \A k \in 1..Len(handles') : k \in 1..Len(handles) /\ k + 1 \in 1..Len(handles)
  BY <1>1
<1>3. \A i, j \in 1..Len(handles) : handles[i] = handles[j] => i = j
  BY DEF HandleInv
<1>4. \A i, j \in 1..Len(handles') : handles'[i] = handles'[j] => i = j
  BY <1>1, <1>2, <1>3
<1>5. ~Held(h)'
  BY <1>1, <1>2, <1>3 DEF Held
<1>6. ASSUME NEW q, Held(q)'
      PROVE  Held(q)
  BY <1>1, <1>2, <1>6 DEF Held
<1>7. ASSUME NEW q, q # h, Held(q)
      PROVE  Held(q)'
  <2>1. PICK k \in 1..Len(handles) : handles[k] = q
    BY <1>7 DEF Held
  <2>2. CASE k < c
    <3>1. k \in 1..Len(handles') /\ handles'[k] = q
      BY <1>1, <2>1, <2>2
    <3>. QED  BY <3>1 DEF Held
  <2>3. CASE k > c
    <3>1. k - 1 \in 1..Len(handles') /\ handles'[k - 1] = handles[(k - 1) + 1]
      BY <1>1, <2>3
    <3>2. handles'[k - 1] = q
      BY <2>1, <3>1
    <3>. QED  BY <3>1, <3>2 DEF Held
  <2>4. k # c
    BY <1>7, <2>1
  <2>. QED  BY <1>1, <2>2, <2>3, <2>4
<1>. QED  BY <1>4, <1>5, <1>6, <1>7

\* A turn of the loop of spin().
LEMMA CollectStep ==
  ASSUME TypeOK, MoreTypes, PhaseInv, HandleInv, WireInv, Collect
  PROVE  HandleInv' /\ WireInv'
<1>0. /\ UNCHANGED <<requests, handled, task, ran, session, life>>
      /\ life = "alive" /\ cursor \in 1..Len(handles)
      /\ handles[cursor] \in 1..handled
  BY CollectCases DEF PhaseInv, linkVars
<1>h. PICK h \in 1..handled : h = handles[cursor]
  BY <1>0
<1>l. Held(h) /\ h \in 1..Len(requests)
  BY <1>0, <1>h, LengthFacts DEF Held
<1>1. CASE UNCHANGED <<handles, wire>>
  <2>1. session' >= session /\ session \in Nat /\ session' \in Nat
    BY <1>0, LengthFacts
  <2>2. life' = "alive"
    BY <1>0
  <2>. QED  BY <1>0, <1>1, <2>1, <2>2, Kept
<1>2. CASE /\ task[h] \in {"absent", "tooMany", "nothing"}
           /\ handles' = Remove(handles, cursor) /\ UNCHANGED wire
  <2>1. /\ \A i, j \in 1..Len(handles') : handles'[i] = handles'[j] => i = j
        /\ ~Held(h)' /\ \A q : q # h => (Held(q)' <=> Held(q))
    BY <1>0, <1>2, <1>h, ErasedHandle
  <2>2. \A q : Returns(q)' = Returns(q) /\ Acks(q)' = Acks(q)
    BY <1>2 DEF Returns, Acks
  <2>3. HandleInv'
    BY <1>0, <1>2, <2>1, <2>2 DEF HandleInv, Unfinished
  <2>4. \A k \in 1..Len(wire) : wire[k].type = "return" => ~Held(wire[k].req)'
    <3>. SUFFICES ASSUME NEW k \in 1..Len(wire), wire[k].type = "return",
                         NEW q, q = wire[k].req
                  PROVE  ~Held(q)'
      BY <1>2
    <3>. QED  BY <1>l, <2>1 DEF WireInv
  <2>5. WireInv'
    BY <1>0, <1>2, <2>2, <2>4 DEF WireInv
  <2>. QED  BY <2>3, <2>5
<1>3. CASE /\ task[h] = "value" /\ handles' = Remove(handles, cursor)
           /\ wire' = Append(wire, Frame("return", h, "value", ran[h]))
  <2>1. /\ \A i, j \in 1..Len(handles') : handles'[i] = handles'[j] => i = j
        /\ ~Held(h)' /\ \A q : q # h => (Held(q)' <=> Held(q))
    BY <1>0, <1>3, <1>h, ErasedHandle
  <2>2. /\ Len(wire) \in Nat /\ Len(wire') = Len(wire) + 1
        /\ \A k \in 1..Len(wire) : wire'[k] = wire[k]
        /\ wire'[Len(wire')].type = "return" /\ wire'[Len(wire')].req = h
        /\ wire'[Len(wire')].session \in {0, session}
    BY <1>3, ReturnFacts, LengthFacts
  <2>3. /\ \A k \in 1..Len(wire') : k \in 1..Len(wire) \/ k = Len(wire')
        /\ \A k \in 1..Len(wire) : k \in 1..Len(wire') /\ k < Len(wire')
        /\ Len(wire') \in 1..Len(wire')
    BY <2>2
  <2>4. /\ \A q : Acks(q) \subseteq Acks(q)'
        /\ \A q : Returns(q) \subseteq Returns(q)'
        /\ Len(wire') \in Returns(h)'
    <3>1. \A q : Acks(q) \subseteq Acks(q)'
      BY <2>2, <2>3 DEF Acks
    <3>2. \A q : Returns(q) \subseteq Returns(q)'
      BY <2>2, <2>3 DEF Returns
    <3>3. Len(wire') \in Returns(h)'
      BY <2>2, <2>3 DEF Returns
    <3>. QED  BY <3>1, <3>2, <3>3
  <2>5. HandleInv'
    <3>1. ASSUME NEW q \in 1..Len(requests)
          PROVE  /\ q > handled => task[q] = "absent"
                 /\ task[q] \in Unfinished => Held(q)'
                 /\ task[q] = "value" => Held(q)' \/ Returns(q)' # {}
                 /\ task[q] \in {"running", "value", "tooMany"} => ran[q] # 0
      <4>1. CASE q = h
        BY <1>3, <1>l, <2>4, <4>1 DEF HandleInv, Unfinished
      <4>2. CASE q # h
        BY <1>0, <2>1, <2>4, <4>2 DEF HandleInv
      <4>. QED  BY <4>1, <4>2
    <3>. QED  BY <1>0, <2>1, <3>1 DEF HandleInv
  <2>6. \A k \in 1..Len(wire) : ~(wire[k].type = "return" /\ wire[k].req = h)
    BY <1>l DEF WireInv
  <2>7. WireInv'
    <3>1. \A k \in 1..Len(wire') :
            wire'[k].req \in 1..handled' /\ wire'[k].session <= session'
      <4>1. 0 <= session /\ session <= session /\ session' = session /\ handled' = handled
        BY <1>0, LengthFacts
      <4>. QED  BY <2>2, <2>3, <4>1 DEF WireInv
    <3>2. \A j, k \in 1..Len(wire') :
            (wire'[j].type = wire'[k].type /\ wire'[j].req = wire'[k].req) => j = k
      <4>. SUFFICES ASSUME NEW j \in 1..Len(wire'), NEW k \in 1..Len(wire'),
                           wire'[j].type = wire'[k].type, wire'[j].req = wire'[k].req
                    PROVE  j = k
        OBVIOUS
      <4>1. CASE j \in 1..Len(wire) /\ k \in 1..Len(wire)
        BY <2>2, <4>1 DEF WireInv
      <4>2. CASE j = Len(wire') \/ k = Len(wire')
        BY <2>2, <2>3, <2>6, <4>2
      <4>. QED  BY <2>3, <4>1, <4>2
    <3>3. \A q \in 1..handled' :
            \E a \in Acks(q)' : task'[q] # "absent" => wire'[a].status = "ok"
      <4>1. \A q \in 1..handled : \E a \in Acks(q) :
              (task[q] # "absent" => wire[a].status = "ok") /\ a \in 1..Len(wire)
        BY DEF WireInv, Acks
      <4>. QED  BY <1>0, <2>2, <2>4, <4>1
    <3>4. ASSUME NEW k \in 1..Len(wire'), wire'[k].type = "return",
                 NEW q, q = wire'[k].req
          PROVE  /\ task'[q] = "value" /\ ran'[q] # 0 /\ ~Held(q)'
                 /\ \E a \in Acks(q)' :
                      /\ a < k /\ wire'[a].status = "ok"
                      /\ wire'[k].session # 0 => wire'[a].session <= wire'[k].session
      <4>1. CASE k \in 1..Len(wire)
        <5>1. wire[k].type = "return" /\ wire'[k] = wire[k] /\ q = wire[k].req
          BY <2>2, <3>4, <4>1
        <5>2. PICK a \in Acks(q) :
                /\ a < k /\ wire[a].status = "ok"
                /\ wire[k].session # 0 => wire[a].session <= wire[k].session
          BY <4>1, <5>1 DEF WireInv
        <5>3. a \in Acks(q)' /\ wire'[a] = wire[a]
          BY <2>2, <2>4, <5>2 DEF Acks
        <5>4. task[q] = "value" /\ ran[q] # 0 /\ ~Held(q) /\ q # h
          BY <2>6, <4>1, <5>1 DEF WireInv
        <5>. QED  BY <1>0, <2>1, <5>1, <5>2, <5>3, <5>4
      <4>2. CASE k = Len(wire')
        <5>1. q = h
          BY <2>2, <3>4, <4>2
        <5>2. PICK a \in Acks(h) : wire[a].status = "ok"
          BY <1>3 DEF WireInv
        <5>3. /\ a \in Acks(h)' /\ a \in 1..Len(wire) /\ wire'[a] = wire[a] /\ a < k
              /\ wire[a].session <= session
          BY <2>2, <2>3, <2>4, <4>2, <5>2 DEF Acks, WireInv
        <5>4. ran[h] # 0
          BY <1>3, <1>l DEF HandleInv
        <5>5. wire'[k].session # 0 => wire'[a].session <= wire'[k].session
          BY <2>2, <4>2, <5>3
        <5>. QED  BY <1>0, <1>3, <2>1, <5>1, <5>2, <5>3, <5>4, <5>5
      <4>. QED  BY <2>3, <4>1, <4>2
    <3>5. ASSUME NEW k \in 1..Len(wire'), wire'[k].type = "return"
          PROVE  /\ task'[wire'[k].req] = "value" /\ ran'[wire'[k].req] # 0
                 /\ ~Held(wire[k].req)'
                 /\ \E a \in Acks(wire[k].req)' :
                      /\ a < k /\ wire'[a].status = "ok"
                      /\ wire'[k].session # 0 => wire'[a].session <= wire'[k].session
      <4>1. PICK q : q = wire'[k].req
        OBVIOUS
      <4>2. Held(wire[k].req)' = Held(q)' /\ Acks(wire[k].req)' = Acks(q)'
        BY <4>1
      <4>. QED  BY <3>4, <3>5, <4>1, <4>2
    <3>. QED  BY <3>1, <3>2, <3>3, <3>5 DEF WireInv
  <2>. QED  BY <2>5, <2>7
<1>. QED  BY <1>1, <1>2, <1>3, <1>h, CollectCases

\* A request that arrives has no callback yet.
LEMMA ArriveStep ==
  ASSUME TypeOK, MoreTypes, PhaseInv, HandleInv, WireInv, Arrive
  PROVE  HandleInv' /\ WireInv'
<1>1. /\ UNCHANGED <<handled, handles, wire, session, life>> /\ life = "alive"
  BY DEF Arrive, PhaseInv, linkVars, spinVars
<1>2. /\ Len(requests') = Len(requests) + 1
      /\ \A q \in 1..Len(requests) : task'[q] = task[q] /\ ran'[q] = ran[q]
      /\ task'[Len(requests) + 1] = "absent"
  <2>1. PICK m \in Request : requests' = Append(requests, m)
    BY DEF Arrive
  <2>2. /\ task \in Seq(TaskStates) /\ Len(task) = Len(requests) /\ "absent" \in TaskStates
        /\ ran \in Seq(0..version) /\ Len(ran) = Len(requests) /\ 0 \in 0..version
    <3>1. /\ task \in [1..Len(requests) -> TaskStates]
          /\ ran \in [1..Len(requests) -> 0..version]
      BY DEF TypeOK
    <3>2. Len(requests) \in Nat /\ version \in Nat
      BY LengthFacts
    <3>3. task \in Seq(TaskStates) /\ Len(task) = Len(requests)
      BY <3>1, <3>2, FunctionIsSequence
    <3>4. ran \in Seq(0..version) /\ Len(ran) = Len(requests)
      BY <3>1, <3>2, FunctionIsSequence
    <3>. QED  BY <3>2, <3>3, <3>4 DEF TaskStates
  <2>3. requests \in Seq(Request)
    BY DEF TypeOK
  <2>4. task' = Append(task, "absent") /\ ran' = Append(ran, 0)
    BY DEF Arrive
  <2>. QED  BY <2>1, <2>2, <2>3, <2>4, AppendFacts
<1>3. \A q \in 1..Len(requests') : q \in 1..Len(requests) \/ q = Len(requests) + 1
  BY <1>2, LengthFacts
<1>4. \A q : Held(q)' = Held(q) /\ Returns(q)' = Returns(q) /\ Acks(q)' = Acks(q)
  BY <1>1 DEF Held, Returns, Acks
<1>5. HandleInv'
  <2>1. ASSUME NEW q \in 1..Len(requests')
        PROVE  /\ q > handled => task'[q] = "absent"
               /\ task'[q] \in Unfinished => Held(q)'
               /\ task'[q] = "value" => Held(q)' \/ Returns(q)' # {}
               /\ task'[q] \in {"running", "value", "tooMany"} => ran'[q] # 0
    <3>1. CASE q \in 1..Len(requests)
      BY <1>1, <1>2, <1>4, <3>1 DEF HandleInv
    <3>2. CASE q = Len(requests) + 1
      BY <1>2, <3>2 DEF Unfinished
    <3>. QED  BY <1>3, <3>1, <3>2
  <2>. QED  BY <1>1, <2>1 DEF HandleInv
<1>6. WireInv'
  <2>1. 1..handled \subseteq 1..Len(requests)
    BY LengthFacts
  <2>2. \A k \in 1..Len(wire) : wire[k].req \in 1..Len(requests)
    BY <2>1 DEF WireInv
  <2>3. \A k \in 1..Len(wire) : Held(wire[k].req)' = Held(wire[k].req)
                                /\ Acks(wire[k].req)' = Acks(wire[k].req)
    BY <1>1, <1>4
  <2>. QED  BY <1>1, <1>2, <1>4, <2>1, <2>2, <2>3 DEF WireInv
<1>. QED  BY <1>5, <1>6

\* A step of a callback's thread: its handle is held until it has ended.
LEMMA TaskStepInv ==
  ASSUME TypeOK, MoreTypes, HandleInv, WireInv, NEW q \in 1..Len(task),
         TaskStart(q) \/ TaskEnd(q)
  PROVE  HandleInv' /\ WireInv'
<1>1. /\ UNCHANGED <<requests, handled, handles, wire, session, life>>
      /\ q \in 1..Len(requests)
      /\ \A p \in 1..Len(requests) : p # q => task'[p] = task[p] /\ ran'[p] = ran[p]
      /\ task[q] \in Unfinished
      /\ ran'[q] # 0 \/ task'[q] = "nothing"
  BY TaskFacts DEF linkVars, spinVars
<1>2. Held(q) /\ q <= handled /\ task[q] # "absent" /\ task[q] # "value"
  BY <1>1, LengthFacts DEF HandleInv, Unfinished
<1>3. \A p : Held(p)' = Held(p) /\ Returns(p)' = Returns(p) /\ Acks(p)' = Acks(p)
  BY <1>1 DEF Held, Returns, Acks
<1>4. HandleInv'
  <2>1. ASSUME NEW p \in 1..Len(requests)
        PROVE  /\ p > handled => task'[p] = "absent"
               /\ task'[p] \in Unfinished => Held(p)'
               /\ (life = "alive" /\ task'[p] = "value") => Held(p)' \/ Returns(p)' # {}
               /\ task'[p] \in {"running", "value", "tooMany"} => ran'[p] # 0
    <3>1. CASE p = q
      BY <1>1, <1>2, <1>3, <3>1, LengthFacts
    <3>2. CASE p # q
      BY <1>1, <1>3, <3>2 DEF HandleInv
    <3>. QED  BY <3>1, <3>2
  <2>. QED  BY <1>1, <2>1 DEF HandleInv
<1>5. WireInv'
  <2>1. \A k \in 1..Len(wire) : wire[k].req \in 1..Len(requests)
    BY LengthFacts DEF WireInv
  <2>2. \A k \in 1..Len(wire) : wire[k].type = "return" => wire[k].req # q
    BY <1>2 DEF WireInv
  <2>3. \A k \in 1..Len(wire) : Held(wire[k].req)' = Held(wire[k].req)
                                /\ Acks(wire[k].req)' = Acks(wire[k].req)
    BY <1>1, <1>3
  <2>4. \A p \in 1..handled : p \in 1..Len(requests) /\ (p = q => task[p] # "absent")
    BY <1>2, LengthFacts
  <2>5. \A p \in 1..handled :
          \E a \in Acks(p)' : task'[p] # "absent" => wire'[a].status = "ok"
    BY <1>1, <1>3, <2>4 DEF WireInv
  <2>. QED  BY <1>1, <1>3, <2>1, <2>2, <2>3, <2>5 DEF WireInv
<1>. QED  BY <1>4, <1>5

\* The destructor gives a handle up when its callback has ended.
LEMMA DestroyHandleStep ==
  ASSUME TypeOK, MoreTypes, HandleInv, WireInv, DestroyHandle
  PROVE  HandleInv' /\ WireInv'
<1>1. /\ UNCHANGED <<requests, handled, wire, session, task, ran, life>>
      /\ life = "destroying" /\ handles # << >> /\ handles' = Tail(handles)
      /\ task[Head(handles)] \notin Unfinished
  BY DEF DestroyHandle, WaitedFor, linkVars, taskVars
<1>2. /\ Len(handles) \in Nat \ {0} /\ Len(handles') = Len(handles) - 1
      /\ \A k \in 1..Len(handles') : handles'[k] = handles[k + 1]
      /\ Head(handles) = handles[1]
  <2>1. handles \in Seq(1..handled)
    BY DEF TypeOK
  <2>. QED  BY <1>1, <2>1, TailFacts
<1>3. \A q : Returns(q)' = Returns(q) /\ Acks(q)' = Acks(q)
  BY <1>1 DEF Returns, Acks
<1>4. \A q : Held(q)' => Held(q)
  BY <1>2 DEF Held
<1>5. ASSUME NEW q, Held(q), task[q] \in Unfinished
      PROVE  Held(q)'
  <2>1. PICK k \in 1..Len(handles) : handles[k] = q
    BY <1>5 DEF Held
  <2>2. k # 1
    BY <1>1, <1>2, <1>5, <2>1
  <2>3. k - 1 \in 1..Len(handles') /\ handles'[k - 1] = handles[(k - 1) + 1]
    BY <1>2, <2>2
  <2>4. handles'[k - 1] = q
    BY <2>1, <2>3
  <2>. QED  BY <2>3, <2>4 DEF Held
<1>6. \A i, j \in 1..Len(handles') : handles'[i] = handles'[j] => i = j
  <2>1. \A i \in 1..Len(handles') : i + 1 \in 1..Len(handles) /\ i \in Nat
    BY <1>2
  <2>. QED  BY <1>2, <2>1 DEF HandleInv
<1>7. HandleInv'
  BY <1>1, <1>5, <1>6 DEF HandleInv
<1>8. WireInv'
  <2>1. \A k \in 1..Len(wire) : Held(wire[k].req)' => Held(wire[k].req)
    BY <1>1, <1>4
  <2>2. \A k \in 1..Len(wire) : Acks(wire[k].req)' = Acks(wire[k].req)
    BY <1>1, <1>3
  <2>. QED  BY <1>1, <1>3, <2>1, <2>2 DEF WireInv
<1>. QED  BY <1>7, <1>8

\* The invariant is inductive.
LEMMA BaseStep == BaseInv /\ [Next]_vars => BaseInv'
<1>. SUFFICES ASSUME BaseInv, [Next]_vars
              PROVE  BaseInv'
  OBVIOUS
<1>. USE DEF BaseInv
<1>s. session \in Nat
  BY LengthFacts
<1>1. ASSUME Next
      PROVE  HandleInv' /\ WireInv'
  <2>1. CASE /\ UNCHANGED <<requests, handled, handles, task, ran, wire>>
             /\ session' \in {session, session + 1}
             /\ life' # "alive" \/ life = "alive"
             /\ life' = "gone" => handles = << >>
    <3>1. session' >= session /\ session' \in Nat
      BY <1>s, <2>1
    <3>. QED  BY <1>s, <2>1, <3>1, Kept
  <2>2. CASE \/ Registered \/ Register \/ SpinBegin \/ HandleNothing \/ EndSpin
             \/ HandlePastEnd \/ SendCrash \/ PeerClose \/ NoticeClose
             \/ \E q \in 1..MaxRequests : q \in 1..Len(task) /\ TaskRace(q)
    <3>1. /\ UNCHANGED <<requests, handled, handles, task, ran, wire, life>>
          /\ session' = session
      BY <2>2
         DEF Registered, Register, SpinBegin, HandleNothing, EndSpin, HandlePastEnd,
             SendCrash, PeerClose, NoticeClose, TaskRace, linkVars, spinVars, taskVars,
             callVars
    <3>. QED  BY <2>1, <3>1 DEF HandleInv
  <2>3. CASE Reconnect \/ Destroy \/ DestroyRegistry
    BY <2>1, <2>3
       DEF Reconnect, Destroy, DestroyRegistry, HandlesAfter, Spinning, linkVars, spinVars,
           taskVars
  <2>. QED
    BY <1>1, <2>2, <2>3, NextCases, HandleStep, CollectStep, ArriveStep, TaskStepInv,
       DestroyHandleStep
<1>2. CASE Next
  BY <1>1, <1>2, TypeStep, PhaseStep
<1>3. CASE UNCHANGED vars
  <2>1. UNCHANGED <<callbacks, names, registering, overwriting, version, link, session,
                    requests, handled, spinPc, cursor, handles, wire, task, ran, life,
                    crashed>>
    BY <1>3 DEF vars, registryVars, callVars, linkVars, spinVars, taskVars
  <2>2. TypeOK' /\ MoreTypes'
    BY <2>1 DEF TypeOK, MoreTypes
  <2>3. PhaseInv'
    BY <2>1 DEF PhaseInv, Idle
  <2>4. session' >= session /\ session' \in Nat
    BY <1>s, <2>1
  <2>5. life' # "alive" \/ life = "alive"
    BY <2>1
  <2>6. life' = "gone" => handles = << >>
    BY <2>1 DEF HandleInv
  <2>7. HandleInv' /\ WireInv'
    BY <1>s, <2>1, <2>4, <2>5, <2>6, Kept
  <2>. QED  BY <2>2, <2>3, <2>7
<1>. QED  BY <1>2, <1>3

-----------------------------------------------------------------------------
(* The theorems that hold for every value of the constants                 *)

\* Type correctness; in particular every handle in m_inboundRequestsQueue
\* belongs to a request that was taken off the inbound queue.
THEOREM CallsTypeCorrect == Spec => []TypeOK
<1>1. BaseInv => TypeOK
  BY DEF BaseInv
<1>. QED  BY <1>1, BaseInit, BaseStep, PTL DEF Spec

\* For any number of requests, callbacks and connections: the loop of spin()
\* over m_inboundRequestsQueue erases and skips without losing or doubling a
\* handle whose callback still runs or whose value was not sent.
THEOREM HandlesKept == Spec => []NoHandleLost
<1>1. ASSUME BaseInv
      PROVE  NoHandleLost
  <2>. SUFFICES ASSUME NEW q \in 1..handled, life = "alive",
                       task[q] \in Unfinished \/ (task[q] = "value" /\ Returns(q) = {})
                PROVE  Cardinality({k \in 1..Len(handles) : handles[k] = q}) = 1
    BY DEF NoHandleLost
  <2>1. q \in 1..Len(requests)
    BY <1>1, LengthFacts DEF BaseInv
  <2>2. Held(q)
    BY <1>1, <2>1 DEF BaseInv, HandleInv
  <2>3. PICK k \in 1..Len(handles) : handles[k] = q
    BY <2>2 DEF Held
  <2>4. \A j \in {i \in 1..Len(handles) : handles[i] = q} : j = k
    BY <1>1, <2>3 DEF BaseInv, HandleInv
  <2>. QED  BY <2>3, <2>4, OneElement
<1>. QED  BY <1>1, BaseInit, BaseStep, PTL DEF Spec

\* For any number of requests, callbacks and connections: one acknowledgement
\* for each handled request, and at most one return, after an acknowledgement
\* with Ok, on the same or a later connection.
THEOREM ReturnsFollowProtocol == Spec => []ReturnProtocol
<1>1. ASSUME BaseInv
      PROVE  ReturnProtocol
  <2>. SUFFICES ASSUME NEW q \in 1..Len(requests)
                PROVE  /\ Cardinality(Acks(q)) = (IF q <= handled THEN 1 ELSE 0)
                       /\ Cardinality(Returns(q)) <= 1
                       /\ \A k \in Returns(q) : \E a \in Acks(q) :
                            /\ a < k /\ wire[a].status = "ok"
                            /\ wire[k].session # 0 => wire[a].session <= wire[k].session
                       /\ Returns(q) # {} => task[q] = "value" /\ ran[q] # 0
    BY DEF ReturnProtocol
  <2>w. WireInv /\ handled \in Nat
    BY <1>1, LengthFacts DEF BaseInv
  <2>1. \A j, k \in Acks(q) : j = k
    BY <2>w DEF WireInv, Acks
  <2>2. q <= handled => Cardinality(Acks(q)) = 1
    <3>. SUFFICES ASSUME q <= handled
                  PROVE  Cardinality(Acks(q)) = 1
      OBVIOUS
    <3>1. PICK a \in Acks(q) : TRUE
      BY <2>w DEF WireInv
    <3>. QED  BY <2>1, <3>1, OneElement
  <2>3. q <= handled \/ Cardinality(Acks(q)) = 0
    <3>. SUFFICES ASSUME ~(q <= handled)
                  PROVE  Cardinality(Acks(q)) = 0
      OBVIOUS
    <3>1. Acks(q) = {}
      BY <2>w DEF WireInv, Acks
    <3>. QED  BY <3>1, FS_EmptySet
  <2>4. Cardinality(Returns(q)) <= 1
    <3>1. \A j, k \in Returns(q) : j = k
      BY <2>w DEF WireInv, Returns
    <3>. QED  BY <3>1, AtMostOne
  <2>5. \A k \in Returns(q) : \E a \in Acks(q) :
          /\ a < k /\ wire[a].status = "ok"
          /\ wire[k].session # 0 => wire[a].session <= wire[k].session
    BY <2>w DEF WireInv, Returns
  <2>6. Returns(q) # {} => task[q] = "value" /\ ran[q] # 0
    BY <2>w DEF WireInv, Returns
  <2>. QED  BY <2>2, <2>3, <2>4, <2>5, <2>6
<1>. QED  BY <1>1, BaseInit, BaseStep, PTL DEF Spec

\* For any number of callbacks that run when the bridge is destroyed: none of
\* them outlives the UserCallbackMap in which it looks itself up.
THEOREM NoCallbackOutlivesRegistry == Spec => []RegistryOutlivesCallbacks
<1>1. ASSUME BaseInv
      PROVE  RegistryOutlivesCallbacks
  <2>. SUFFICES ASSUME life = "gone", NEW q \in 1..Len(task), task[q] \in Unfinished
                PROVE  FALSE
    BY DEF RegistryOutlivesCallbacks
  <2>1. q \in 1..Len(requests) /\ handles = << >>
    BY <1>1, LengthFacts DEF BaseInv, HandleInv
  <2>2. Held(q)
    BY <1>1, <2>1 DEF BaseInv, HandleInv
  <2>. QED  BY <2>1, <2>2 DEF Held
<1>. QED  BY <1>1, BaseInit, BaseStep, PTL DEF Spec

-----------------------------------------------------------------------------
(* The registry and its enumeration                                        *)

\* The index of a request and the name an answer has for it.
LEMMA IndexFacts ==
  ASSUME BaseInv
  PROVE  /\ \A q \in 1..Len(requests) : requests[q].index \in Nat
         /\ \A k \in 1..Len(wire) : wire[k].req \in 1..Len(requests)
<1>1. \A q \in 1..Len(requests) : requests[q] \in Request
  BY ElementFacts DEF BaseInv, TypeOK
<1>2. \A q \in 1..Len(requests) : requests[q].index \in Nat
  BY <1>1, CallsAssumption DEF Request
<1>3. \A k \in 1..Len(wire) : wire[k].req \in 1..Len(requests)
  BY LengthFacts DEF BaseInv, WireInv
<1>. QED  BY <1>2, <1>3

\* The names in a list of names.
LEMMA RangeFacts ==
  ASSUME NEW S, NEW s \in Seq(S)
  PROVE  /\ Range(s) = {s[i] : i \in 1..Len(s)}
         /\ \A e \in S : Range(Append(s, e)) = Range(s) \cup {e}
<1>1. DOMAIN s = 1..Len(s) /\ Len(s) \in Nat
  OBVIOUS
<1>2. Range(s) = {s[i] : i \in 1..Len(s)}
  BY <1>1 DEF Range
<1>3. ASSUME NEW e \in S
      PROVE  Range(Append(s, e)) = Range(s) \cup {e}
  <2>1. /\ Append(s, e) \in Seq(S) /\ Len(Append(s, e)) = Len(s) + 1
        /\ \A i \in 1..Len(s) : Append(s, e)[i] = s[i]
        /\ Append(s, e)[Len(s) + 1] = e
    BY AppendFacts
  <2>2. DOMAIN Append(s, e) = 1..(Len(s) + 1)
    BY <2>1
  <2>3. \A i \in 1..(Len(s) + 1) : i \in 1..Len(s) \/ i = Len(s) + 1
    BY <1>1
  <2>4. \A i \in 1..Len(s) : i \in 1..(Len(s) + 1)
    BY <1>1
  <2>5. Len(s) + 1 \in 1..(Len(s) + 1)
    BY <1>1
  <2>6. Range(Append(s, e)) = {Append(s, e)[i] : i \in 1..(Len(s) + 1)}
    BY <2>2 DEF Range
  <2>. QED  BY <1>2, <2>1, <2>3, <2>4, <2>5, <2>6
<1>. QED  BY <1>2, <1>3

\* Initially the registry is empty.
LEMMA RegistryInitially == Init => RegistryInv /\ StartInv
<1>. SUFFICES ASSUME Init
              PROVE  RegistryInv /\ StartInv
  OBVIOUS
<1>1. /\ names = << >> /\ requests = << >> /\ wire = << >> /\ task = << >>
      /\ version = 0 /\ DOMAIN callbacks = {} /\ Idle
  BY DEF Init, RegistryInit, Idle
<1>2. Range(names) = {}
  BY <1>1 DEF Range
<1>. QED  BY <1>1, <1>2 DEF RegistryInv, StartInv

\* Registering: the map and the list change in one step.
LEMMA RegisteredStep ==
  ASSUME BaseInv, RegistryInv, Registered
  PROVE  RegistryInv'
<1>. USE DEF Registered, RegisterStore
<1>0. /\ registering \in Names /\ version \in Nat /\ Len(names) \in Nat /\ names \in Seq(Names)
      /\ ~Idle /\ UNCHANGED <<requests, wire, version>> /\ Idle'
  BY LengthFacts DEF BaseInv, TypeOK, Idle, callVars, spinVars
<1>1. DOMAIN callbacks' = DOMAIN callbacks \cup {registering}
  OBVIOUS
<1>2. \A n \in DOMAIN callbacks' : callbacks'[n] # 0
  BY <1>0 DEF RegistryInv
<1>3. CASE overwriting
  <2>1. names' = names /\ registering \in DOMAIN callbacks
    BY <1>0, <1>3 DEF NamesAfter, RegistryInv
  <2>2. DOMAIN callbacks' = Range(names')
    BY <1>1, <2>1 DEF RegistryInv
  <2>. QED  BY <1>0, <1>2, <2>1, <2>2 DEF RegistryInv
<1>4. CASE ~overwriting
  <2>1. names' = Append(names, registering) /\ registering \notin DOMAIN callbacks
    BY <1>0, <1>4 DEF NamesAfter, RegistryInv
  <2>2. /\ Len(names') = Len(names) + 1 /\ \A i \in 1..Len(names) : names'[i] = names[i]
        /\ names'[Len(names) + 1] = registering
    BY <1>0, <2>1, AppendFacts
  <2>3. DOMAIN callbacks' = Range(names')
    BY <1>0, <1>1, <2>1, RangeFacts DEF RegistryInv
  <2>4. \A i \in 1..Len(names) : names[i] # registering
    BY <1>0, <2>1, RangeFacts DEF RegistryInv
  <2>5. \A i, j \in 1..Len(names') : names'[i] = names'[j] => i = j
    <3>1. \A i \in 1..Len(names') : i \in 1..Len(names) \/ i = Len(names) + 1
      BY <1>0, <2>2
    <3>. QED  BY <2>2, <2>4, <3>1 DEF RegistryInv
  <2>6. Len(names') <= version'
    BY <1>0, <2>2 DEF RegistryInv
  <2>7. \A q \in 1..Len(requests') : requests'[q].kind = "describe" =>
          requests'[q].index < Len(names') \/ requests'[q].index > MaxRegistrations
    BY <1>0, <2>2, IndexFacts DEF RegistryInv
  <2>8. ASSUME NEW k \in 1..Len(wire), wire[k].status = "described"
        PROVE  /\ requests[wire[k].req].index < Len(names')
               /\ wire[k].value = names'[requests[wire[k].req].index + 1]
    <3>1. /\ requests[wire[k].req].index \in Nat
          /\ requests[wire[k].req].index < Len(names)
          /\ wire[k].value = names[requests[wire[k].req].index + 1]
      BY <2>8, IndexFacts DEF RegistryInv
    <3>2. requests[wire[k].req].index + 1 \in 1..Len(names)
      BY <1>0, <3>1
    <3>. QED  BY <1>0, <2>2, <3>1, <3>2
  <2>. QED  BY <1>0, <1>2, <2>3, <2>5, <2>6, <2>7, <2>8 DEF RegistryInv
<1>. QED  BY <1>3, <1>4

\* Asked within the list, getManifestAt finds the name and changes nothing.
LEMMA DescribeFacts ==
  ASSUME BaseInv, RegistryInv, NEW q \in 1..Len(requests),
         requests[q].kind = "describe", InRange(requests[q].index)
  PROVE  /\ requests[q].index < Len(names)
         /\ NameAt(requests[q].index) = names[requests[q].index + 1]
         /\ GetManifestAt(requests[q].index) => UNCHANGED registryVars
<1>0. /\ Len(names) \in Nat /\ version \in Nat /\ version <= MaxRegistrations
      /\ requests[q].index \in Nat /\ MaxRegistrations \in Nat /\ names \in Seq(Names)
  BY LengthFacts, IndexFacts, RegistryAssumption DEF BaseInv, TypeOK
<1>1. requests[q].index < Len(names)
  BY <1>0 DEF RegistryInv, InRange
<1>2. NameAt(requests[q].index) = names[requests[q].index + 1]
  BY <1>0, <1>1 DEF NameAt, PastEnd
<1>3. names[requests[q].index + 1] \in DOMAIN callbacks
  <2>1. requests[q].index + 1 \in 1..Len(names)
    BY <1>0, <1>1
  <2>. QED  BY <1>0, <2>1, RangeFacts DEF RegistryInv
<1>4. ASSUME GetManifestAt(requests[q].index)
      PROVE  UNCHANGED registryVars
  <2>1. callbacks \in [DOMAIN callbacks -> 0..version]
    BY DEF BaseInv, TypeOK
  <2>2. callbacks' = [n \in DOMAIN callbacks |-> callbacks[n]]
    <3>1. DOMAIN callbacks \cup {names[requests[q].index + 1]} = DOMAIN callbacks
      BY <1>3
    <3>. QED  BY <1>2, <1>4, <3>1 DEF GetManifestAt
  <2>3. callbacks' = callbacks
    BY <2>1, <2>2
  <2>. QED  BY <1>4, <2>3 DEF GetManifestAt, registryVars
<1>. QED  BY <1>1, <1>2, <1>4

\* A frame that is no description leaves the registry's part alone, and a
\* description has the name of its index.
LEMMA FrameAdded ==
  ASSUME BaseInv, RegistryInv, UNCHANGED <<registryVars, requests>>,
         Len(wire') = Len(wire) + 1, \A k \in 1..Len(wire) : wire'[k] = wire[k],
         wire'[Len(wire')].status = "described" =>
           /\ requests[wire'[Len(wire')].req].index < Len(names)
           /\ wire'[Len(wire')].value = names[requests[wire'[Len(wire')].req].index + 1]
  PROVE  RegistryInv'
<1>1. UNCHANGED <<callbacks, names, registering, overwriting, version, requests>>
  BY DEF registryVars
<1>2. \A k \in 1..Len(wire') : k \in 1..Len(wire) \/ k = Len(wire')
  BY LengthFacts DEF BaseInv
<1>3. ASSUME NEW k \in 1..Len(wire'), wire'[k].status = "described"
      PROVE  /\ requests[wire'[k].req].index < Len(names)
             /\ wire'[k].value = names[requests[wire'[k].req].index + 1]
  BY <1>2, <1>3 DEF RegistryInv
<1>. QED  BY <1>1, <1>3 DEF RegistryInv, Idle

\* If no description request asks one past the end, the registry's part of the
\* invariant is inductive relative to the rest.
LEMMA RegistryStep ==
  ASSUME AskPastEnd = FALSE, BaseInv, RegistryInv, [Next]_vars
  PROVE  RegistryInv'
<1>1. CASE UNCHANGED <<registryVars, requests, wire>>
  BY <1>1 DEF RegistryInv, Idle, registryVars
<1>2. CASE Registered
  BY <1>2, RegisteredStep
<1>3. CASE Register
  <2>1. PICK name \in Names : RegisterFind(name)
    BY <1>3 DEF Register
  <2>2. /\ UNCHANGED <<callbacks, names, requests, wire>> /\ version' = version + 1
        /\ registering' = name /\ overwriting' = (name \in DOMAIN callbacks)
    BY <1>3, <2>1 DEF Register, RegisterFind, callVars, spinVars
  <2>3. version \in Nat /\ Len(names) \in Nat
    BY LengthFacts DEF BaseInv
  <2>4. Len(names') < version'
    BY <2>2, <2>3 DEF RegistryInv
  <2>. QED  BY <2>2, <2>3, <2>4 DEF RegistryInv, Idle
<1>4. CASE Handle
  <2>1. PICK status \in Answers, value \in Values :
          /\ Answer(handled + 1, status, value)
          /\ \/ status # "described" /\ UNCHANGED registryVars
             \/ /\ status = "described"
                /\ requests[handled + 1].kind = "describe"
                /\ InRange(requests[handled + 1].index)
                /\ value = NameAt(requests[handled + 1].index)
                /\ GetManifestAt(requests[handled + 1].index)
    BY <1>4, HandleCases DEF BaseInv
  <2>2. handled + 1 \in 1..Len(requests) /\ requests' = requests
    BY <1>4, HandleCases DEF BaseInv
  <2>3. /\ Len(wire') = Len(wire) + 1 /\ \A k \in 1..Len(wire) : wire'[k] = wire[k]
        /\ wire'[Len(wire')].req = handled + 1 /\ wire'[Len(wire')].status = status
        /\ wire'[Len(wire')].value = value
    BY <2>1, AnswerFacts DEF BaseInv
  <2>4. CASE status # "described"
    <3>1. UNCHANGED registryVars
      BY <2>1, <2>4
    <3>2. wire'[Len(wire')].status # "described"
      BY <2>3, <2>4
    <3>. QED  BY <2>2, <2>3, <3>1, <3>2, FrameAdded
  <2>5. CASE status = "described"
    <3>1. /\ UNCHANGED registryVars
          /\ requests[handled + 1].index < Len(names)
          /\ value = names[requests[handled + 1].index + 1]
      BY <2>1, <2>2, <2>5, DescribeFacts
    <3>. QED  BY <2>2, <2>3, <3>1, FrameAdded
  <2>. QED  BY <2>4, <2>5
<1>5. CASE Collect
  <2>1. CASE UNCHANGED wire
    BY <1>1, <1>5, <2>1 DEF Collect
  <2>2. CASE wire' = Append(wire, Frame("return", handles[cursor], "value",
                                        ran[handles[cursor]]))
    <3>1. /\ Len(wire') = Len(wire) + 1 /\ \A k \in 1..Len(wire) : wire'[k] = wire[k]
          /\ wire'[Len(wire')].status = "value"
      BY <1>5, <2>2, CollectCases, ReturnFacts DEF BaseInv
    <3>2. UNCHANGED <<registryVars, requests>>
      BY <1>5 DEF Collect
    <3>. QED  BY <3>1, <3>2, FrameAdded
  <2>. QED  BY <1>5, <2>1, <2>2, CollectCases DEF BaseInv
<1>6. CASE Arrive
  <2>1. PICK m \in Request :
          /\ requests' = Append(requests, m)
          /\ m.kind = "describe" => m.index < Len(names) \/ m.index > MaxRegistrations
    BY <1>6 DEF Arrive
  <2>2. /\ Len(requests') = Len(requests) + 1
        /\ \A q \in 1..Len(requests) : requests'[q] = requests[q]
        /\ requests'[Len(requests) + 1] = m
    BY <2>1, AppendFacts DEF BaseInv, TypeOK
  <2>3. UNCHANGED <<callbacks, names, registering, overwriting, version, wire>>
    BY <1>6 DEF Arrive, registryVars, spinVars
  <2>4. \A q \in 1..Len(requests') : q \in 1..Len(requests) \/ q = Len(requests) + 1
    BY <2>2, LengthFacts DEF BaseInv
  <2>5. \A q \in 1..Len(requests') : requests'[q].kind = "describe" =>
          requests'[q].index < Len(names) \/ requests'[q].index > MaxRegistrations
    BY <2>1, <2>2, <2>4 DEF RegistryInv
  <2>6. \A k \in 1..Len(wire) : requests'[wire[k].req] = requests[wire[k].req]
    BY <2>2, IndexFacts
  <2>. QED  BY <2>3, <2>5, <2>6 DEF RegistryInv, Idle
<1>7. CASE \/ SpinBegin \/ HandleNothing \/ EndSpin \/ HandlePastEnd \/ SendCrash
           \/ PeerClose \/ NoticeClose \/ Reconnect \/ Destroy \/ DestroyRegistry
           \/ DestroyHandle
           \/ \E q \in 1..MaxRequests :
                q \in 1..Len(task) /\ (TaskStart(q) \/ TaskRace(q) \/ TaskEnd(q))
  BY <1>1, <1>7
     DEF SpinBegin, HandleNothing, EndSpin, HandlePastEnd, SendCrash, PeerClose,
         NoticeClose, Reconnect, Destroy, DestroyRegistry, DestroyHandle, TaskStart,
         TaskRace, TaskEnd, callVars, spinVars
<1>8. CASE UNCHANGED vars
  BY <1>1, <1>8 DEF vars, callVars, spinVars
<1>. QED  BY <1>2, <1>3, <1>4, <1>5, <1>6, <1>7, <1>8, NextCases

\* If besides nothing is registered while callbacks start, a started callback
\* keeps its function until it has looked it up.
LEMMA StartStep ==
  ASSUME RegisterAnytime = FALSE, BaseInv, RegistryInv, StartInv, [Next]_vars
  PROVE  StartInv'
<1>l. Len(task) = Len(requests) /\ Len(requests) \in Nat
  BY LengthFacts DEF BaseInv
<1>1. CASE UNCHANGED <<callbacks, registering, requests, task, ran>>
  BY <1>1 DEF StartInv, Idle, HasCallback
<1>2. CASE Registered
  <2>1. UNCHANGED <<requests, task, ran>> /\ DOMAIN callbacks \subseteq DOMAIN callbacks'
    BY <1>2 DEF Registered, RegisterStore, callVars, taskVars
  <2>2. Idle'
    BY <1>2 DEF Registered, RegisterStore, Idle
  <2>. QED  BY <2>1, <2>2 DEF StartInv, HasCallback
<1>3. CASE Register
  <2>1. /\ UNCHANGED <<callbacks, requests, task, ran>>
        /\ \A q \in 1..Len(task) : task[q] # "started"
    BY <1>3 DEF Register, RegisterFind, callVars, taskVars
  <2>. QED  BY <2>1 DEF StartInv
<1>4. CASE Handle
  <2>1. /\ UNCHANGED <<requests, ran>> /\ Idle /\ handled + 1 \in 1..Len(requests)
        /\ task[handled + 1] = "absent"
    <3>1. UNCHANGED <<requests, ran>> /\ spinPc = "handle" /\ handled + 1 \in 1..Len(requests)
      BY <1>4, HandleCases DEF BaseInv
    <3>. QED  BY <3>1, LengthFacts DEF BaseInv, PhaseInv, HandleInv
  <2>2. /\ DOMAIN callbacks \subseteq DOMAIN callbacks' /\ registering' = registering
        /\ \/ UNCHANGED task
           \/ /\ task' = [task EXCEPT ![handled + 1] = "started"]
              /\ HasCallback(requests[handled + 1].name)
    BY <1>4, HandleCases DEF BaseInv, GetManifestAt, registryVars
  <2>3. Idle'
    BY <2>1, <2>2 DEF Idle
  <2>4. CASE UNCHANGED task
    BY <2>1, <2>2, <2>3, <2>4 DEF StartInv, HasCallback
  <2>5. CASE /\ task' = [task EXCEPT ![handled + 1] = "started"]
             /\ HasCallback(requests[handled + 1].name)
    <3>1. /\ Len(task') = Len(task)
          /\ \A q \in 1..Len(task) :
               task'[q] = IF q = handled + 1 THEN "started" ELSE task[q]
      <4>1. task \in [1..Len(requests) -> TaskStates]
        BY DEF BaseInv, TypeOK
      <4>2. task' \in [1..Len(requests) -> TaskStates]
        BY <2>1, <2>5, <4>1 DEF TaskStates
      <4>3. Len(task') = Len(requests)
        BY <1>l, <4>2, FunctionIsSequence
      <4>. QED  BY <1>l, <2>5, <4>1, <4>3
    <3>. QED  BY <2>1, <2>2, <2>3, <2>5, <3>1 DEF StartInv, HasCallback
  <2>. QED  BY <2>2, <2>4, <2>5
<1>5. CASE Arrive
  <2>1. PICK m \in Request : requests' = Append(requests, m)
    BY <1>5 DEF Arrive
  <2>2. /\ task \in Seq(TaskStates) /\ "absent" \in TaskStates
        /\ ran \in Seq(0..version) /\ 0 \in 0..version /\ Len(ran) = Len(task)
        /\ requests \in Seq(Request)
    <3>1. /\ task \in [1..Len(requests) -> TaskStates]
          /\ ran \in [1..Len(requests) -> 0..version]
          /\ requests \in Seq(Request)
      BY DEF BaseInv, TypeOK
    <3>2. version \in Nat
      BY LengthFacts DEF BaseInv
    <3>3. task \in Seq(TaskStates)
      BY <1>l, <3>1, FunctionIsSequence
    <3>4. ran \in Seq(0..version) /\ Len(ran) = Len(task)
      BY <1>l, <3>1, FunctionIsSequence
    <3>. QED  BY <3>1, <3>2, <3>3, <3>4 DEF TaskStates
  <2>3. task' = Append(task, "absent") /\ ran' = Append(ran, 0)
    BY <1>5 DEF Arrive
  <2>4. /\ Len(task') = Len(task) + 1
        /\ \A q \in 1..Len(task) :
             task'[q] = task[q] /\ ran'[q] = ran[q] /\ requests'[q] = requests[q]
        /\ task'[Len(task) + 1] = "absent"
    BY <1>l, <2>1, <2>2, <2>3, AppendFacts
  <2>5. \A q \in 1..Len(task') : q \in 1..Len(task) \/ q = Len(task) + 1
    BY <1>l, <2>4
  <2>6. UNCHANGED <<callbacks, registering>>
    BY <1>5 DEF Arrive, registryVars
  <2>. QED  BY <2>4, <2>5, <2>6 DEF StartInv, Idle, HasCallback
<1>6. ASSUME NEW q \in 1..Len(task), TaskStart(q) \/ TaskEnd(q)
      PROVE  StartInv'
  <2>1. /\ UNCHANGED <<callbacks, registering, requests>>
        /\ task' \in [1..Len(requests) -> TaskStates]
        /\ \A p \in 1..Len(requests) : p # q => task'[p] = task[p] /\ ran'[p] = ran[p]
        /\ task'[q] # "started"
        /\ \/ ran'[q] # 0
           \/ task[q] = "started" /\ (~Idle \/ Found(requests[q].name) = {})
    BY <1>6, TaskFacts DEF BaseInv, registryVars
  <2>2. ran'[q] # 0
    <3>. SUFFICES ASSUME task[q] = "started", ~Idle \/ Found(requests[q].name) = {}
                  PROVE  FALSE
      BY <2>1
    <3>1. Idle /\ HasCallback(requests[q].name)
      BY DEF StartInv
    <3>2. callbacks[requests[q].name] \in 1..version
      <4>1. callbacks[requests[q].name] \in 0..version
        BY <3>1 DEF BaseInv, TypeOK, HasCallback
      <4>2. callbacks[requests[q].name] # 0
        BY <3>1 DEF RegistryInv, HasCallback
      <4>3. version \in Nat
        BY LengthFacts DEF BaseInv
      <4>. QED  BY <4>1, <4>2, <4>3
    <3>3. callbacks[requests[q].name] \in Found(requests[q].name)
      BY <3>1, <3>2 DEF Found
    <3>. QED  BY <3>1, <3>3
  <2>3. Len(task') = Len(task)
    BY <1>l, <2>1, FunctionIsSequence
  <2>. QED  BY <1>l, <2>1, <2>2, <2>3 DEF StartInv, Idle, HasCallback
<1>7. CASE \/ SpinBegin \/ HandleNothing \/ EndSpin \/ HandlePastEnd \/ SendCrash
           \/ PeerClose \/ NoticeClose \/ Reconnect \/ Destroy \/ DestroyRegistry
           \/ DestroyHandle \/ Collect
           \/ \E q \in 1..MaxRequests : q \in 1..Len(task) /\ TaskRace(q)
  BY <1>1, <1>7
     DEF SpinBegin, HandleNothing, EndSpin, HandlePastEnd, SendCrash, PeerClose,
         NoticeClose, Reconnect, Destroy, DestroyRegistry, DestroyHandle, Collect, TaskRace,
         registryVars, callVars, taskVars
<1>8. CASE UNCHANGED vars
  BY <1>1, <1>8 DEF vars, registryVars, callVars, taskVars
<1>. QED  BY <1>2, <1>3, <1>4, <1>5, <1>6, <1>7, <1>8, NextCases

-----------------------------------------------------------------------------
(* The theorems about the registry                                         *)

\* "m_callbacks and m_callbackNames grow together": for any number of names,
\* registrations and requests, if no description request asks one past the end.
THEOREM RegistryGrowsTogether ==
  ASSUME AskPastEnd = FALSE
  PROVE  Spec => []GrowTogether
<1>1. BaseInv /\ RegistryInv => GrowTogether
  BY DEF RegistryInv, GrowTogether
<1>2. BaseInv /\ RegistryInv /\ [Next]_vars => RegistryInv'
  BY RegistryStep
<1>. QED  BY <1>1, <1>2, BaseInit, BaseStep, RegistryInitially, PTL DEF Spec

\* A remote enumeration by index sees each function once, however it overlaps
\* registrations, under the same condition.
THEOREM EnumerationIsStable ==
  ASSUME AskPastEnd = FALSE
  PROVE  Spec => []EnumerationStable
<1>1. ASSUME BaseInv, RegistryInv
      PROVE  EnumerationStable
  <2>. SUFFICES ASSUME NEW j \in 1..Len(wire), NEW k \in 1..Len(wire),
                       wire[j].status = "described", wire[k].status = "described"
                PROVE  requests[wire[j].req].index = requests[wire[k].req].index
                         <=> wire[j].value = wire[k].value
    BY DEF EnumerationStable
  <2>. DEFINE a == requests[wire[j].req].index
              b == requests[wire[k].req].index
  <2>1. /\ a \in Nat /\ a < Len(names) /\ wire[j].value = names[a + 1]
        /\ b \in Nat /\ b < Len(names) /\ wire[k].value = names[b + 1]
    BY <1>1, IndexFacts DEF RegistryInv
  <2>. HIDE DEF a, b
  <2>n. Len(names) \in Nat
    BY <1>1, LengthFacts DEF BaseInv
  <2>2. a + 1 \in 1..Len(names) /\ b + 1 \in 1..Len(names)
    BY <2>1, <2>n
  <2>3. names[a + 1] = names[b + 1] => a + 1 = b + 1
    BY <1>1, <2>2 DEF RegistryInv
  <2>4. a = b <=> wire[j].value = wire[k].value
    BY <2>1, <2>3
  <2>. QED  BY <2>4 DEF a, b
<1>2. BaseInv /\ RegistryInv /\ [Next]_vars => RegistryInv'
  BY RegistryStep
<1>. QED  BY <1>1, <1>2, BaseInit, BaseStep, RegistryInitially, PTL DEF Spec

\* Every call that was acknowledged with Ok runs its function, if besides
\* nothing is registered between the acknowledgement and the second look-up.
THEOREM AcknowledgedCallsRun ==
  ASSUME AskPastEnd = FALSE, RegisterAnytime = FALSE
  PROVE  Spec => []AckedCallsRun
<1>1. ASSUME BaseInv, StartInv
      PROVE  AckedCallsRun
  <2>1. \A q \in 1..handled : q \in 1..Len(requests) /\ q \in 1..Len(task)
    BY <1>1, LengthFacts DEF BaseInv
  <2>. QED  BY <1>1, <2>1 DEF BaseInv, HandleInv, StartInv, AckedCallsRun, Finished
<1>2. BaseInv /\ RegistryInv /\ [Next]_vars => RegistryInv'
  BY RegistryStep
<1>3. BaseInv /\ RegistryInv /\ StartInv /\ [Next]_vars => StartInv'
  BY StartStep
<1>. QED  BY <1>1, <1>2, <1>3, BaseInit, BaseStep, RegistryInitially, PTL DEF Spec
=============================================================================
