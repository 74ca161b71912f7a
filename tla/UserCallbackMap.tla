-------------------------- MODULE UserCallbackMap ---------------------------
(***************************************************************************)
(* UserCallbackMap: the functions the application offers to the swarm, a   *)
(* map m_callbacks from names to functions and a list m_callbackNames by   *)
(* which they are enumerated.  A function is the number of the call of     *)
(* registerCallback that brought it; 0 is the empty function of a wrapper  *)
(* that operator[] made up.                                                *)
(*                                                                         *)
(* The thread that calls spin() registers too, between two spins.  Neither *)
(* container has a lock, and asynchronous callbacks look their function up *)
(* on threads of their own, so the write to the map is an interval.        *)
(***************************************************************************)
EXTENDS Naturals, Sequences, Functions

CONSTANTS
  Names,             \* names the application registers
  Garbage,           \* the string found past the end of m_callbackNames
  MaxRegistrations   \* bound: calls of registerCallback

ASSUME RegistryAssumption == Garbage \notin Names /\ MaxRegistrations \in Nat

VARIABLES
  callbacks,         \* m_callbacks: a function from names to functions
  names,             \* m_callbackNames
  registering,       \* the name being registered, None outside of the call
  overwriting,       \* the local variable of registerCallback
  version            \* number of registrations so far

registryVars == <<callbacks, names, registering, overwriting, version>>

None == "none"
Idle == registering = None

\* registerCallback looks the name up; the write to the map begins.
RegisterFind(name) ==
  /\ Idle
  /\ version < MaxRegistrations
  /\ registering' = name
  /\ overwriting' = (name \in DOMAIN callbacks)
  /\ version' = version + 1
  /\ UNCHANGED <<callbacks, names>>

\* Wrong variants: the name is appended even when it is known; new names are
\* put first.
AppendingNamesAfter == Append(names, registering)
PrependingNamesAfter == IF overwriting THEN names ELSE <<registering>> \o names

\* A new name is appended to the list.
NamesAfter == IF overwriting THEN names ELSE Append(names, registering)

\* The write to the map ends.
RegisterStore ==
  /\ ~Idle
  /\ callbacks' = [n \in DOMAIN callbacks \cup {registering} |->
                     IF n = registering THEN version ELSE callbacks[n]]
  /\ names' = NamesAfter
  /\ registering' = None
  /\ UNCHANGED <<overwriting, version>>

\* getCallback
HasCallback(name) == name \in DOMAIN callbacks

\* The test of getManifestAt and getNameAt; indices start at 0.
InRange(index) == index <= Len(names)

\* index = size passes the test but is one past the end of the vector.
PastEnd(index) == index = Len(names)

\* m_callbackNames[index]
NameAt(index) == IF PastEnd(index) THEN Garbage ELSE names[index + 1]

\* getManifestAt: operator[] of the map inserts a name it does not know.
GetManifestAt(index) ==
  LET name == NameAt(index) IN
  /\ callbacks' = [n \in DOMAIN callbacks \cup {name} |->
                     IF n \in DOMAIN callbacks THEN callbacks[n] ELSE 0]
  /\ UNCHANGED <<names, registering, overwriting, version>>

RegistryInit ==
  /\ callbacks = [n \in {} |-> 0]
  /\ names = << >>
  /\ registering = None
  /\ overwriting = FALSE
  /\ version = 0

-----------------------------------------------------------------------------
\* "m_callbacks and m_callbackNames grow together: the latter is a lookup
\* table for the former" (UserCallbackMap.cpp, line 39): outside of
\* registerCallback the list has every name of the map, once.
GrowTogether ==
  Idle => /\ DOMAIN callbacks = Range(names)
          /\ \A i, j \in 1..Len(names) : names[i] = names[j] => i = j
=============================================================================
