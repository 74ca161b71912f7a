--------------------------- MODULE SequenceFacts ----------------------------
(***************************************************************************)
(* What the operators that the models build their queues and histories     *)
(* with do to the elements of a sequence.                                  *)
(***************************************************************************)
EXTENDS Naturals, Sequences, TLAPS

\* What Append does to the elements of a sequence.
LEMMA AppendFacts ==
  ASSUME NEW S, NEW s \in Seq(S), NEW e \in S
  PROVE  /\ Append(s, e) \in Seq(S)
         /\ Len(Append(s, e)) = Len(s) + 1
         /\ Len(s) \in Nat
         /\ \A i \in 1..Len(s) : Append(s, e)[i] = s[i]
         /\ Append(s, e)[Len(s) + 1] = e
OBVIOUS

\* What Head and Tail do to the elements of a sequence.
LEMMA TailFacts ==
  ASSUME NEW S, NEW s \in Seq(S), s # << >>
  PROVE  /\ Tail(s) \in Seq(S)
         /\ Len(s) \in Nat \ {0}
         /\ Len(Tail(s)) = Len(s) - 1
         /\ \A i \in 1..(Len(s) - 1) : Tail(s)[i] = s[i + 1]
         /\ Head(s) = s[1]
         /\ Head(s) \in S
OBVIOUS

\* A function from an initial segment of the numbers is a sequence.
LEMMA FunctionIsSequence ==
  ASSUME NEW S, NEW n \in Nat, NEW f \in [1..n -> S]
  PROVE  f \in Seq(S) /\ Len(f) = n
OBVIOUS

\* A sequence of a given length is a function.
LEMMA SequenceIsFunction ==
  ASSUME NEW S, NEW s \in Seq(S)
  PROVE  s \in [1..Len(s) -> S] /\ Len(s) \in Nat
OBVIOUS

\* An element of a sequence.
LEMMA ElementFacts ==
  ASSUME NEW S, NEW s \in Seq(S), NEW i \in 1..Len(s)
  PROVE  s[i] \in S /\ i \in Nat
OBVIOUS

\* A sequence over a set is one over a larger set.
LEMMA SequenceSubset ==
  ASSUME NEW S, NEW T, S \subseteq T, NEW s \in Seq(S)
  PROVE  s \in Seq(T)
OBVIOUS

\* What repeating its first element does to a sequence.
LEMMA RepeatHeadFacts ==
  ASSUME NEW S, NEW s \in Seq(S), s # << >>
  PROVE  /\ (<<Head(s)>> \o s) \in Seq(S)
         /\ Len(s) \in Nat \ {0}
         /\ Len(<<Head(s)>> \o s) = Len(s) + 1
         /\ (<<Head(s)>> \o s)[1] = s[1]
         /\ \A i \in 2..(Len(s) + 1) : (<<Head(s)>> \o s)[i] = s[i - 1]
OBVIOUS
=============================================================================
