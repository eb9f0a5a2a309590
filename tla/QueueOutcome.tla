---------------------------- MODULE QueueOutcome ----------------------------
(***************************************************************************)
(* What a queue of messages that add an element to a set, or remove it,    *)
(* does to the membership of that element; more generally, which of two    *)
(* kinds of messages has the last word.                                    *)
(***************************************************************************)
EXTENDS Naturals, Sequences, FiniteSets

\* Whether x, a member now if it is in S, is one after the messages of q, of
\* which those in A add it and those in R remove it.
Outcome(q, A, R, x, S) ==
  \/ \E i \in DOMAIN q : q[i] \in A /\ \A j \in DOMAIN q : q[j] \in R => j < i
  \/ x \in S /\ \A i \in DOMAIN q : q[i] \notin A \cup R

\* Of the first n positions of a queue those in A say yes and those in R say no:
\* the last that speaks says yes, or none does and it was so before.
Prevails(A, R, n, before) ==
  \/ \E i \in A : i <= n /\ \A j \in R : j <= n => j < i
  \/ before /\ \A i \in A \cup R : i > n

\* In q every message of T is followed by one of A.
Followed(q, T, A) ==
  \A i \in DOMAIN q : q[i] \in T => \E j \in DOMAIN q : j > i /\ q[j] \in A

\* Whether q holds a message of A.
Holds(q, A) == \E i \in DOMAIN q : q[i] \in A

\* How many messages of A q holds.
Count(q, A) == Cardinality({i \in DOMAIN q : q[i] \in A})
=============================================================================
