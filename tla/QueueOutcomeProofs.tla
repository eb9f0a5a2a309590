------------------------- MODULE QueueOutcomeProofs -------------------------
(***************************************************************************)
(* How the outcome of a queue changes when a message joins or leaves it.   *)
(***************************************************************************)
EXTENDS QueueOutcome, FiniteSetTheorems, FunctionTheorems, TLAPS

\* Positions of a queue that grows, and of one that loses its head.
LEMMA Grown ==
  ASSUME NEW S, NEW q \in Seq(S), NEW m \in S
  PROVE  /\ Append(q, m) \in Seq(S)
         /\ Len(q) \in Nat /\ Len(Append(q, m)) = Len(q) + 1
         /\ DOMAIN q = 1 .. Len(q) /\ DOMAIN Append(q, m) = 1 .. Len(q) + 1
         /\ Append(q, m)[Len(q) + 1] = m
         /\ \A i \in 1 .. Len(q) : Append(q, m)[i] = q[i]
OBVIOUS

LEMMA Shrunk ==
  ASSUME NEW S, NEW q \in Seq(S), q # <<>>
  PROVE  /\ Tail(q) \in Seq(S) /\ Head(q) \in S /\ Head(q) = q[1]
         /\ Len(q) \in Nat \ {0} /\ Len(Tail(q)) = Len(q) - 1
         /\ DOMAIN q = 1 .. Len(q) /\ DOMAIN Tail(q) = 1 .. Len(q) - 1
         /\ \A i \in 1 .. Len(q) - 1 : Tail(q)[i] = q[i + 1]
OBVIOUS

\* A message put at the end of a queue has the last word on what it is about.
LEMMA OutcomeAppend ==
  ASSUME NEW S, NEW q \in Seq(S), NEW m \in S, NEW A, NEW R, NEW x, NEW D,
         A \cap R = {}
  PROVE  /\ m \in A => Outcome(Append(q, m), A, R, x, D)
         /\ m \in R => ~ Outcome(Append(q, m), A, R, x, D)
         /\ m \notin A \cup R => (Outcome(Append(q, m), A, R, x, D) <=> Outcome(q, A, R, x, D))
<1> DEFINE r == Append(q, m)
<1>1. /\ Len(r) = Len(q) + 1 /\ Len(q) \in Nat
      /\ DOMAIN r = 1 .. Len(q) + 1 /\ DOMAIN q = 1 .. Len(q)
      /\ r[Len(q) + 1] = m
      /\ \A i \in DOMAIN q : r[i] = q[i]
  OBVIOUS
<1> HIDE DEF r
<1>2. CASE m \in A
  <2>1. \A j \in DOMAIN r : r[j] \in R => j < Len(q) + 1
    BY <1>1, <1>2
  <2>2. Outcome(r, A, R, x, D)
    BY <1>1, <1>2, <2>1 DEF Outcome
  <2> QED BY <1>2, <2>2 DEF r
<1>3. CASE m \in R
  <2>1. ~ Outcome(r, A, R, x, D)
    BY <1>1, <1>3 DEF Outcome
  <2> QED BY <1>3, <2>1 DEF r
<1>4. CASE m \notin A \cup R
  <2>1. (\E i \in DOMAIN r : r[i] \in A /\ \A j \in DOMAIN r : r[j] \in R => j < i)
        <=> \E i \in DOMAIN q : q[i] \in A /\ \A j \in DOMAIN q : q[j] \in R => j < i
    BY <1>1, <1>4
  <2>2. (\A i \in DOMAIN r : r[i] \notin A \cup R)
        <=> \A i \in DOMAIN q : q[i] \notin A \cup R
    BY <1>1, <1>4
  <2> QED BY <1>4, <2>1, <2>2 DEF Outcome, r
<1> QED BY <1>2, <1>3, <1>4

\* Handling the message at the head of a queue leaves the outcome as it was.
LEMMA OutcomeTail ==
  ASSUME NEW S, NEW q \in Seq(S), q # <<>>, NEW A, NEW R, NEW x, NEW D, NEW E,
         A \cap R = {},
         Head(q) \in A => x \in E,
         Head(q) \in R => x \notin E,
         Head(q) \notin A \cup R => (x \in D <=> x \in E)
  PROVE  Outcome(q, A, R, x, D) <=> Outcome(Tail(q), A, R, x, E)
<1> DEFINE r == Tail(q)
<1>1. /\ Len(q) \in Nat \ {0}
      /\ DOMAIN q = 1 .. Len(q) /\ DOMAIN r = 1 .. Len(q) - 1
      /\ q[1] = Head(q)
      /\ \A i \in DOMAIN r : r[i] = q[i + 1]
  OBVIOUS
<1> HIDE DEF r
<1> DEFINE Last(s) == \E i \in DOMAIN s : s[i] \in A /\ \A j \in DOMAIN s : s[j] \in R => j < i
           None(s) == \A i \in DOMAIN s : s[i] \notin A \cup R
<1>2. Last(r) => Last(q)
  <2> SUFFICES ASSUME NEW i \in DOMAIN r, r[i] \in A,
                      \A j \in DOMAIN r : r[j] \in R => j < i
               PROVE  Last(q)
    OBVIOUS
  <2>1. i + 1 \in DOMAIN q /\ q[i + 1] \in A
    BY <1>1
  <2>2. \A j \in DOMAIN q : q[j] \in R => j < i + 1
    <3> SUFFICES ASSUME NEW j \in DOMAIN q, q[j] \in R PROVE j < i + 1
      OBVIOUS
    <3>1. CASE j = 1 BY <1>1, <3>1
    <3>2. CASE j # 1
      <4>1. j - 1 \in DOMAIN r /\ r[j - 1] = q[j]
        BY <1>1, <3>2
      <4> QED BY <1>1, <4>1
    <3> QED BY <3>1, <3>2
  <2> QED BY <2>1, <2>2
<1>3. Last(q) => Last(r) \/ (Head(q) \in A /\ \A j \in DOMAIN r : r[j] \notin R)
  <2> SUFFICES ASSUME NEW i \in DOMAIN q, q[i] \in A,
                      \A j \in DOMAIN q : q[j] \in R => j < i
               PROVE  Last(r) \/ (Head(q) \in A /\ \A j \in DOMAIN r : r[j] \notin R)
    OBVIOUS
  <2>1. \A j \in DOMAIN r : j + 1 \in DOMAIN q /\ (r[j] \in R => j + 1 < i)
    BY <1>1
  <2>2. CASE i = 1 BY <1>1, <2>1, <2>2
  <2>3. CASE i # 1
    <3>1. i - 1 \in DOMAIN r /\ r[i - 1] \in A
      BY <1>1, <2>3
    <3>2. \A j \in DOMAIN r : r[j] \in R => j < i - 1
      BY <1>1, <2>1
    <3> QED BY <3>1, <3>2
  <2> QED BY <2>2, <2>3
<1>4. None(q) <=> Head(q) \notin A \cup R /\ None(r)
  <2>1. \A i \in DOMAIN q : i = 1 \/ (i - 1 \in DOMAIN r /\ r[i - 1] = q[i])
    BY <1>1
  <2>2. \A i \in DOMAIN r : i + 1 \in DOMAIN q
    BY <1>1
  <2> QED BY <1>1, <2>1, <2>2
<1>5. (\A j \in DOMAIN r : r[j] \notin R) => Last(r) \/ None(r)
  BY <1>1
<1>6. Outcome(q, A, R, x, D) <=> Last(q) \/ (x \in D /\ None(q))
  BY DEF Outcome
<1>7. Outcome(r, A, R, x, E) <=> Last(r) \/ (x \in E /\ None(r))
  BY DEF Outcome
<1>8. Head(q) \in A /\ None(r) => Last(q)
  <2> SUFFICES ASSUME Head(q) \in A, None(r) PROVE Last(q)
    OBVIOUS
  <2>1. \A j \in DOMAIN q : j = 1 \/ (j - 1 \in DOMAIN r /\ r[j - 1] = q[j])
    BY <1>1
  <2>2. \A j \in DOMAIN q : q[j] \notin R
    BY <1>1, <2>1
  <2>3. 1 \in DOMAIN q
    BY <1>1
  <2> QED BY <1>1, <2>2, <2>3
<1> HIDE DEF Last, None
<1> QED BY <1>2, <1>3, <1>4, <1>5, <1>6, <1>7, <1>8 DEF r

\* An empty queue changes nothing.
\* Where it is enough that the message does what it says when it adds.
LEMMA OutcomePassed ==
  ASSUME NEW S, NEW q \in Seq(S), q # <<>>, NEW A, NEW R, NEW x, NEW D, NEW E,
         A \cap R = {},
         Head(q) \in A => x \in E,
         Head(q) \notin A \cup R => (x \in D => x \in E),
         Outcome(q, A, R, x, D)
  PROVE  Outcome(Tail(q), A, R, x, E)
<1>1. ASSUME NEW F, F \in {E, D, E \ {x}}, x \in F => x \in E, Outcome(Tail(q), A, R, x, F)
      PROVE  Outcome(Tail(q), A, R, x, E)
  BY <1>1 DEF Outcome
<1>2. CASE Head(q) \in A
  <2>1. Outcome(Tail(q), A, R, x, E)
    BY <1>2, OutcomeTail
  <2> QED BY <2>1
<1>3. CASE Head(q) \in R
  <2>1. x \notin E \ {x} /\ Head(q) \notin A
    BY <1>3
  <2>2. Outcome(Tail(q), A, R, x, E \ {x})
    BY <1>3, <2>1, OutcomeTail
  <2> QED BY <1>1, <2>1, <2>2
<1>4. CASE Head(q) \notin A \cup R
  <2>1. Outcome(Tail(q), A, R, x, D)
    BY <1>4, OutcomeTail
  <2> QED BY <1>1, <1>4, <2>1
<1> QED BY <1>2, <1>3, <1>4

LEMMA OutcomeEmpty ==
  ASSUME NEW A, NEW R, NEW x, NEW D
  PROVE  Outcome(<<>>, A, R, x, D) <=> x \in D
BY DEF Outcome

\* A message of A put at the end of a queue follows all before it, and taking the
\* oldest message leaves what follows the others.
LEMMA FollowedAppend ==
  ASSUME NEW S, NEW q \in Seq(S), NEW m \in S, NEW T, NEW A
  PROVE  /\ Followed(q, T, A) /\ m \notin T => Followed(Append(q, m), T, A)
         /\ m \in A /\ m \notin T => Followed(Append(q, m), T, A)
<1> DEFINE r == Append(q, m)
<1>1. /\ Len(q) \in Nat
      /\ DOMAIN r = 1 .. Len(q) + 1 /\ DOMAIN q = 1 .. Len(q)
      /\ r[Len(q) + 1] = m
      /\ \A i \in DOMAIN q : r[i] = q[i]
  OBVIOUS
<1> HIDE DEF r
<1>2. ASSUME Followed(q, T, A), m \notin T PROVE Followed(r, T, A)
  BY <1>1, <1>2 DEF Followed
<1>3. ASSUME m \in A, m \notin T PROVE Followed(r, T, A)
  <2> SUFFICES ASSUME NEW i \in DOMAIN r, r[i] \in T
               PROVE  i < Len(q) + 1
    BY <1>1, <1>3 DEF Followed
  <2> QED BY <1>1, <1>3
<1> QED BY <1>2, <1>3 DEF r

LEMMA FollowedTail ==
  ASSUME NEW S, NEW q \in Seq(S), q # <<>>, NEW T, NEW A, Followed(q, T, A)
  PROVE  /\ Followed(Tail(q), T, A)
         /\ Holds(q, T) => Holds(Tail(q), A)
<1> DEFINE r == Tail(q)
<1>1. /\ Len(q) \in Nat \ {0} /\ Head(q) = q[1]
      /\ DOMAIN q = 1 .. Len(q) /\ DOMAIN r = 1 .. Len(q) - 1
      /\ \A i \in DOMAIN r : r[i] = q[i + 1]
  OBVIOUS
<1> HIDE DEF r
<1>2. ASSUME NEW i \in DOMAIN q, q[i] \in T
      PROVE  \E j \in DOMAIN r : j > i - 1 /\ r[j] \in A
  <2>1. PICK k \in DOMAIN q : k > i /\ q[k] \in A
    BY <1>2 DEF Followed
  <2>2. k - 1 \in DOMAIN r /\ k - 1 > i - 1 /\ r[k - 1] = q[k]
    BY <1>1, <2>1
  <2> QED BY <2>1, <2>2
<1>3. Followed(r, T, A)
  <2> SUFFICES ASSUME NEW i \in DOMAIN r, r[i] \in T
               PROVE  \E j \in DOMAIN r : j > i /\ r[j] \in A
    BY DEF Followed
  <2>1. i + 1 \in DOMAIN q /\ q[i + 1] \in T /\ (i + 1) - 1 = i
    BY <1>1
  <2>2. \E j \in DOMAIN r : j > (i + 1) - 1 /\ r[j] \in A
    BY <1>2, <2>1
  <2> QED BY <2>1, <2>2
<1>4. Holds(q, T) => Holds(r, A)
  BY <1>2 DEF Holds
<1> QED BY <1>3, <1>4 DEF r

\* Whether a queue holds a message of A, when one joins it or leaves it.
LEMMA HoldsAppend ==
  ASSUME NEW S, NEW q \in Seq(S), NEW m \in S, NEW A
  PROVE  Holds(Append(q, m), A) <=> Holds(q, A) \/ m \in A
<1>1. /\ DOMAIN Append(q, m) = 1 .. Len(q) + 1 /\ DOMAIN q = 1 .. Len(q) /\ Len(q) \in Nat
      /\ Append(q, m)[Len(q) + 1] = m
      /\ \A i \in DOMAIN q : Append(q, m)[i] = q[i]
  OBVIOUS
<1>2. \A i \in DOMAIN Append(q, m) : i \in DOMAIN q \/ i = Len(q) + 1
  BY <1>1
<1>3. DOMAIN q \subseteq DOMAIN Append(q, m) /\ Len(q) + 1 \in DOMAIN Append(q, m)
  BY <1>1
<1> QED BY <1>1, <1>2, <1>3 DEF Holds

LEMMA HoldsTail ==
  ASSUME NEW S, NEW q \in Seq(S), q # <<>>, NEW A
  PROVE  Holds(q, A) <=> Holds(Tail(q), A) \/ Head(q) \in A
<1> DEFINE r == Tail(q)
<1>1. /\ Len(q) \in Nat \ {0}
      /\ DOMAIN q = 1 .. Len(q) /\ DOMAIN r = 1 .. Len(q) - 1
      /\ q[1] = Head(q)
      /\ \A i \in DOMAIN r : r[i] = q[i + 1]
  OBVIOUS
<1> HIDE DEF r
<1>2. \A i \in DOMAIN q : i = 1 \/ (i - 1 \in DOMAIN r /\ r[i - 1] = q[i])
  BY <1>1
<1>3. \A i \in DOMAIN r : i + 1 \in DOMAIN q
  BY <1>1
<1>4. 1 \in DOMAIN q
  BY <1>1
<1> QED BY <1>1, <1>2, <1>3, <1>4 DEF r, Holds

-----------------------------------------------------------------------------
(* Prefixes of a queue, by the positions that matter in it. *)

\* Who says yes may only become more, and who says no fewer.
LEMMA PrevailsMore ==
  ASSUME NEW A \in SUBSET Nat, NEW R \in SUBSET Nat, NEW B \in SUBSET Nat, NEW T \in SUBSET Nat,
         NEW n \in Nat, NEW b, NEW c, Prevails(A, R, n, b), b => c,
         \A i \in A : i <= n => i \in B,
         \A i \in T : i <= n => i \in R
  PROVE  Prevails(B, T, n, c)
<1>1. CASE \E i \in A : i <= n /\ \A j \in R : j <= n => j < i
  BY <1>1 DEF Prevails
<1>2. CASE b /\ \A i \in A \cup R : i > n
  <2>1. \A i \in T : i > n
    BY <1>2
  <2>2. CASE \A i \in B : i > n
    BY <1>2, <2>1, <2>2 DEF Prevails
  <2>3. CASE \E i \in B : i <= n
    BY <2>1, <2>3 DEF Prevails
  <2> QED BY <2>2, <2>3
<1> QED BY <1>1, <1>2 DEF Prevails

\* One position more.
LEMMA PrevailsNext ==
  ASSUME NEW A \in SUBSET Nat, NEW R \in SUBSET Nat, NEW n \in Nat, NEW b, n + 1 \notin R
  PROVE  /\ n + 1 \in A => Prevails(A, R, n + 1, b)
         /\ n + 1 \notin A /\ Prevails(A, R, n, b) => Prevails(A, R, n + 1, b)
<1>1. \A j \in R : j <= n + 1 => j < n + 1
  OBVIOUS
<1>2. n + 1 \in A => Prevails(A, R, n + 1, b)
  BY <1>1 DEF Prevails
<1>3. ASSUME n + 1 \notin A, NEW i \in A, i <= n, \A j \in R : j <= n => j < i
      PROVE  Prevails(A, R, n + 1, b)
  <2>1. \A j \in R : j <= n + 1 => j < i
    BY <1>1, <1>3
  <2> QED BY <1>3, <2>1 DEF Prevails
<1>4. ASSUME n + 1 \notin A, b, \A i \in A \cup R : i > n
      PROVE  Prevails(A, R, n + 1, b)
  <2>1. \A i \in A \cup R : i > n + 1
    BY <1>4
  <2> QED BY <1>4, <2>1 DEF Prevails
<1> QED BY <1>2, <1>3, <1>4 DEF Prevails

\* No position at all.
LEMMA PrevailsNone ==
  ASSUME NEW A \in SUBSET Nat, NEW R \in SUBSET Nat, NEW b, 0 \notin A
  PROVE  /\ Prevails(A, R, 0, b) => b
         /\ b /\ 0 \notin R => Prevails(A, R, 0, b)
BY DEF Prevails

\* The first position goes, and the others move up.
LEMMA PrevailsShift ==
  ASSUME NEW A \in SUBSET Nat, NEW R \in SUBSET Nat, NEW B \in SUBSET Nat, NEW T \in SUBSET Nat,
         NEW n \in Nat, NEW b, NEW c, Prevails(A, R, n + 1, b), 0 \notin A \cup B \cup T,
         \A i \in 1 .. n : i + 1 \in A => i \in B,
         \A i \in 1 .. n : i \in T => i + 1 \in R,
         1 \in A => c,
         1 \notin A \cup R => (b => c)
  PROVE  Prevails(B, T, n, c)
<1>1. CASE \E i \in A : i <= n + 1 /\ \A j \in R : j <= n + 1 => j < i
  <2>1. PICK i \in A : i <= n + 1 /\ \A j \in R : j <= n + 1 => j < i
    BY <1>1
  <2>2. CASE i = 1
    <3>1. \A j \in T : j > n
      <4> SUFFICES ASSUME NEW j \in T, j <= n PROVE FALSE
        OBVIOUS
      <4>1. j \in 1 .. n
        OBVIOUS
      <4>2. j + 1 \in R /\ j + 1 <= n + 1 /\ ~ (j + 1 < 1)
        BY <4>1
      <4> QED BY <2>1, <2>2, <4>2
    <3>2. c
      BY <2>1, <2>2
    <3>3. CASE \A k \in B : k > n
      BY <3>1, <3>2, <3>3 DEF Prevails
    <3>4. CASE \E k \in B : k <= n
      BY <3>1, <3>4 DEF Prevails
    <3> QED BY <3>3, <3>4
  <2>3. CASE i # 1
    <3>1. i - 1 \in 1 .. n /\ i = (i - 1) + 1
      BY <2>1, <2>3
    <3>2. i - 1 \in B
      BY <2>1, <3>1
    <3>3. ASSUME NEW j \in T, j <= n PROVE j < i - 1
      <4>1. j \in 1 .. n
        BY <3>3
      <4>2. j + 1 \in R /\ j + 1 <= n + 1
        BY <4>1
      <4> QED BY <2>1, <4>2
    <3> QED BY <3>1, <3>2, <3>3 DEF Prevails
  <2> QED BY <2>2, <2>3
<1>2. CASE b /\ \A i \in A \cup R : i > n + 1
  <2>1. c
    BY <1>2
  <2>2. \A j \in T : j > n
    <3> SUFFICES ASSUME NEW j \in T, j <= n PROVE FALSE
      OBVIOUS
    <3>1. j \in 1 .. n
      OBVIOUS
    <3>2. j + 1 \in R /\ ~ (j + 1 > n + 1)
      BY <3>1
    <3> QED BY <1>2, <3>2
  <2>3. CASE \A k \in B : k > n
    BY <2>1, <2>2, <2>3 DEF Prevails
  <2>4. CASE \E k \in B : k <= n
    BY <2>2, <2>4 DEF Prevails
  <2> QED BY <2>3, <2>4
<1> QED BY <1>1, <1>2 DEF Prevails

-----------------------------------------------------------------------------
(* Counting the messages of a kind. *)

LEMMA CountType ==
  ASSUME NEW S, NEW q \in Seq(S), NEW A
  PROVE  /\ IsFiniteSet({i \in DOMAIN q : q[i] \in A})
         /\ Count(q, A) \in Nat
         /\ Count(q, A) = 0 => \A i \in DOMAIN q : q[i] \notin A
<1> DEFINE I == {i \in DOMAIN q : q[i] \in A}
<1>1. Len(q) \in Int /\ DOMAIN q = 1 .. Len(q)
  OBVIOUS
<1>2. IsFiniteSet(1 .. Len(q)) /\ I \in SUBSET (1 .. Len(q))
  BY <1>1, FS_Interval
<1>3. IsFiniteSet(I)
  BY <1>2, FS_Subset
<1>4. Cardinality(I) = 0 => I = {}
  BY <1>3, FS_EmptySet
<1> QED BY <1>3, <1>4, FS_CardinalityType DEF Count

LEMMA CountAppend ==
  ASSUME NEW S, NEW q \in Seq(S), NEW m \in S, NEW A
  PROVE  Count(Append(q, m), A) = Count(q, A) + (IF m \in A THEN 1 ELSE 0)
<1> DEFINE I(s) == {i \in DOMAIN s : s[i] \in A}
           r == Append(q, m)
           n == Len(q) + 1
<1>1. /\ Len(q) \in Nat /\ DOMAIN q = 1 .. Len(q) /\ DOMAIN r = 1 .. n
      /\ r[n] = m /\ \A i \in DOMAIN q : r[i] = q[i]
  OBVIOUS
<1> HIDE DEF r
<1>2. n \notin I(q) /\ I(r) = IF m \in A THEN I(q) \cup {n} ELSE I(q)
  BY <1>1
<1>3. IsFiniteSet(I(q)) /\ Cardinality(I(q)) \in Nat
  BY CountType, FS_CardinalityType
<1>4. Cardinality(I(q) \cup {n}) = Cardinality(I(q)) + 1
  BY <1>2, <1>3, FS_AddElement
<1>5. Count(r, A) = Cardinality(I(r)) /\ Count(q, A) = Cardinality(I(q))
  BY DEF Count
<1> HIDE DEF I
<1> QED BY <1>2, <1>3, <1>4, <1>5 DEF r

LEMMA CountTail ==
  ASSUME NEW S, NEW q \in Seq(S), q # <<>>, NEW A
  PROVE  Count(q, A) = Count(Tail(q), A) + (IF Head(q) \in A THEN 1 ELSE 0)
<1> DEFINE I(s) == {i \in DOMAIN s : s[i] \in A}
           r == Tail(q)
           up == [i \in I(r) |-> i + 1]
<1>1. /\ Len(q) \in Nat \ {0} /\ DOMAIN q = 1 .. Len(q) /\ DOMAIN r = 1 .. Len(q) - 1
      /\ q[1] = Head(q) /\ r \in Seq(S) /\ \A i \in DOMAIN r : r[i] = q[i + 1]
  OBVIOUS
<1> HIDE DEF r
<1>2. I(r) \subseteq 1 .. Len(q) - 1 /\ I(q) \subseteq 1 .. Len(q)
  BY <1>1
<1>3. \A i \in 2 .. Len(q) : i \in I(q) <=> i - 1 \in I(r)
  BY <1>1
<1>4. 1 \in I(q) <=> Head(q) \in A
  BY <1>1
<1>5. /\ IsFiniteSet(I(r)) /\ IsFiniteSet(I(q))
      /\ Count(r, A) = Cardinality(I(r)) /\ Count(q, A) = Cardinality(I(q))
  BY <1>1, CountType DEF Count
<1> HIDE DEF I
<1>6. up \in Bijection(I(r), I(q) \ {1})
  <2>1. up \in [I(r) -> I(q) \ {1}]
    BY <1>1, <1>2, <1>3
  <2>2. \A i, j \in I(r) : up[i] = up[j] => i = j
    BY <1>2
  <2>3. \A i \in I(q) \ {1} : i - 1 \in I(r) /\ up[i - 1] = i
    BY <1>1, <1>2, <1>3
  <2> QED BY <2>1, <2>2, <2>3, Fun_IsBij
<1>7. Cardinality(I(q) \ {1}) = Cardinality(I(r)) /\ IsFiniteSet(I(q) \ {1})
  BY <1>5, <1>6, FS_Bijection DEF ExistsBijection
<1>8. Cardinality(I(r)) \in Nat
  BY <1>5, FS_CardinalityType
<1>9. CASE 1 \in I(q)
  <2>1. I(q) = (I(q) \ {1}) \cup {1}
    BY <1>9
  <2>2. Cardinality(I(q)) = Cardinality(I(q) \ {1}) + 1
    BY <1>7, <2>1, FS_AddElement
  <2> QED BY <1>4, <1>5, <1>7, <1>9, <2>2 DEF r
<1>10. CASE 1 \notin I(q)
  <2>1. I(q) \ {1} = I(q)
    BY <1>10
  <2>2. Cardinality(I(q)) = Cardinality(I(r)) /\ Head(q) \notin A
    BY <1>4, <1>7, <1>10, <2>1
  <2> QED BY <1>5, <1>8, <2>2 DEF r
<1> QED BY <1>9, <1>10
=============================================================================
