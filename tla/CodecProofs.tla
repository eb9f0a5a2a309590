---------------------------- MODULE CodecProofs ----------------------------
(***************************************************************************)
(* Machine-checked: the codec is exact, for every width of a byte, struct, *)
(* view and truncation, and so are the properties that go through it.  One *)
(* lemma per reader says that it is Exact on what the matching writer      *)
(* wrote; InTurnExact chains them, by induction over the elements.         *)
(***************************************************************************)
EXTENDS PropertyUpdates, SequenceTheorems, FiniteSetTheorems, NaturalsInduction,
        WellFoundedInduction, TLAPS

(***************************************************************************)
(* Induction over the elements of a sequence, without an operator for what *)
(* is proved of them: a set of numbers stands for it.                      *)
(***************************************************************************)
\* A set of natural numbers that is not empty has a least element.
LEMMA Least ==
  ASSUME NEW T, T \subseteq Nat, T # {}
  PROVE  \E m \in T : \A j \in T : m <= j
<1>1. IsWellFoundedOn(OpToRel(<, Nat), Nat)
  BY NatLessThanWellFounded
<1>2. PICK m \in T : \A j \in T : ~ (<<j, m>> \in OpToRel(<, Nat))
  BY <1>1, WFMin
<1>3. ASSUME NEW j \in T PROVE m <= j
  <2>1. m \in Nat /\ j \in Nat
    OBVIOUS
  <2>2. ~ (j < m)
    BY <1>2, <2>1 DEF OpToRel
  <2>3. QED
    BY <2>1, <2>2
<1>4. QED
  BY <1>3

\* A set that has 0, and with a number below n the next, has all up to n.
LEMMA UpTo ==
  ASSUME NEW n \in Nat, NEW P, 0 \in P, \A i \in 1 .. n : i - 1 \in P => i \in P
  PROVE  \A i \in 0 .. n : i \in P
<1>1. SUFFICES ASSUME (0 .. n) \ P # {} PROVE FALSE
  OBVIOUS
<1>2. PICK m \in (0 .. n) \ P : \A j \in (0 .. n) \ P : m <= j
  <2>1. (0 .. n) \ P \subseteq Nat
    OBVIOUS
  <2>2. QED
    BY <1>1, <2>1, Least
<1>3. m \in 1 .. n
  OBVIOUS
<1>4. m - 1 \in P
  <2>1. m - 1 \in 0 .. n /\ ~ (m <= m - 1)
    BY <1>3
  <2>2. QED
    BY <1>2, <2>1
<1>5. QED
  BY <1>2, <1>3, <1>4

\* Readers in turn: what they give is defined for every sequence of them.
LEMMA TurnsDefined ==
  ASSUME NEW readers, NEW start, Len(readers) \in Nat
  PROVE  /\ Turns(readers, start)[0] = Read(<<>>, start)
         /\ \A i \in 1 .. Len(readers) :
              Turns(readers, start)[i] =
                LET r == Turns(readers, start)[i - 1]
                    e == readers[i][r.at]
                IN  IF r.ok THEN Yield(e, Append(r.out, e.out)) ELSE r
<1>. DEFINE n == Len(readers)
            step(i, r) == LET e == readers[i][r.at]
                          IN  IF r.ok THEN Yield(e, Append(r.out, e.out)) ELSE r
            is(f, m) == f = [i \in 0 .. m |-> IF i = 0 THEN Read(<<>>, start)
                                              ELSE step(i, f[i - 1])]
            P == {m \in 0 .. n : \E f : is(f, m)}
<1>0. n \in Nat
  OBVIOUS
<1>. HIDE DEF step
<1>1. 0 \in P
  <2>1. is([i \in 0 .. 0 |-> Read(<<>>, start)], 0)
    OBVIOUS
  <2>. HIDE DEF is
  <2>2. QED
    BY <1>0, <2>1
<1>2. ASSUME NEW m \in 1 .. n, m - 1 \in P PROVE m \in P
  <2>1. PICK g : is(g, m - 1)
    BY <1>2
  <2>. DEFINE f == [i \in 0 .. m |-> IF i = m THEN step(m, g[m - 1]) ELSE g[i]]
  <2>2. ASSUME NEW i \in 0 .. m
        PROVE  f[i] = IF i = 0 THEN Read(<<>>, start) ELSE step(i, f[i - 1])
    <3>1. CASE i = m
      <4>1. f[i] = step(m, g[m - 1]) /\ f[i - 1] = g[m - 1] /\ i # 0
        BY <3>1, <1>0
      <4>2. QED
        BY <4>1, <3>1
    <3>2. CASE i = 0
      <4>1. f[i] = g[0] /\ 0 \in 0 .. m - 1
        BY <3>2, <1>0
      <4>2. QED
        BY <4>1, <3>2, <2>1
    <3>3. CASE i \in 1 .. m - 1
      <4>1. f[i] = g[i] /\ f[i - 1] = g[i - 1] /\ i \in 0 .. m - 1 /\ i # 0
        BY <3>3, <1>0
      <4>2. g[i] = step(i, g[i - 1])
        BY <4>1, <2>1
      <4>3. QED
        BY <4>1, <4>2
    <3>4. QED
      BY <3>1, <3>2, <3>3, <1>0
  <2>3. is(f, m)
    BY <2>2
  <2>. HIDE DEF f
  <2>4. QED
    BY <2>3
<1>3. n \in P
  <2>. HIDE DEF P
  <2>1. \A i \in 0 .. n : i \in P
    BY <1>0, <1>1, <1>2, UpTo
  <2>2. QED
    BY <2>1, <1>0
<1>4. is(Turns(readers, start), n)
  <2>1. Turns(readers, start) = CHOOSE f : is(f, n)
    BY DEF Turns, step
  <2>2. QED
    BY <1>3, <2>1
<1>. DEFINE T == Turns(readers, start)
<1>. HIDE DEF T
<1>5. is(T, n)
  BY <1>4 DEF T
<1>6. T[0] = Read(<<>>, start) /\ \A i \in 1 .. n : T[i] = step(i, T[i - 1])
  <2>1. 0 \in 0 .. n /\ \A i \in 1 .. n : i \in 0 .. n /\ i # 0
    BY <1>0
  <2>. HIDE DEF n
  <2>2. QED
    BY <1>5, <2>1
<1>7. QED
  BY <1>6 DEF T, step

\* What FlattenSeq makes of ever more of its argument.
LEMMA FlattenDefined ==
  ASSUME NEW S, NEW codes \in Seq(Seq(S))
  PROVE  \E f : /\ f[0] = <<>> /\ f[Len(codes)] = FlattenSeq(codes)
                /\ \A i \in 1 .. Len(codes) : f[i] = f[i - 1] \o codes[i]
                /\ \A i \in 0 .. Len(codes) : f[i] \in Seq(S)
<1>. DEFINE n == Len(codes)
            is(f, m) == f = [i \in 1 .. m |-> IF i = 1 THEN codes[i] ELSE f[i - 1] \o codes[i]]
            P == {m \in 0 .. n : \E f : is(f, m)}
<1>0. n \in Nat /\ \A i \in 1 .. n : codes[i] \in Seq(S)
  OBVIOUS
<1>1. 0 \in P
  <2>1. is([i \in 1 .. 0 |-> <<>>], 0)
    OBVIOUS
  <2>. HIDE DEF is
  <2>2. QED
    BY <1>0, <2>1
<1>2. ASSUME NEW m \in 1 .. n, m - 1 \in P PROVE m \in P
  <2>1. PICK g : is(g, m - 1)
    BY <1>2
  <2>. DEFINE f == [i \in 1 .. m |-> IF i = m THEN IF m = 1 THEN codes[m] ELSE g[m - 1] \o codes[m]
                                     ELSE g[i]]
  <2>2. ASSUME NEW i \in 1 .. m
        PROVE  f[i] = IF i = 1 THEN codes[i] ELSE f[i - 1] \o codes[i]
    <3>1. CASE i = m
      <4>1. f[i] = IF m = 1 THEN codes[m] ELSE g[m - 1] \o codes[m]
        BY <3>1, <1>0
      <4>2. i # 1 => f[i - 1] = g[m - 1]
        BY <3>1, <1>0
      <4>3. QED
        BY <4>1, <4>2, <3>1
    <3>2. CASE i \in 1 .. m - 1
      <4>1. f[i] = g[i] /\ (i # 1 => f[i - 1] = g[i - 1])
        BY <3>2, <1>0
      <4>2. g[i] = IF i = 1 THEN codes[i] ELSE g[i - 1] \o codes[i]
        BY <3>2, <2>1
      <4>3. QED
        BY <4>1, <4>2
    <3>3. QED
      BY <3>1, <3>2, <1>0
  <2>3. is(f, m)
    BY <2>2
  <2>. HIDE DEF f, is
  <2>4. QED
    BY <2>3, <1>0
<1>3. n \in P
  <2>. HIDE DEF P
  <2>1. \A i \in 0 .. n : i \in P
    BY <1>0, <1>1, <1>2, UpTo
  <2>2. QED
    BY <2>1, <1>0
<1>. DEFINE g == CHOOSE f : is(f, n)
<1>4. is(g, n)
  BY <1>3
<1>5. n # 0 => FlattenSeq(codes) = g[n]
  BY DEF FlattenSeq
<1>6. n = 0 => FlattenSeq(codes) = <<>>
  BY DEF FlattenSeq
<1>. HIDE DEF g
<1>7. \A i \in 1 .. n : g[i] = IF i = 1 THEN codes[i] ELSE g[i - 1] \o codes[i]
  BY <1>4
<1>. DEFINE f == [i \in 0 .. n |-> IF i = 0 THEN <<>> ELSE g[i]]
<1>8. f[0] = <<>> /\ f[n] = FlattenSeq(codes)
  BY <1>0, <1>5, <1>6
<1>9. ASSUME NEW i \in 1 .. n PROVE f[i] = f[i - 1] \o codes[i]
  <2>1. f[i] = g[i] /\ f[i - 1] = IF i = 1 THEN <<>> ELSE g[i - 1]
    BY <1>0
  <2>2. <<>> \o codes[i] = codes[i]
    BY <1>0, ConcatEmptySeq
  <2>3. QED
    BY <1>7, <2>1, <2>2
<1>. DEFINE Q == {i \in 0 .. n : f[i] \in Seq(S)}
<1>10. 0 \in Q
  <2>1. <<>> \in Seq(S)
    OBVIOUS
  <2>2. QED
    BY <2>1, <1>8, <1>0
<1>11. ASSUME NEW i \in 1 .. n, i - 1 \in Q PROVE i \in Q
  <2>. HIDE DEF f
  <2>1. f[i - 1] \in Seq(S) /\ codes[i] \in Seq(S)
    BY <1>11, <1>0
  <2>2. f[i - 1] \o codes[i] \in Seq(S)
    BY <2>1, ConcatProperties
  <2>3. f[i] \in Seq(S)
    BY <2>2, <1>9
  <2>4. i \in 0 .. n
    BY <1>0
  <2>5. QED
    BY <2>3, <2>4
<1>12. \A i \in 0 .. n : i \in Q
  <2>. HIDE DEF Q
  <2>1. QED
    BY <1>0, <1>10, <1>11, UpTo
<1>. HIDE DEF f
<1>13. QED
  BY <1>8, <1>9, <1>12

(***************************************************************************)
(* Bytes in a buffer.                                                      *)
(***************************************************************************)
\* A view as Dart gets one.
View(v) == v.base \in Nat /\ v.length \in Nat

\* The buffer has this code at an offset of the view, within its end or past it.
Holds(v, at, code) == \A j \in 1 .. Len(code) : v.buffer[v.base + at + j] = code[j]

\* The offsets a decoder does not read past: up to the end of a view, or any.
Segment(A) == A \subseteq Nat /\ \A i \in A : 0 .. i \subseteq A

Inside(v) == 0 .. v.length

\* A read of what ends there has given x, or has thrown where that is not inside.
Exact(r, inside, end, x) == IF end \in inside THEN r = Read(x, end) ELSE ~ r.ok

\* Each of the readers is exact on its code, wherever it finds it.
Reads(readers, v, codes, inside, xs) ==
  \A i \in 1 .. Len(codes) : \A o \in Nat :
    Holds(v, o, codes[i]) => Exact(readers[i][o], inside, o + Len(codes[i]), xs[i])

\* Two codes in a row.
LEMMA HoldsConcat ==
  ASSUME NEW v, View(v), NEW at \in Nat, NEW S, NEW s \in Seq(S), NEW t \in Seq(S),
         Holds(v, at, s \o t)
  PROVE  Holds(v, at, s) /\ Holds(v, at + Len(s), t)
<1>1. /\ Len(s) \in Nat /\ Len(t) \in Nat /\ Len(s \o t) = Len(s) + Len(t)
      /\ \A i \in 1 .. Len(s) + Len(t) : (s \o t)[i] = IF i <= Len(s) THEN s[i] ELSE t[i - Len(s)]
  BY ConcatProperties
<1>2. ASSUME NEW j \in 1 .. Len(s) PROVE v.buffer[v.base + at + j] = s[j]
  <2>1. j \in 1 .. Len(s) + Len(t) /\ j <= Len(s)
    BY <1>1
  <2>2. QED
    BY <1>1, <2>1 DEF Holds
<1>3. ASSUME NEW j \in 1 .. Len(t) PROVE v.buffer[v.base + (at + Len(s)) + j] = t[j]
  <2>. DEFINE i == Len(s) + j
  <2>1. /\ i \in 1 .. Len(s) + Len(t) /\ ~ (i <= Len(s)) /\ i - Len(s) = j
        /\ v.base + (at + Len(s)) + j = v.base + at + i
    BY <1>1 DEF View
  <2>. HIDE DEF i
  <2>2. (s \o t)[i] = t[j]
    BY <1>1, <2>1
  <2>3. v.buffer[v.base + at + i] = (s \o t)[i]
    BY <1>1, <2>1 DEF Holds
  <2>4. QED
    BY <2>1, <2>2, <2>3
<1>4. QED
  BY <1>2, <1>3 DEF Holds

\* The bytes at an offset are the code there.
LEMMA Slice ==
  ASSUME NEW b, NEW m \in Nat, NEW S, NEW code \in Seq(S),
         \A j \in 1 .. Len(code) : b[m + j] = code[j]
  PROVE  SubSeq(b, m + 1, m + Len(code)) = code
<1>1. Len(code) \in Nat /\ \A j \in 1 .. Len(code) : code[j] \in S
  OBVIOUS
<1>. DEFINE k == m + 1
            l == m + Len(code)
<1>2. k \in Int /\ l \in Int
  BY <1>1
<1>3. ASSUME NEW i \in k .. l PROVE b[i] \in S
  <2>1. i - m \in 1 .. Len(code) /\ m + (i - m) = i
    BY <1>1
  <2>2. QED
    BY <1>1, <2>1
<1>4. /\ SubSeq(b, k, l) \in Seq(S)
      /\ Len(SubSeq(b, k, l)) = IF k <= l THEN l - k + 1 ELSE 0
      /\ \A i \in 1 .. l - k + 1 : SubSeq(b, k, l)[i] = b[k + i - 1]
  <2>. HIDE DEF k, l
  <2>1. QED
    BY <1>2, <1>3, SubSeqProperties
<1>. DEFINE s == SubSeq(b, k, l)
<1>. HIDE DEF s
<1>5. s \in Seq(S) /\ Len(s) = Len(code)
  BY <1>1, <1>4 DEF s
<1>6. ASSUME NEW i \in 1 .. Len(s) PROVE s[i] = code[i]
  <2>1. i \in 1 .. l - k + 1 /\ k + i - 1 = m + i
    BY <1>1, <1>5
  <2>2. QED
    BY <1>4, <1>5, <2>1 DEF s
<1>7. s = code
  BY <1>5, <1>6, SeqEqual
<1>8. QED
  BY <1>7 DEF s

\* A read of as many bytes as the code has.
LEMMA BytesExact ==
  ASSUME NEW v, View(v), NEW at \in Nat, NEW S, NEW code \in Seq(S), Holds(v, at, code)
  PROVE  Exact(Bytes(v, at, Len(code)), Inside(v), at + Len(code), code)
<1>1. v.base + at \in Nat /\ \A j \in 1 .. Len(code) : v.buffer[v.base + at + j] = code[j]
  BY DEF View, Holds
<1>2. SubSeq(v.buffer, v.base + at + 1, v.base + at + Len(code)) = code
  BY <1>1, Slice
<1>3. at + Len(code) \in Inside(v) <=> at + Len(code) <= v.length
  BY DEF View, Inside
<1>4. QED
  BY <1>2, <1>3 DEF Bytes, Exact, Read, Thrown

\* Each element of a sequence of codes starts where the one before it ends.
LEMMA FlattenHolds ==
  ASSUME NEW v, View(v), NEW at \in Nat, NEW S, NEW codes \in Seq(Seq(S)),
         Holds(v, at, FlattenSeq(codes))
  PROVE  \E off : /\ off[0] = at /\ off[Len(codes)] = at + Len(FlattenSeq(codes))
                  /\ \A i \in 0 .. Len(codes) : off[i] \in Nat
                  /\ \A i \in 1 .. Len(codes) : /\ off[i] = off[i - 1] + Len(codes[i])
                                                /\ Holds(v, off[i - 1], codes[i])
<1>. DEFINE n == Len(codes)
<1>0. n \in Nat /\ \A i \in 1 .. n : codes[i] \in Seq(S) /\ Len(codes[i]) \in Nat
  OBVIOUS
<1>1. PICK f : /\ f[0] = <<>> /\ f[n] = FlattenSeq(codes)
               /\ \A i \in 1 .. n : f[i] = f[i - 1] \o codes[i]
               /\ \A i \in 0 .. n : f[i] \in Seq(S)
  BY FlattenDefined
<1>. DEFINE off == [i \in 0 .. n |-> at + Len(f[i])]
            P   == {k \in 0 .. n : Holds(v, at, f[n - k])}
<1>2. 0 \in P
  <2>1. n - 0 = n /\ 0 \in 0 .. n
    BY <1>0
  <2>. HIDE DEF n
  <2>2. QED
    BY <2>1, <1>1
<1>3. ASSUME NEW i \in 1 .. n
      PROVE  /\ i - 1 \in 0 .. n /\ i \in 0 .. n
             /\ f[i - 1] \in Seq(S) /\ codes[i] \in Seq(S) /\ f[i] = f[i - 1] \o codes[i]
             /\ Len(f[i]) = Len(f[i - 1]) + Len(codes[i])
             /\ Len(f[i - 1]) \in Nat /\ Len(codes[i]) \in Nat
  <2>1. i - 1 \in 0 .. n /\ i \in 0 .. n
    BY <1>0
  <2>. HIDE DEF n
  <2>2. f[i - 1] \in Seq(S) /\ codes[i] \in Seq(S) /\ f[i] = f[i - 1] \o codes[i]
    BY <1>0, <1>1, <2>1
  <2>3. Len(f[i - 1] \o codes[i]) = Len(f[i - 1]) + Len(codes[i])
    BY <2>2, ConcatProperties
  <2>4. QED
    BY <2>1, <2>2, <2>3
<1>4. ASSUME NEW k \in 1 .. n, k - 1 \in P PROVE k \in P
  <2>. DEFINE i == n - k + 1
  <2>1. i \in 1 .. n /\ i - 1 = n - k /\ n - (k - 1) = i /\ k \in 0 .. n
    BY <1>0
  <2>. HIDE DEF i, n
  <2>2. Holds(v, at, f[i - 1] \o codes[i])
    BY <1>4, <2>1, <1>3
  <2>3. Holds(v, at, f[i - 1])
    BY <2>1, <2>2, <1>3, HoldsConcat
  <2>4. QED
    BY <2>1, <2>3
<1>5. ASSUME NEW i \in 0 .. n PROVE Holds(v, at, f[i])
  <2>. HIDE DEF P
  <2>1. \A k \in 0 .. n : k \in P
    BY <1>0, <1>2, <1>4, UpTo
  <2>2. n - i \in 0 .. n /\ n - (n - i) = i
    BY <1>0
  <2>. HIDE DEF n
  <2>3. QED
    BY <2>1, <2>2 DEF P
<1>6. \A i \in 0 .. n : off[i] = at + Len(f[i]) /\ off[i] \in Nat
  BY <1>1
<1>. HIDE DEF off
<1>7. off[0] = at /\ off[n] = at + Len(FlattenSeq(codes))
  <2>1. 0 \in 0 .. n /\ n \in 0 .. n /\ Len(<<>>) = 0
    BY <1>0
  <2>. HIDE DEF n
  <2>2. off[0] = at + Len(f[0]) /\ Len(f[0]) = 0
    BY <2>1, <1>1, <1>6
  <2>3. off[n] = at + Len(f[n]) /\ f[n] = FlattenSeq(codes)
    BY <2>1, <1>1, <1>6
  <2>4. QED
    BY <2>2, <2>3
<1>8. ASSUME NEW i \in 1 .. n
      PROVE  off[i] = off[i - 1] + Len(codes[i]) /\ Holds(v, off[i - 1], codes[i])
  <2>. DEFINE x == Len(f[i - 1])
              y == Len(codes[i])
  <2>1. Len(f[i]) = x + y /\ x \in Nat /\ y \in Nat
    BY <1>3
  <2>2. off[i] = at + Len(f[i]) /\ off[i - 1] = at + x
    BY <1>3, <1>6
  <2>. HIDE DEF x, y
  <2>3. off[i] = at + (x + y)
    BY <2>1, <2>2
  <2>4. off[i] = off[i - 1] + y
    BY <2>1, <2>2, <2>3
  <2>5. Holds(v, at, f[i - 1] \o codes[i])
    BY <1>3, <1>5
  <2>6. Holds(v, at + x, codes[i])
    BY <2>5, <1>3, HoldsConcat DEF x
  <2>7. QED
    BY <2>2, <2>4, <2>6 DEF y
<1>9. QED
  BY <1>6, <1>7, <1>8

\* One more element of the values read.
LEMMA AppendNext ==
  ASSUME NEW xs, NEW i \in Nat \ {0}
  PROVE  Append([j \in 1 .. i - 1 |-> xs[j]], xs[i]) = [j \in 1 .. i |-> xs[j]]
<1>. DEFINE T == {xs[j] : j \in 1 .. i}
            s == [j \in 1 .. i - 1 |-> xs[j]]
            t == [j \in 1 .. i |-> xs[j]]
<1>1. s \in Seq(T) /\ Len(s) = i - 1 /\ xs[i] \in T
  OBVIOUS
<1>2. t \in Seq(T) /\ Len(t) = i
  OBVIOUS
<1>3. \A j \in 1 .. i : t[j] = xs[j]
  OBVIOUS
<1>4. \A j \in 1 .. i - 1 : s[j] = xs[j]
  OBVIOUS
<1>. DEFINE a == Append(s, xs[i])
<1>. HIDE DEF s, t, T
<1>5. /\ a \in Seq(T) /\ Len(a) = i
      /\ \A j \in 1 .. i - 1 : a[j] = s[j]
      /\ a[i] = xs[i]
  BY <1>1, AppendProperties
<1>. HIDE DEF a
<1>6. ASSUME NEW j \in 1 .. i PROVE a[j] = t[j]
  BY <1>3, <1>4, <1>5
<1>7. a = t
  BY <1>2, <1>5, <1>6, SeqEqual
<1>8. QED
  BY <1>7 DEF a, s, t

\* Readers that are exact on each of the codes are exact on all of them in turn.
LEMMA InTurnExact ==
  ASSUME NEW v, View(v), NEW at \in Nat, NEW S, NEW codes \in Seq(Seq(S)),
         NEW readers, Len(readers) = Len(codes), NEW xs, NEW inside, Segment(inside), at \in inside,
         Reads(readers, v, codes, inside, xs), Holds(v, at, FlattenSeq(codes))
  PROVE  Exact(InTurn(readers, at), inside, at + Len(FlattenSeq(codes)),
               [i \in 1 .. Len(codes) |-> xs[i]])
<1>. DEFINE n == Len(codes)
            T == Turns(readers, at)
            upTo(i) == [j \in 1 .. i |-> xs[j]]
<1>0. n \in Nat /\ \A i \in 1 .. n : Len(codes[i]) \in Nat
  OBVIOUS
<1>1. PICK off : /\ off[0] = at /\ off[n] = at + Len(FlattenSeq(codes))
                 /\ \A i \in 0 .. n : off[i] \in Nat
                 /\ \A i \in 1 .. n : /\ off[i] = off[i - 1] + Len(codes[i])
                                      /\ Holds(v, off[i - 1], codes[i])
  BY FlattenHolds
<1>2. /\ T[0] = Read(<<>>, at)
      /\ \A i \in 1 .. n : T[i] = LET r == T[i - 1]
                                      e == readers[i][r.at]
                                  IN  IF r.ok THEN Yield(e, Append(r.out, e.out)) ELSE r
  BY <1>0, TurnsDefined
<1>. DEFINE P == {i \in 0 .. n : Exact(T[i], inside, off[i], upTo(i))}
<1>. HIDE DEF T
<1>3. 0 \in P
  <2>1. upTo(0) = <<>>
    OBVIOUS
  <2>. HIDE DEF upTo
  <2>2. T[0] = Read(upTo(0), off[0])
    BY <1>1, <1>2, <2>1
  <2>3. 0 \in 0 .. n /\ off[0] \in inside
    BY <1>0, <1>1
  <2>4. QED
    BY <2>2, <2>3 DEF Exact
<1>4. ASSUME NEW i \in 1 .. n, i - 1 \in P PROVE i \in P
  <2>. DEFINE r == T[i - 1]
              e == readers[i][r.at]
  <2>0. /\ i \in 0 .. n /\ i - 1 \in 0 .. n /\ i \in Nat \ {0}
        /\ off[i - 1] \in Nat /\ off[i] \in Nat /\ off[i - 1] <= off[i]
    BY <1>0, <1>1
  <2>1. T[i] = IF r.ok THEN Yield(e, Append(r.out, e.out)) ELSE r
    BY <1>2
  <2>2. Exact(r, inside, off[i - 1], upTo(i - 1))
    BY <1>4
  <2>. HIDE DEF r, upTo
  <2>3. CASE off[i - 1] \notin inside
    <3>1. ~ r.ok /\ T[i] = r
      BY <2>1, <2>2, <2>3 DEF Exact
    <3>2. off[i - 1] \in 0 .. off[i]
      BY <2>0
    <3>3. off[i] \notin inside
      BY <2>3, <3>2 DEF Segment
    <3>4. QED
      BY <3>1, <3>3, <2>0 DEF Exact
  <2>4. CASE off[i - 1] \in inside
    <3>1. r = Read(upTo(i - 1), off[i - 1])
      BY <2>2, <2>4 DEF Exact
    <3>2. r.ok /\ r.at = off[i - 1] /\ r.out = upTo(i - 1)
      BY <3>1 DEF Read
    <3>3. Exact(e, inside, off[i - 1] + Len(codes[i]), xs[i])
      BY <3>2, <2>0, <1>1 DEF Reads
    <3>4. Exact(e, inside, off[i], xs[i])
      BY <3>3, <1>1
    <3>. HIDE DEF e
    <3>5. CASE off[i] \in inside
      <4>1. e = Read(xs[i], off[i])
        BY <3>4, <3>5 DEF Exact
      <4>2. Append(upTo(i - 1), xs[i]) = upTo(i)
        BY <2>0, AppendNext DEF upTo
      <4>3. T[i] = Yield(e, Append(upTo(i - 1), xs[i]))
        BY <2>1, <3>2, <4>1 DEF Read
      <4>4. T[i] = Read(upTo(i), off[i])
        BY <4>1, <4>2, <4>3 DEF Read, Yield
      <4>5. QED
        BY <4>4, <2>0, <3>5 DEF Exact
    <3>6. CASE off[i] \notin inside
      <4>1. ~ e.ok
        BY <3>4, <3>6 DEF Exact
      <4>2. T[i] = e
        BY <2>1, <3>2, <4>1 DEF Yield
      <4>3. QED
        BY <4>1, <4>2, <3>6, <2>0 DEF Exact
    <3>7. QED
      BY <3>5, <3>6
  <2>5. QED
    BY <2>3, <2>4
<1>5. n \in P
  <2>. HIDE DEF P
  <2>1. \A i \in 0 .. n : i \in P
    BY <1>0, <1>3, <1>4, UpTo
  <2>2. QED
    BY <2>1, <1>0
<1>6. QED
  BY <1>1, <1>5 DEF InTurn, T

(***************************************************************************)
(* Numbers of two and four bytes.                                          *)
(***************************************************************************)
LEMMA Division ==
  ASSUME NEW B \in Nat \ {0}, NEW n \in Int
  PROVE  /\ n \div B \in Int /\ n % B \in 0 .. B - 1
         /\ n = B * (n \div B) + (n % B)
  OBVIOUS

LEMMA DivisionBound ==
  ASSUME NEW B \in Nat \ {0}, NEW X \in Nat, NEW n \in Nat, n < B * X
  PROVE  n \div B \in Nat /\ n \div B < X
<1>1. n \div B \in Int /\ n % B \in 0 .. B - 1 /\ n = B * (n \div B) + (n % B)
  BY Division
<1>. DEFINE q == n \div B
<1>2. q \in Int /\ B * q <= n
  BY <1>1
<1>5. q >= 0
  BY <1>1
<1>. HIDE DEF q
<1>3. B * q < B * X
  BY <1>2
<1>4. q < X
  BY <1>2, <1>3
<1>6. QED
  BY <1>2, <1>4, <1>5 DEF q

LEMMA Sizes ==
  /\ Base \in Nat \ {0} /\ Base >= 4 /\ Short \in Nat /\ Word \in Nat
  /\ Short >= 16 /\ Word >= 256
<1>1. Base \in Nat /\ Base >= 4
  BY BaseAssumption
<1>2. Base * Base \in Nat /\ Base * Base >= 16
  <2>1. Base * Base >= 4 * Base
    BY <1>1
  <2>2. QED
    BY <2>1, <1>1
<1>3. Short \in Nat /\ Short >= 16
  BY <1>2 DEF Short
<1>4. Short * Short >= 16 * Short /\ Short * Short \in Nat
  BY <1>3
<1>5. QED
  BY <1>1, <1>3, <1>4 DEF Word

LEMMA TwoBytes ==
  ASSUME NEW n \in Int
  PROVE  /\ Two(n) \in Seq(Byte) /\ Len(Two(n)) = 2
         /\ Two(n)[1] = n % Base /\ Two(n)[2] = (n \div Base) % Base
<1>1. n % Base \in Byte /\ (n \div Base) % Base \in Byte
  BY Sizes, Division DEF Byte
<1>2. QED
  BY <1>1 DEF Two

LEMMA FourBytes ==
  ASSUME NEW n \in Int
  PROVE  LET b == write_bytes(n, 4)
             m == (n \div Base) \div Base
         IN  /\ b \in Seq(Byte) /\ Len(b) = 4 /\ m \in Int
             /\ b[1] = Two(n)[1] /\ b[2] = Two(n)[2] /\ b[3] = Two(m)[1] /\ b[4] = Two(m)[2]
<1>. DEFINE m == (n \div Base) \div Base
            b == Two(n) \o Two(m)
<1>1. m \in Int
  BY Sizes, Division
<1>. HIDE DEF m
<1>2. /\ Two(n) \in Seq(Byte) /\ Len(Two(n)) = 2
      /\ Two(m) \in Seq(Byte) /\ Len(Two(m)) = 2
  BY <1>1, TwoBytes
<1>3. /\ b \in Seq(Byte) /\ Len(b) = 4
      /\ \A i \in 1 .. 4 : b[i] = IF i <= 2 THEN Two(n)[i] ELSE Two(m)[i - 2]
  <2>. DEFINE s == Two(n)
              t == Two(m)
  <2>1. s \in Seq(Byte) /\ Len(s) = 2 /\ t \in Seq(Byte) /\ Len(t) = 2
    BY <1>2
  <2>. HIDE DEF s, t
  <2>2. /\ s \o t \in Seq(Byte) /\ Len(s \o t) = Len(s) + Len(t)
        /\ \A i \in 1 .. Len(s) + Len(t) : (s \o t)[i] = IF i <= Len(s) THEN s[i] ELSE t[i - Len(s)]
    BY <2>1, ConcatProperties
  <2>3. /\ s \o t \in Seq(Byte) /\ Len(s \o t) = 4
        /\ \A i \in 1 .. 4 : (s \o t)[i] = IF i <= 2 THEN s[i] ELSE t[i - 2]
    BY <2>1, <2>2
  <2>4. QED
    BY <2>3 DEF s, t
<1>. HIDE DEF b
<1>4. b[1] = Two(n)[1] /\ b[2] = Two(n)[2] /\ b[3] = Two(m)[1] /\ b[4] = Two(m)[2]
  BY <1>3
<1>5. write_bytes(n, 4) = b
  BY DEF write_bytes, b, m
<1>6. QED
  BY <1>1, <1>3, <1>4, <1>5 DEF m

LEMMA Unsigned16Exact ==
  ASSUME NEW n \in 0 .. Short - 1
  PROVE  Unsigned16(Two(n)) = n
<1>1. n \in Nat /\ n < Base * Base
  BY Sizes DEF Short
<1>2. n \div Base \in Nat /\ n \div Base < Base
  BY <1>1, Sizes, DivisionBound
<1>3. n = Base * (n \div Base) + (n % Base) /\ n % Base \in 0 .. Base - 1
  BY <1>1, Sizes, Division
<1>4. (n \div Base) % Base = n \div Base
  BY <1>2, Sizes
<1>5. Unsigned16(Two(n)) = (n % Base) + Base * (n \div Base)
  BY <1>1, <1>4, TwoBytes DEF Unsigned16
<1>6. QED
  BY <1>2, <1>3, <1>5, Sizes

LEMMA Unsigned32Exact ==
  ASSUME NEW n \in 0 .. Word - 1
  PROVE  Unsigned32(write_bytes(n, 4)) = n
<1>. DEFINE q == n \div Base
            m == q \div Base
            r == n % Base
            d == q % Base
<1>0. n \in Nat /\ n < Short * Short /\ Base \in Nat \ {0} /\ Short \in Nat
  BY Sizes DEF Word
<1>1. q \in Int /\ r \in 0 .. Base - 1 /\ n = Base * q + r
  BY <1>0, Division
<1>2. m \in Int /\ d \in 0 .. Base - 1 /\ q = Base * m + d
  BY <1>0, <1>1, Division
<1>3. n < Base * (Base * Short) /\ Base * Short \in Nat
  BY <1>0 DEF Short
<1>4. q \in Nat /\ q < Base * Short
  BY <1>0, <1>3, DivisionBound
<1>5. m \in Nat /\ m < Short
  BY <1>0, <1>4, DivisionBound
<1>. DEFINE b == write_bytes(n, 4)
<1>6. b[1] = r /\ b[2] = d /\ b[3] = Two(m)[1] /\ b[4] = Two(m)[2]
  <2>1. n \in Int
    BY <1>0
  <2>2. b[1] = Two(n)[1] /\ b[2] = Two(n)[2] /\ b[3] = Two(m)[1] /\ b[4] = Two(m)[2]
    BY <2>1, FourBytes
  <2>3. Two(n)[1] = r /\ Two(n)[2] = d
    BY <2>1, TwoBytes
  <2>4. QED
    BY <2>2, <2>3
<1>7. b[3] + Base * b[4] = m
  <2>1. Unsigned16(Two(m)) = m
    BY <1>5, <1>0, Unsigned16Exact
  <2>. HIDE DEF b, m
  <2>2. QED
    BY <2>1, <1>6 DEF Unsigned16
<1>8. Unsigned32(b) = (r + Base * d) + Short * m
  <2>. HIDE DEF b, m, r, d
  <2>1. QED
    BY <1>6, <1>7 DEF Unsigned32, Unsigned16
<1>9. n = (r + Base * d) + Short * m
  <2>. HIDE DEF m, q, r, d
  <2>1. n = Base * (Base * m + d) + r
    BY <1>1, <1>2
  <2>2. Base * (Base * m + d) = (Base * Base) * m + Base * d
    BY <1>0, <1>2
  <2>3. (Base * Base) * m \in Int /\ Base * d \in Int /\ r \in Int
    BY <1>0, <1>1, <1>2
  <2>4. QED
    BY <2>1, <2>2, <2>3 DEF Short
<1>10. QED
  BY <1>8, <1>9

LEMMA SignedExact ==
  ASSUME NEW n \in Int, - Short <= 2 * n, 2 * n < Short
  PROVE  Signed(Two(n)) = n
<1>. DEFINE q == n \div Base
            m == q \div Base
            r == n % Base
            d == q % Base
            u == r + Base * d
<1>0. Base \in Nat \ {0} /\ Short \in Nat /\ Short > 0
  BY Sizes
<1>1. q \in Int /\ r \in 0 .. Base - 1 /\ n = Base * q + r
  BY <1>0, Division
<1>2. m \in Int /\ d \in 0 .. Base - 1 /\ q = Base * m + d
  BY <1>0, <1>1, Division
<1>3. Unsigned16(Two(n)) = u
  BY TwoBytes DEF Unsigned16
<1>. HIDE DEF q, m, r, d
<1>4. u \in 0 .. Short - 1
  <2>1. Base * d <= Base * (Base - 1) /\ Base * d >= 0 /\ Base * d \in Int
    BY <1>0, <1>2
  <2>2. Base * (Base - 1) = Short - Base
    BY <1>0 DEF Short
  <2>3. QED
    BY <2>1, <2>2, <1>0, <1>1
<1>5. n = u + Short * m
  <2>1. n = Base * (Base * m + d) + r
    BY <1>1, <1>2
  <2>2. Base * (Base * m + d) = (Base * Base) * m + Base * d
    BY <1>0, <1>2
  <2>3. (Base * Base) * m \in Int /\ Base * d \in Int /\ r \in Int
    BY <1>0, <1>1, <1>2
  <2>4. QED
    BY <2>1, <2>2, <2>3 DEF Short
<1>. HIDE DEF u
<1>6. CASE m = 0
  <2>1. n = u /\ 2 * u < Short
    BY <1>0, <1>4, <1>5, <1>6
  <2>2. QED
    BY <2>1, <1>3 DEF Signed
<1>7. CASE m = -1
  <2>1. n = u - Short /\ ~ (2 * u < Short)
    BY <1>0, <1>4, <1>5, <1>7
  <2>2. QED
    BY <2>1, <1>3 DEF Signed
<1>8. CASE m > 0
  <2>. DEFINE p == Short * m
  <2>1. p \in Int /\ p >= Short
    BY <1>0, <1>2, <1>8
  <2>. HIDE DEF p
  <2>2. n = u + p
    BY <1>5 DEF p
  <2>3. FALSE
    BY <2>1, <2>2, <1>0, <1>4
  <2>4. QED
    BY <2>3
<1>9. CASE m < -1
  <2>. DEFINE p == Short * m
  <2>1. p \in Int /\ p <= Short * (-2)
    BY <1>0, <1>2, <1>9
  <2>. HIDE DEF p
  <2>2. n = u + p
    BY <1>5 DEF p
  <2>3. FALSE
    BY <2>1, <2>2, <1>0, <1>4
  <2>4. QED
    BY <2>3
<1>10. QED
  BY <1>6, <1>7, <1>8, <1>9, <1>2

(***************************************************************************)
(* The primitives of the two decoders, on the codes of the encoder.        *)
(***************************************************************************)
LEMMA InsideSegment ==
  ASSUME NEW v, View(v)
  PROVE  Segment(Inside(v))
  BY DEF View, Inside, Segment

LEMMA NatSegment == Segment(Nat)
  BY DEF Segment

\* A value made of what was read.
LEMMA YieldExact ==
  ASSUME NEW r, NEW inside, NEW end, NEW code, NEW x, NEW value,
         Exact(r, inside, end, code), r = Read(code, end) => value = x
  PROVE  Exact(Yield(r, value), inside, end, x)
<1>1. CASE end \in inside
  <2>1. r = Read(code, end) /\ value = x
    BY <1>1 DEF Exact
  <2>2. Yield(r, value) = Read(x, end)
    BY <2>1 DEF Read, Yield
  <2>3. QED
    BY <2>2, <1>1 DEF Exact
<1>2. CASE end \notin inside
  <2>1. ~ r.ok
    BY <1>2 DEF Exact
  <2>2. Yield(r, value) = r
    BY <2>1 DEF Yield
  <2>3. QED
    BY <2>1, <2>2, <1>2 DEF Exact
<1>3. QED
  BY <1>1, <1>2

LEMMA BoolExact ==
  ASSUME NEW v, View(v), NEW at \in Nat, NEW x \in BOOLEAN, Holds(v, at, <<IF x THEN 1 ELSE 0>>)
  PROVE  Exact(readBool(v, at), Inside(v), at + 1, x)
<1>. DEFINE code == <<IF x THEN 1 ELSE 0>>
            r == Bytes(v, at, 1)
<1>1. code \in Seq(Nat) /\ Len(code) = 1 /\ (code[1] # 0 <=> x)
  OBVIOUS
<1>. HIDE DEF code
<1>2. Exact(Bytes(v, at, Len(code)), Inside(v), at + Len(code), code)
  BY <1>1, BytesExact DEF code
<1>3. Exact(r, Inside(v), at + 1, code)
  BY <1>1, <1>2
<1>4. r = Read(code, at + 1) => (r.out[1] # 0) = x
  BY <1>1 DEF Read
<1>. HIDE DEF r
<1>5. Exact(Yield(r, r.out[1] # 0), Inside(v), at + 1, x)
  BY <1>3, <1>4, YieldExact
<1>6. QED
  BY <1>5 DEF readBool, r

LEMMA Int16Exact ==
  ASSUME NEW v, View(v), NEW at \in Nat, NEW n \in Int, - Short <= 2 * n, 2 * n < Short,
         Holds(v, at, Two(n))
  PROVE  Exact(readInt16(v, at), Inside(v), at + 2, n)
<1>. DEFINE r == Bytes(v, at, 2)
<1>1. Exact(r, Inside(v), at + 2, Two(n))
  <2>1. Two(n) \in Seq(Byte) /\ Len(Two(n)) = 2
    BY TwoBytes
  <2>2. Exact(Bytes(v, at, Len(Two(n))), Inside(v), at + Len(Two(n)), Two(n))
    BY <2>1, BytesExact
  <2>3. QED
    BY <2>1, <2>2
<1>2. r = Read(Two(n), at + 2) => Signed(r.out) = n
  BY SignedExact DEF Read
<1>. HIDE DEF r
<1>3. Exact(Yield(r, Signed(r.out)), Inside(v), at + 2, n)
  BY <1>1, <1>2, YieldExact
<1>4. QED
  BY <1>3 DEF readInt16, r

LEMMA Uint16Exact ==
  ASSUME NEW v, View(v), NEW at \in Nat, NEW n \in 0 .. Short - 1, Holds(v, at, Two(n))
  PROVE  Exact(readUint16(v, at), Inside(v), at + 2, n)
<1>. DEFINE r == Bytes(v, at, 2)
<1>0. n \in Int
  BY Sizes
<1>1. Exact(r, Inside(v), at + 2, Two(n))
  <2>1. Two(n) \in Seq(Byte) /\ Len(Two(n)) = 2
    BY <1>0, TwoBytes
  <2>2. Exact(Bytes(v, at, Len(Two(n))), Inside(v), at + Len(Two(n)), Two(n))
    BY <2>1, BytesExact
  <2>3. QED
    BY <2>1, <2>2
<1>2. r = Read(Two(n), at + 2) => Unsigned16(r.out) = n
  BY Unsigned16Exact DEF Read
<1>. HIDE DEF r
<1>3. Exact(Yield(r, Unsigned16(r.out)), Inside(v), at + 2, n)
  BY <1>1, <1>2, YieldExact
<1>4. QED
  BY <1>3 DEF readUint16, r

LEMMA Uint32Exact ==
  ASSUME NEW v, View(v), NEW at \in Nat, NEW n \in 0 .. Word - 1, Holds(v, at, write_bytes(n, 4))
  PROVE  Exact(readUint32(v, at), Inside(v), at + 4, n)
<1>. DEFINE r == Bytes(v, at, 4)
            b == write_bytes(n, 4)
<1>0. b \in Seq(Byte) /\ Len(b) = 4
  <2>1. n \in Int
    BY Sizes
  <2>2. QED
    BY <2>1, FourBytes
<1>1. Exact(r, Inside(v), at + 4, b)
  <2>. HIDE DEF b
  <2>1. Exact(Bytes(v, at, Len(b)), Inside(v), at + Len(b), b)
    BY <1>0, BytesExact DEF b
  <2>2. QED
    BY <1>0, <2>1
<1>2. r = Read(b, at + 4) => Unsigned32(r.out) = n
  BY Unsigned32Exact DEF Read
<1>. HIDE DEF r, b
<1>3. Exact(Yield(r, Unsigned32(r.out)), Inside(v), at + 4, n)
  BY <1>1, <1>2, YieldExact
<1>4. QED
  BY <1>3 DEF readUint32, r

\* A count and what it counts.
LEMMA CountCode ==
  ASSUME NEW n \in 0 .. Word - 1, NEW s \in Seq(Byte), NEW v, View(v), NEW at \in Nat,
         Holds(v, at, write_bytes(n, 4) \o s)
  PROVE  /\ write_bytes(n, 4) \o s \in Seq(Byte)
         /\ at + Len(write_bytes(n, 4) \o s) = (at + 4) + Len(s) /\ at + 4 \in Nat /\ Len(s) \in Nat
         /\ Holds(v, at, write_bytes(n, 4)) /\ Holds(v, at + 4, s)
<1>. DEFINE b == write_bytes(n, 4)
<1>1. b \in Seq(Byte) /\ Len(b) = 4
  <2>1. n \in Int
    BY Sizes
  <2>2. QED
    BY <2>1, FourBytes
<1>. HIDE DEF b
<1>2. b \o s \in Seq(Byte) /\ Len(b \o s) = Len(b) + Len(s)
  BY <1>1, ConcatProperties
<1>3. Holds(v, at, b) /\ Holds(v, at + Len(b), s)
  <2>1. Holds(v, at, b \o s)
    BY DEF b
  <2>2. QED
    BY <1>1, <2>1, HoldsConcat
<1>4. Len(s) \in Nat
  OBVIOUS
<1>5. at + Len(b \o s) = (at + 4) + Len(s)
  <2>. DEFINE k == Len(s)
              l == Len(b \o s)
  <2>1. k \in Nat /\ l = 4 + k
    BY <1>1, <1>2, <1>4
  <2>. HIDE DEF k, l
  <2>2. at + l = (at + 4) + k
    BY <2>1
  <2>3. QED
    BY <2>2 DEF k, l
<1>6. Holds(v, at + 4, s)
  BY <1>1, <1>3
<1>7. QED
  BY <1>2, <1>3, <1>4, <1>5, <1>6 DEF b

\* What comes before the end of what is inside is inside too.
LEMMA Before ==
  ASSUME NEW inside, Segment(inside), NEW i \in Nat, NEW n \in Nat, i + n \in inside
  PROVE  i \in inside
<1>1. i \in 0 .. i + n
  OBVIOUS
<1>2. QED
  BY <1>1 DEF Segment

\* One read after another, the second at the end of the first.
LEMMA ThenExact ==
  ASSUME NEW inside, Segment(inside), NEW i \in Nat, NEW n \in Nat,
         NEW one, NEW x, Exact(one, inside, i, x),
         NEW two, NEW y,
         i \in inside /\ one = Read(x, i) => Exact(two, inside, i + n, y)
  PROVE  Exact(IF one.ok THEN two ELSE one, inside, i + n, y)
<1>1. CASE i \in inside
  <2>1. one = Read(x, i) /\ one.ok
    BY <1>1 DEF Exact, Read
  <2>2. QED
    BY <1>1, <2>1
<1>2. CASE i \notin inside
  <2>1. i + n \notin inside
    BY <1>2, Before
  <2>2. ~ one.ok
    BY <1>2 DEF Exact
  <2>3. QED
    BY <2>1, <2>2 DEF Exact
<1>3. QED
  BY <1>1, <1>2

\* readString and readByteList.
LEMMA BlobExact ==
  ASSUME NEW v, View(v), NEW at \in Nat, NEW s \in Blobs, Holds(v, at, Blob(s))
  PROVE  Exact(readBlob(v, at), Inside(v), at + Len(Blob(s)), s)
<1>. DEFINE n == readUint32(v, at)
<1>1. s \in Seq(Byte) /\ Len(s) \in 0 .. Word - 1
  BY Sizes DEF Blobs
<1>2. /\ at + Len(Blob(s)) = (at + 4) + Len(s) /\ at + 4 \in Nat /\ Len(s) \in Nat
      /\ Holds(v, at, write_bytes(Len(s), 4)) /\ Holds(v, at + 4, s)
  BY <1>1, CountCode DEF Blob
<1>3. Exact(n, Inside(v), at + 4, Len(s))
  BY <1>1, <1>2, Uint32Exact
<1>4. n = Read(Len(s), at + 4) => Exact(Bytes(v, n.at, n.out), Inside(v), (at + 4) + Len(s), s)
  <2>1. Exact(Bytes(v, at + 4, Len(s)), Inside(v), (at + 4) + Len(s), s)
    BY <1>1, <1>2, BytesExact
  <2>2. QED
    BY <2>1 DEF Read
<1>. HIDE DEF n
<1>. DEFINE two == Bytes(v, n.at, n.out)
            i == at + 4
            k == Len(s)
<1>5. Exact(IF n.ok THEN two ELSE n, Inside(v), i + k, s)
  <2>1. Segment(Inside(v)) /\ i \in Nat /\ k \in Nat
    BY <1>2, InsideSegment
  <2>2. Exact(n, Inside(v), i, k) /\ (i \in Inside(v) /\ n = Read(k, i) => Exact(two, Inside(v), i + k, s))
    BY <1>3, <1>4
  <2>. HIDE DEF two, i, k
  <2>3. QED
    BY <2>1, <2>2, ThenExact
<1>6. QED
  BY <1>2, <1>5 DEF readBlob, n

\* A count and as many elements, in either decoder.
LEMMA CountedExact ==
  ASSUME NEW v, View(v), NEW at \in Nat, NEW inside, Segment(inside),
         NEW codes \in Seq(Seq(Byte)), Len(codes) < Word, Holds(v, at, Counted(codes)),
         NEW xs, xs = [i \in 1 .. Len(codes) |-> xs[i]], NEW element,
         \A i \in 1 .. Len(codes) : \A o \in Nat :
            Holds(v, o, codes[i]) => Exact(element[o], inside, o + Len(codes[i]), xs[i]),
         NEW r, Holds(v, at, write_bytes(Len(codes), 4)) => Exact(r, inside, at + 4, Len(codes))
  PROVE  Exact(IF r.ok THEN InTurn([i \in 1 .. r.out |-> element], r.at) ELSE r,
               inside, at + Len(Counted(codes)), xs)
<1>. DEFINE n == Len(codes)
            s == FlattenSeq(codes)
            k == Len(s)
            start == at + 4
            two == InTurn([i \in 1 .. r.out |-> element], r.at)
<1>1. n \in 0 .. Word - 1 /\ n \in Nat
  BY Sizes
<1>2. s \in Seq(Byte)
  <2>1. PICK f : /\ f[n] = s
                 /\ \A i \in 0 .. n : f[i] \in Seq(Byte)
    BY FlattenDefined
  <2>2. n \in 0 .. n
    BY <1>1
  <2>. HIDE DEF n, s
  <2>3. QED
    BY <2>1, <2>2
<1>3. /\ at + Len(Counted(codes)) = start + k /\ start \in Nat /\ k \in Nat
      /\ Holds(v, at, write_bytes(n, 4)) /\ Holds(v, start, s)
  BY <1>1, <1>2, CountCode DEF Counted
<1>4. Exact(r, inside, start, n)
  BY <1>3
<1>5. ASSUME start \in inside, r = Read(n, start) PROVE Exact(two, inside, start + k, xs)
  <2>. DEFINE readers == [i \in 1 .. n |-> element]
  <2>1. r.out = n /\ r.at = start
    BY <1>5 DEF Read
  <2>2. two = InTurn(readers, start)
    BY <2>1
  <2>3. Len(readers) = n /\ \A i \in 1 .. n : readers[i] = element
    BY <1>1
  <2>. HIDE DEF readers, two
  <2>4. Reads(readers, v, codes, inside, xs)
    BY <2>3 DEF Reads
  <2>5. Exact(InTurn(readers, start), inside, start + k, [i \in 1 .. n |-> xs[i]])
    <3>. HIDE DEF start
    <3>1. start \in Nat
      BY <1>3
    <3>2. Holds(v, start, FlattenSeq(codes))
      BY <1>3
    <3>3. Len(readers) = Len(codes)
      BY <2>3
    <3>4. start \in inside
      BY <1>5
    <3>5. QED
      BY <3>1, <3>2, <3>3, <3>4, <2>4, InTurnExact
  <2>6. QED
    BY <2>2, <2>5
<1>. HIDE DEF two, start, k, s, n
<1>6. Exact(IF r.ok THEN two ELSE r, inside, start + k, xs)
  BY <1>3, <1>4, <1>5, ThenExact
<1>7. QED
  BY <1>3, <1>6 DEF two

LEMMA ManyExact ==
  ASSUME NEW v, View(v), NEW at \in Nat,
         NEW codes \in Seq(Seq(Byte)), Len(codes) < Word, Holds(v, at, Counted(codes)),
         NEW xs, xs = [i \in 1 .. Len(codes) |-> xs[i]], NEW element,
         \A i \in 1 .. Len(codes) : \A o \in Nat :
            Holds(v, o, codes[i]) => Exact(element[o], Inside(v), o + Len(codes[i]), xs[i])
  PROVE  Exact(readMany(v, at, element), Inside(v), at + Len(Counted(codes)), xs)
<1>. DEFINE r == readUint32(v, at)
<1>1. Len(codes) \in 0 .. Word - 1
  BY Sizes
<1>2. Holds(v, at, write_bytes(Len(codes), 4)) => Exact(r, Inside(v), at + 4, Len(codes))
  BY <1>1, Uint32Exact
<1>3. Segment(Inside(v))
  BY InsideSegment
<1>. HIDE DEF r
<1>4. Exact(IF r.ok THEN InTurn([i \in 1 .. r.out |-> element], r.at) ELSE r,
            Inside(v), at + Len(Counted(codes)), xs)
  BY <1>2, <1>3, CountedExact
<1>5. QED
  BY <1>4 DEF readMany, r

LEMMA BlobCode ==
  ASSUME NEW s \in Blobs
  PROVE  Blob(s) \in Seq(Byte)
<1>1. Len(s) \in Int /\ s \in Seq(Byte)
  BY DEF Blobs
<1>2. write_bytes(Len(s), 4) \in Seq(Byte)
  BY <1>1, FourBytes
<1>3. QED
  BY <1>1, <1>2, ConcatProperties DEF Blob

\* Two codes, the second a string or bytes.
LEMMA PairCode ==
  ASSUME NEW c \in Seq(Byte), NEW s \in Blobs, NEW v, View(v), NEW at \in Nat,
         Holds(v, at, c \o Blob(s))
  PROVE  /\ Holds(v, at, c) /\ Holds(v, at + Len(c), Blob(s))
         /\ c \o Blob(s) \in Seq(Byte) /\ Len(c) \in Nat /\ Len(Blob(s)) \in Nat
         /\ at + Len(c \o Blob(s)) = (at + Len(c)) + Len(Blob(s))
<1>. DEFINE t == Blob(s)
            l == Len(c)
            m == Len(t)
<1>1. t \in Seq(Byte)
  BY BlobCode
<1>. HIDE DEF t
<1>2. /\ c \o t \in Seq(Byte) /\ Len(c \o t) = l + m /\ l \in Nat /\ m \in Nat
  BY <1>1, ConcatProperties
<1>3. Holds(v, at, c) /\ Holds(v, at + l, t)
  <2>1. Holds(v, at, c \o t)
    BY DEF t
  <2>2. QED
    BY <1>1, <2>1, HoldsConcat
<1>. HIDE DEF l, m
<1>4. at + (l + m) = (at + l) + m
  BY <1>2
<1>5. at + Len(c \o t) = (at + l) + m
  BY <1>2, <1>4
<1>6. QED
  BY <1>2, <1>3, <1>5 DEF t, l, m

LEMMA PairExact ==
  ASSUME NEW v, View(v), NEW at \in Nat, NEW c \in Seq(Byte), NEW s \in Blobs,
         Holds(v, at, c \o Blob(s)),
         NEW one, NEW x, Holds(v, at, c) => Exact(one, Inside(v), at + Len(c), x)
  PROVE  Exact(readPair(v, one), Inside(v), at + Len(c \o Blob(s)), <<x, s>>)
<1>. DEFINE i == at + Len(c)
            k == Len(Blob(s))
            two == readBlob(v, one.at)
            both == Yield(two, <<one.out, two.out>>)
<1>1. /\ Holds(v, at, c) /\ Holds(v, i, Blob(s)) /\ i \in Nat /\ k \in Nat
      /\ at + Len(c \o Blob(s)) = i + k
  BY PairCode
<1>2. Exact(one, Inside(v), i, x)
  BY <1>1
<1>3. ASSUME one = Read(x, i) PROVE Exact(both, Inside(v), i + k, <<x, s>>)
  <2>1. one.at = i /\ one.out = x
    BY <1>3 DEF Read
  <2>2. Exact(two, Inside(v), i + k, s)
    <3>. HIDE DEF i
    <3>1. QED
      BY <2>1, <1>1, BlobExact
  <2>3. two = Read(s, i + k) => <<one.out, two.out>> = <<x, s>>
    BY <2>1 DEF Read
  <2>. HIDE DEF two, i, k
  <2>4. QED
    BY <2>2, <2>3, YieldExact
<1>. HIDE DEF i, k, two, both
<1>4. Segment(Inside(v))
  BY InsideSegment
<1>5. Exact(IF one.ok THEN both ELSE one, Inside(v), i + k, <<x, s>>)
  BY <1>1, <1>2, <1>3, <1>4, ThenExact
<1>6. QED
  BY <1>1, <1>5 DEF readPair, both, two

(***************************************************************************)
(* The same primitives of the native decoder, which reads past any end.    *)
(***************************************************************************)
\* The buffer as a view.
Buffer(b) == [buffer |-> b, base |-> 0, length |-> 0]

LEMMA BufferView ==
  ASSUME NEW b
  PROVE  View(Buffer(b))
  BY DEF View, Buffer

LEMMA read_bytesExact ==
  ASSUME NEW b, NEW at \in Nat, NEW S, NEW code \in Seq(S), Holds(Buffer(b), at, code)
  PROVE  Exact(read_bytes(b, at, Len(code)), Nat, at + Len(code), code)
<1>1. \A j \in 1 .. Len(code) : b[at + j] = code[j]
  <2>1. ASSUME NEW j \in 1 .. Len(code) PROVE b[at + j] = code[j]
    <3>1. b[0 + at + j] = code[j]
      BY DEF Holds, Buffer
    <3>2. 0 + at + j = at + j
      OBVIOUS
    <3>3. QED
      BY <3>1, <3>2
  <2>2. QED
    BY <2>1
<1>2. SubSeq(b, at + 1, at + Len(code)) = code
  BY <1>1, Slice
<1>3. read_bytes(b, at, Len(code)) = Read(code, at + Len(code))
  BY <1>2 DEF read_bytes
<1>4. at + Len(code) \in Nat
  OBVIOUS
<1>5. QED
  BY <1>3, <1>4 DEF Exact

LEMMA Integer16Exact ==
  ASSUME NEW b, NEW at \in Nat, NEW n \in Int, Holds(Buffer(b), at, Two(n))
  PROVE  LET r == read_bytes(b, at, 2)
         IN  /\ n \in 0 .. Short - 1 => Exact(Integer16(b, at), Nat, at + 2, n)
             /\ - Short <= 2 * n /\ 2 * n < Short => Exact(Yield(r, Signed(r.out)), Nat, at + 2, n)
<1>. DEFINE r == read_bytes(b, at, 2)
<1>1. Exact(r, Nat, at + 2, Two(n))
  <2>1. Two(n) \in Seq(Byte) /\ Len(Two(n)) = 2
    BY TwoBytes
  <2>2. Exact(read_bytes(b, at, Len(Two(n))), Nat, at + Len(Two(n)), Two(n))
    BY <2>1, read_bytesExact
  <2>3. QED
    BY <2>1, <2>2
<1>2. ASSUME n \in 0 .. Short - 1 PROVE Exact(Integer16(b, at), Nat, at + 2, n)
  <2>1. r = Read(Two(n), at + 2) => Unsigned16(r.out) = n
    BY <1>2, Unsigned16Exact DEF Read
  <2>. HIDE DEF r
  <2>2. Exact(Yield(r, Unsigned16(r.out)), Nat, at + 2, n)
    BY <1>1, <2>1, YieldExact
  <2>3. QED
    BY <2>2 DEF Integer16, r
<1>3. ASSUME - Short <= 2 * n, 2 * n < Short PROVE Exact(Yield(r, Signed(r.out)), Nat, at + 2, n)
  <2>1. r = Read(Two(n), at + 2) => Signed(r.out) = n
    BY <1>3, SignedExact DEF Read
  <2>. HIDE DEF r
  <2>2. QED
    BY <1>1, <2>1, YieldExact
<1>4. QED
  BY <1>2, <1>3

LEMMA Integer32Exact ==
  ASSUME NEW b, NEW at \in Nat, NEW n \in 0 .. Word - 1, Holds(Buffer(b), at, write_bytes(n, 4))
  PROVE  Exact(Integer32(b, at), Nat, at + 4, n)
<1>. DEFINE r == read_bytes(b, at, 4)
            c == write_bytes(n, 4)
<1>0. c \in Seq(Byte) /\ Len(c) = 4
  <2>1. n \in Int
    BY Sizes
  <2>2. QED
    BY <2>1, FourBytes
<1>1. Exact(r, Nat, at + 4, c)
  <2>. HIDE DEF c
  <2>1. Exact(read_bytes(b, at, Len(c)), Nat, at + Len(c), c)
    BY <1>0, read_bytesExact DEF c
  <2>2. QED
    BY <1>0, <2>1
<1>2. r = Read(c, at + 4) => Unsigned32(r.out) = n
  BY Unsigned32Exact DEF Read
<1>. HIDE DEF r, c
<1>3. Exact(Yield(r, Unsigned32(r.out)), Nat, at + 4, n)
  BY <1>1, <1>2, YieldExact
<1>4. QED
  BY <1>3 DEF Integer32, r

\* What is not limited gives what it should.
LEMMA ExactRead ==
  ASSUME NEW r, NEW end \in Nat, NEW x, Exact(r, Nat, end, x)
  PROVE  r = Read(x, end)
  BY DEF Exact

LEMMA SizedExact ==
  ASSUME NEW b, NEW at \in Nat, NEW s \in Blobs, Holds(Buffer(b), at, Blob(s))
  PROVE  Exact(Sized(b, at), Nat, at + Len(Blob(s)), s)
<1>. DEFINE n == Integer32(b, at)
            i == at + 4
<1>1. s \in Seq(Byte) /\ Len(s) \in 0 .. Word - 1
  BY Sizes DEF Blobs
<1>2. /\ at + Len(Blob(s)) = i + Len(s) /\ i \in Nat /\ Len(s) \in Nat
      /\ Holds(Buffer(b), at, write_bytes(Len(s), 4)) /\ Holds(Buffer(b), i, s)
  BY <1>1, CountCode, BufferView DEF Blob
<1>3. n = Read(Len(s), i)
  BY <1>1, <1>2, Integer32Exact, ExactRead
<1>. HIDE DEF n, i
<1>4. Exact(read_bytes(b, i, Len(s)), Nat, i + Len(s), s)
  BY <1>1, <1>2, read_bytesExact
<1>5. Sized(b, at) = read_bytes(b, i, Len(s))
  BY <1>3 DEF Sized, n, Read
<1>6. QED
  BY <1>2, <1>4, <1>5

LEMMA NativePairExact ==
  ASSUME NEW b, NEW at \in Nat, NEW c \in Seq(Byte), NEW s \in Blobs,
         Holds(Buffer(b), at, c \o Blob(s)),
         NEW one, NEW x, Holds(Buffer(b), at, c) => Exact(one, Nat, at + Len(c), x)
  PROVE  Exact(Pair(b, one), Nat, at + Len(c \o Blob(s)), <<x, s>>)
<1>. DEFINE i == at + Len(c)
            k == Len(Blob(s))
            two == Sized(b, one.at)
<1>1. /\ Holds(Buffer(b), at, c) /\ Holds(Buffer(b), i, Blob(s)) /\ i \in Nat /\ k \in Nat
      /\ at + Len(c \o Blob(s)) = i + k
  BY PairCode, BufferView
<1>2. one = Read(x, i)
  BY <1>1, ExactRead
<1>3. one.at = i /\ one.out = x
  BY <1>2 DEF Read
<1>4. Exact(two, Nat, i + k, s)
  <2>. HIDE DEF i
  <2>1. QED
    BY <1>1, <1>3, SizedExact
<1>5. two = Read(s, i + k) => <<one.out, two.out>> = <<x, s>>
  BY <1>3 DEF Read
<1>. HIDE DEF two, i, k
<1>6. Exact(Yield(two, <<one.out, two.out>>), Nat, i + k, <<x, s>>)
  BY <1>4, <1>5, YieldExact
<1>7. QED
  BY <1>1, <1>6 DEF Pair, two

LEMMA ElementsExact ==
  ASSUME NEW b, NEW at \in Nat,
         NEW codes \in Seq(Seq(Byte)), Len(codes) < Word, Holds(Buffer(b), at, Counted(codes)),
         NEW xs, xs = [i \in 1 .. Len(codes) |-> xs[i]], NEW element,
         \A i \in 1 .. Len(codes) : \A o \in Nat :
            Holds(Buffer(b), o, codes[i]) => Exact(element[o], Nat, o + Len(codes[i]), xs[i])
  PROVE  Exact(Elements(b, at, element), Nat, at + Len(Counted(codes)), xs)
<1>. DEFINE r == Integer32(b, at)
            v == Buffer(b)
<1>1. Len(codes) \in 0 .. Word - 1
  BY Sizes
<1>2. Holds(v, at, write_bytes(Len(codes), 4)) => Exact(r, Nat, at + 4, Len(codes))
  BY <1>1, Integer32Exact
<1>3. Segment(Nat) /\ View(v)
  BY NatSegment, BufferView
<1>4. r.ok
  BY DEF Integer32, read_bytes, Read, Yield
<1>. HIDE DEF r, v
<1>5. Exact(IF r.ok THEN InTurn([i \in 1 .. r.out |-> element], r.at) ELSE r,
            Nat, at + Len(Counted(codes)), xs)
  BY <1>2, <1>3, CountedExact DEF v
<1>6. QED
  BY <1>4, <1>5 DEF Elements, r

(***************************************************************************)
(* The codes of the list types.                                            *)
(***************************************************************************)
LEMMA CountedCode ==
  ASSUME NEW codes \in Seq(Seq(Byte))
  PROVE  Counted(codes) \in Seq(Byte)
<1>. DEFINE n == Len(codes)
            s == FlattenSeq(codes)
<1>1. n \in Nat
  OBVIOUS
<1>2. s \in Seq(Byte)
  <2>1. PICK f : /\ f[n] = s
                 /\ \A i \in 0 .. n : f[i] \in Seq(Byte)
    BY FlattenDefined
  <2>2. n \in 0 .. n
    BY <1>1
  <2>. HIDE DEF n, s
  <2>3. QED
    BY <2>1, <2>2
<1>3. write_bytes(n, 4) \in Seq(Byte)
  <2>1. n \in Int
    BY <1>1
  <2>2. QED
    BY <2>1, FourBytes
<1>. HIDE DEF n, s
<1>4. write_bytes(n, 4) \o s \in Seq(Byte)
  BY <1>2, <1>3, ConcatProperties
<1>5. QED
  BY <1>4 DEF Counted, n, s

StringCodes(x)  == [i \in DOMAIN x |-> Blob(x[i])]
CompanyCodes(x) == [i \in DOMAIN x |-> write_bytes(x[i].companyId, 2) \o Blob(x[i].data)]
EntryCodes(x, keys) == [i \in DOMAIN keys |-> Blob(keys[i]) \o Blob(x[keys[i]])]

LEMMA StringCodesType ==
  ASSUME NEW x \in Seq(Blobs)
  PROVE  /\ StringCodes(x) \in Seq(Seq(Byte)) /\ Len(StringCodes(x)) = Len(x)
         /\ \A i \in 1 .. Len(x) : x[i] \in Blobs /\ StringCodes(x)[i] = Blob(x[i])
<1>1. DOMAIN x = 1 .. Len(x) /\ Len(x) \in Nat /\ \A i \in 1 .. Len(x) : x[i] \in Blobs
  OBVIOUS
<1>2. \A i \in 1 .. Len(x) : Blob(x[i]) \in Seq(Byte)
  BY <1>1, BlobCode
<1>3. QED
  BY <1>1, <1>2 DEF StringCodes

LEMMA CompanyCodesType ==
  ASSUME NEW x \in Seq(Companies)
  PROVE  /\ CompanyCodes(x) \in Seq(Seq(Byte)) /\ Len(CompanyCodes(x)) = Len(x)
         /\ \A i \in 1 .. Len(x) :
              /\ x[i] \in Companies
              /\ CompanyCodes(x)[i] = Two(x[i].companyId) \o Blob(x[i].data)
              /\ Two(x[i].companyId) \in Seq(Byte) /\ Len(Two(x[i].companyId)) = 2
<1>1. DOMAIN x = 1 .. Len(x) /\ Len(x) \in Nat /\ \A i \in 1 .. Len(x) : x[i] \in Companies
  OBVIOUS
<1>2. ASSUME NEW i \in 1 .. Len(x)
      PROVE  /\ Two(x[i].companyId) \in Seq(Byte) /\ Len(Two(x[i].companyId)) = 2
             /\ Two(x[i].companyId) \o Blob(x[i].data) \in Seq(Byte)
             /\ write_bytes(x[i].companyId, 2) = Two(x[i].companyId)
  <2>1. x[i].companyId \in 0 .. Short - 1 /\ x[i].data \in Blobs
    BY <1>1 DEF Companies
  <2>2. x[i].companyId \in Int
    BY <2>1, Sizes
  <2>. DEFINE t == Two(x[i].companyId)
              u == Blob(x[i].data)
  <2>3. t \in Seq(Byte) /\ Len(t) = 2 /\ u \in Seq(Byte)
    BY <2>1, <2>2, TwoBytes, BlobCode
  <2>4. write_bytes(x[i].companyId, 2) = t
    BY DEF write_bytes
  <2>. HIDE DEF t, u
  <2>5. t \o u \in Seq(Byte)
    BY <2>3, ConcatProperties
  <2>6. QED
    BY <2>3, <2>4, <2>5 DEF t, u
<1>. DEFINE c(i) == Two(x[i].companyId) \o Blob(x[i].data)
<1>3. CompanyCodes(x) = [i \in 1 .. Len(x) |-> c(i)]
  BY <1>1, <1>2 DEF CompanyCodes
<1>4. \A i \in 1 .. Len(x) : c(i) \in Seq(Byte)
  BY <1>2
<1>. HIDE DEF c
<1>5. CompanyCodes(x) \in Seq(Seq(Byte)) /\ Len(CompanyCodes(x)) = Len(x)
  BY <1>1, <1>3, <1>4
<1>6. \A i \in 1 .. Len(x) : CompanyCodes(x)[i] = c(i)
  BY <1>3
<1>7. QED
  BY <1>1, <1>2, <1>5, <1>6 DEF c

\* SetToSeq has every element of a finite set, once.
LEMMA KeysOf ==
  ASSUME NEW D, IsFiniteSet(D)
  PROVE  LET keys == SetToSeq(D)
         IN  /\ keys \in Seq(D) /\ Len(keys) = Cardinality(D) /\ Cardinality(D) \in Nat
             /\ \A i, j \in 1 .. Cardinality(D) : keys[i] = keys[j] => i = j
             /\ \A d \in D : \E i \in 1 .. Cardinality(D) : keys[i] = d
<1>. DEFINE n == Cardinality(D)
            keys == SetToSeq(D)
<1>1. n \in Nat /\ ExistsBijection(1 .. n, D)
  BY FS_CardinalityType
<1>2. \E f \in [1 .. n -> D] : IsInjective(f)
  BY <1>1 DEF ExistsBijection, Bijection, Injection, IsInjective
<1>3. keys \in [1 .. n -> D] /\ IsInjective(keys)
  BY <1>2 DEF SetToSeq
<1>. HIDE DEF keys
<1>4. keys \in Seq(D) /\ Len(keys) = n
  BY <1>1, <1>3
<1>5. \A i, j \in 1 .. n : keys[i] = keys[j] => i = j
  BY <1>3 DEF IsInjective
<1>6. keys \in Surjection(1 .. n, D)
  <2>1. keys \in Injection(1 .. n, D)
    BY <1>3, <1>5 DEF Injection, IsInjective
  <2>2. Cardinality(1 .. n) = n
    BY <1>1, FS_Interval
  <2>3. QED
    BY <2>1, <2>2, FS_Injection
<1>7. \A d \in D : \E i \in 1 .. n : keys[i] = d
  BY <1>3, <1>6 DEF Surjection
<1>8. QED
  BY <1>1, <1>4, <1>5, <1>7 DEF keys

LEMMA EntryCodesType ==
  ASSUME NEW x, IsValue("map", x)
  PROVE  LET keys == SetToSeq(DOMAIN x)
             codes == EntryCodes(x, keys)
         IN  /\ codes \in Seq(Seq(Byte)) /\ Len(codes) = Len(keys) /\ Len(codes) < Word
             /\ Len(keys) \in Nat /\ DOMAIN keys = 1 .. Len(keys)
             /\ \A i \in 1 .. Len(keys) :
                  /\ keys[i] \in DOMAIN x /\ keys[i] \in Blobs /\ x[keys[i]] \in Blobs
                  /\ codes[i] = Blob(keys[i]) \o Blob(x[keys[i]])
                  /\ Blob(keys[i]) \in Seq(Byte)
<1>. DEFINE D == DOMAIN x
            keys == SetToSeq(D)
            n == Cardinality(D)
            c(i) == Blob(keys[i]) \o Blob(x[keys[i]])
<1>1. x \in [D -> Blobs] /\ D \subseteq Blobs /\ IsFiniteSet(D) /\ n < Word
  BY DEF IsValue
<1>2. keys \in Seq(D) /\ Len(keys) = n /\ n \in Nat
  BY <1>1, KeysOf
<1>. HIDE DEF keys, n, D
<1>3. DOMAIN keys = 1 .. n /\ \A i \in 1 .. n : keys[i] \in D
  BY <1>2
<1>4. ASSUME NEW i \in 1 .. n
      PROVE  /\ keys[i] \in D /\ keys[i] \in Blobs /\ x[keys[i]] \in Blobs
             /\ Blob(keys[i]) \in Seq(Byte) /\ c(i) \in Seq(Byte)
  <2>1. keys[i] \in D /\ keys[i] \in Blobs /\ x[keys[i]] \in Blobs
    BY <1>1, <1>3
  <2>. DEFINE s == Blob(keys[i])
              t == Blob(x[keys[i]])
  <2>2. s \in Seq(Byte) /\ t \in Seq(Byte)
    BY <2>1, BlobCode
  <2>. HIDE DEF s, t
  <2>3. s \o t \in Seq(Byte)
    BY <2>2, ConcatProperties
  <2>4. QED
    BY <2>1, <2>2, <2>3 DEF s, t
<1>5. EntryCodes(x, keys) = [i \in 1 .. n |-> c(i)]
  BY <1>3 DEF EntryCodes
<1>. HIDE DEF c
<1>6. EntryCodes(x, keys) \in Seq(Seq(Byte)) /\ Len(EntryCodes(x, keys)) = n
  BY <1>2, <1>4, <1>5
<1>7. \A i \in 1 .. n : EntryCodes(x, keys)[i] = c(i)
  BY <1>5
<1>8. QED
  BY <1>1, <1>2, <1>3, <1>4, <1>6, <1>7 DEF keys, c, D

\* What a field of each type is encoded as is bytes.
LEMMA FieldCode ==
  ASSUME NEW type \in FieldTypes, NEW x, IsValue(type, x)
  PROVE  encode_field(type, x) \in Seq(Byte)
<1>1. CASE type = "bool"
  <2>1. encode_field(type, x) = <<IF x THEN 1 ELSE 0>>
    BY <1>1 DEF encode_field
  <2>2. 0 \in Byte /\ 1 \in Byte
    BY Sizes DEF Byte
  <2>3. QED
    BY <2>1, <2>2
<1>2. CASE type \in {"i16", "u16"}
  <2>1. x \in Int
    <3>1. CASE type = "i16"
      BY <3>1 DEF IsValue
    <3>2. CASE type = "u16"
      <4>1. x \in 0 .. Short - 1
        BY <3>2 DEF IsValue
      <4>2. QED
        BY <4>1, Sizes
    <3>3. QED
      BY <1>2, <3>1, <3>2
  <2>2. encode_field(type, x) = Two(x)
    BY <1>2 DEF encode_field, write_bytes
  <2>3. QED
    BY <2>1, <2>2, TwoBytes
<1>3. CASE type = "u32"
  <2>1. x \in Int
    BY <1>3, Sizes DEF IsValue
  <2>2. encode_field(type, x) = write_bytes(x, 4)
    BY <1>3 DEF encode_field
  <2>3. QED
    BY <2>1, <2>2, FourBytes
<1>4. CASE type \in {"str", "bytes"}
  <2>1. x \in Blobs /\ encode_field(type, x) = Blob(x)
    BY <1>4 DEF IsValue, encode_field
  <2>2. QED
    BY <2>1, BlobCode
<1>5. CASE type = "strs"
  <2>1. x \in Seq(Blobs) /\ encode_field(type, x) = Counted(StringCodes(x))
    BY <1>5 DEF IsValue, encode_field, StringCodes
  <2>2. QED
    BY <2>1, StringCodesType, CountedCode
<1>6. CASE type = "mfrs"
  <2>1. x \in Seq(Companies) /\ encode_field(type, x) = Counted(CompanyCodes(x))
    BY <1>6 DEF IsValue, encode_field, CompanyCodes
  <2>2. QED
    BY <2>1, CompanyCodesType, CountedCode
<1>7. CASE type = "map"
  <2>1. encode_field(type, x) = Counted(EntryCodes(x, SetToSeq(DOMAIN x)))
    BY <1>7 DEF encode_field, EntryCodes
  <2>2. QED
    BY <1>7, <2>1, EntryCodesType, CountedCode
<1>8. QED
  BY <1>1, <1>2, <1>3, <1>4, <1>5, <1>6, <1>7 DEF FieldTypes

\* The map with the entries of a map, in any order, is that map.
LEMMA EntriesOf ==
  ASSUME NEW x, IsValue("map", x)
  PROVE  LET keys == SetToSeq(DOMAIN x)
         IN  Entries([i \in 1 .. Len(keys) |-> <<keys[i], x[keys[i]]>>]) = x
<1>. DEFINE D == DOMAIN x
            keys == SetToSeq(D)
            n == Len(keys)
            pairs == [i \in 1 .. n |-> <<keys[i], x[keys[i]]>>]
            at(key) == {i \in DOMAIN pairs : pairs[i][1] = key}
            last(key) == CHOOSE i \in at(key) : \A j \in at(key) : j <= i
<1>1. x = [d \in D |-> x[d]] /\ IsFiniteSet(D)
  BY DEF IsValue
<1>2. /\ keys \in Seq(D) /\ n \in Nat
      /\ \A i, j \in 1 .. n : keys[i] = keys[j] => i = j
      /\ \A d \in D : \E i \in 1 .. n : keys[i] = d
  BY <1>1, KeysOf
<1>. HIDE DEF keys, n
<1>3. \A i \in 1 .. n : keys[i] \in D
  BY <1>2 DEF n
<1>4. DOMAIN pairs = 1 .. n /\ \A i \in 1 .. n : pairs[i][1] = keys[i] /\ pairs[i][2] = x[keys[i]]
  OBVIOUS
<1>. HIDE DEF pairs
<1>5. {p[1] : p \in Range(pairs)} = D
  <2>1. \A p \in Range(pairs) : p[1] \in D
    BY <1>3, <1>4 DEF Range
  <2>2. ASSUME NEW d \in D PROVE \E p \in Range(pairs) : p[1] = d
    <3>1. PICK i \in 1 .. n : keys[i] = d
      BY <1>2
    <3>2. pairs[i] \in Range(pairs) /\ pairs[i][1] = d
      BY <3>1, <1>4 DEF Range
    <3>3. QED
      BY <3>2
  <2>3. QED
    BY <2>1, <2>2
<1>6. ASSUME NEW d \in D PROVE pairs[last(d)][2] = x[d]
  <2>1. PICK i \in 1 .. n : keys[i] = d
    BY <1>2
  <2>2. at(d) = {i}
    BY <2>1, <1>2, <1>4
  <2>3. i \in at(d) /\ \A j \in at(d) : j <= i
    BY <2>2, <2>1, <1>2
  <2>4. last(d) \in at(d)
    <3>. HIDE DEF at
    <3>1. QED
      BY <2>3
  <2>5. last(d) = i
    BY <2>2, <2>4
  <2>. HIDE DEF last
  <2>6. QED
    BY <2>1, <2>5, <1>4
<1>7. Entries(pairs) = [key \in D |-> pairs[last(key)][2]]
  BY <1>5 DEF Entries
<1>. HIDE DEF last
<1>8. Entries(pairs) = x
  BY <1>1, <1>6, <1>7
<1>9. QED
  BY <1>8 DEF pairs, n, keys

(***************************************************************************)
(* A field of each type.                                                   *)
(***************************************************************************)
\* GlazeCodec reads from what encode_field wrote the value it was given, or throws
\* where the view ends before.
LEMMA FieldExact ==
  ASSUME NEW v, View(v), NEW at \in Nat, NEW type \in FieldTypes, NEW x, IsValue(type, x),
         Holds(v, at, encode_field(type, x))
  PROVE  Exact(readField(type, v, at), Inside(v), at + Len(encode_field(type, x)), x)
<1>. DEFINE code == encode_field(type, x)
<1>1. CASE type = "bool"
  <2>1. x \in BOOLEAN /\ code = <<IF x THEN 1 ELSE 0>> /\ readField(type, v, at) = readBool(v, at)
    BY <1>1 DEF IsValue, encode_field, readField
  <2>2. Len(<<IF x THEN 1 ELSE 0>>) = 1
    OBVIOUS
  <2>. HIDE DEF code
  <2>3. Exact(readBool(v, at), Inside(v), at + 1, x)
    BY <2>1, BoolExact DEF code
  <2>4. QED
    BY <2>1, <2>2, <2>3 DEF code
<1>2. CASE type = "i16"
  <2>1. x \in Int /\ - Short <= 2 * x /\ 2 * x < Short
    BY <1>2 DEF IsValue
  <2>2. code = Two(x) /\ readField(type, v, at) = readInt16(v, at)
    BY <1>2 DEF encode_field, readField, write_bytes
  <2>3. Len(code) = 2
    BY <2>1, <2>2, TwoBytes
  <2>. HIDE DEF code
  <2>4. Exact(readInt16(v, at), Inside(v), at + 2, x)
    BY <2>1, <2>2, Int16Exact DEF code
  <2>5. QED
    BY <2>2, <2>3, <2>4 DEF code
<1>3. CASE type = "u16"
  <2>1. x \in 0 .. Short - 1 /\ x \in Int
    <3>1. x \in 0 .. Short - 1
      BY <1>3 DEF IsValue
    <3>2. QED
      BY <3>1, Sizes
  <2>2. code = Two(x) /\ readField(type, v, at) = readUint16(v, at)
    BY <1>3 DEF encode_field, readField, write_bytes
  <2>3. Len(code) = 2
    BY <2>1, <2>2, TwoBytes
  <2>. HIDE DEF code
  <2>4. Exact(readUint16(v, at), Inside(v), at + 2, x)
    BY <2>1, <2>2, Uint16Exact DEF code
  <2>5. QED
    BY <2>2, <2>3, <2>4 DEF code
<1>4. CASE type = "u32"
  <2>1. x \in 0 .. Word - 1 /\ x \in Int
    <3>1. x \in 0 .. Word - 1
      BY <1>4 DEF IsValue
    <3>2. QED
      BY <3>1, Sizes
  <2>2. code = write_bytes(x, 4) /\ readField(type, v, at) = readUint32(v, at)
    BY <1>4 DEF encode_field, readField
  <2>3. Len(code) = 4
    BY <2>1, <2>2, FourBytes
  <2>. HIDE DEF code
  <2>4. Exact(readUint32(v, at), Inside(v), at + 4, x)
    BY <2>1, <2>2, Uint32Exact DEF code
  <2>5. QED
    BY <2>2, <2>3, <2>4 DEF code
<1>5. CASE type \in {"str", "bytes"}
  <2>1. x \in Blobs /\ code = Blob(x) /\ readField(type, v, at) = readBlob(v, at)
    BY <1>5 DEF IsValue, encode_field, readField
  <2>. HIDE DEF code
  <2>2. QED
    BY <2>1, BlobExact DEF code
<1>6. CASE type = "strs"
  <2>. DEFINE codes == StringCodes(x)
              element == [o \in Nat |-> readBlob(v, o)]
  <2>1. /\ x \in Seq(Blobs) /\ Len(x) < Word
        /\ code = Counted(codes) /\ readField(type, v, at) = readMany(v, at, element)
    BY <1>6 DEF IsValue, encode_field, readField, StringCodes
  <2>2. /\ codes \in Seq(Seq(Byte)) /\ Len(codes) = Len(x)
        /\ \A i \in 1 .. Len(x) : x[i] \in Blobs /\ codes[i] = Blob(x[i])
        /\ x = [i \in 1 .. Len(x) |-> x[i]]
    BY <2>1, StringCodesType
  <2>. HIDE DEF codes
  <2>3. \A i \in 1 .. Len(codes) : \A o \in Nat :
          Holds(v, o, codes[i]) => Exact(element[o], Inside(v), o + Len(codes[i]), x[i])
    BY <2>2, BlobExact
  <2>. HIDE DEF element
  <2>4. Exact(readMany(v, at, element), Inside(v), at + Len(Counted(codes)), x)
    BY <2>1, <2>2, <2>3, ManyExact
  <2>5. QED
    BY <2>1, <2>4
<1>7. CASE type = "mfrs"
  <2>. DEFINE codes == CompanyCodes(x)
              element == [o \in Nat |-> readCompany(v, o)]
  <2>1. /\ x \in Seq(Companies) /\ Len(x) < Word
        /\ code = Counted(codes) /\ readField(type, v, at) = readMany(v, at, element)
    BY <1>7 DEF IsValue, encode_field, readField, CompanyCodes
  <2>2. /\ codes \in Seq(Seq(Byte)) /\ Len(codes) = Len(x)
        /\ \A i \in 1 .. Len(x) :
             /\ x[i] \in Companies
             /\ codes[i] = Two(x[i].companyId) \o Blob(x[i].data)
             /\ Two(x[i].companyId) \in Seq(Byte) /\ Len(Two(x[i].companyId)) = 2
        /\ x = [i \in 1 .. Len(x) |-> x[i]]
    BY <2>1, CompanyCodesType
  <2>. HIDE DEF codes
  <2>3. ASSUME NEW i \in 1 .. Len(codes), NEW o \in Nat, Holds(v, o, codes[i])
        PROVE  Exact(element[o], Inside(v), o + Len(codes[i]), x[i])
    <3>. DEFINE id == x[i].companyId
                s == x[i].data
                r == readPair(v, readUint16(v, o))
    <3>1. id \in 0 .. Short - 1 /\ s \in Blobs /\ x[i] = [companyId |-> id, data |-> s]
      BY <2>2 DEF Companies
    <3>2. codes[i] = Two(id) \o Blob(s) /\ Two(id) \in Seq(Byte) /\ Len(Two(id)) = 2
      BY <2>2
    <3>. HIDE DEF id, s
    <3>3. Holds(v, o, Two(id)) => Exact(readUint16(v, o), Inside(v), o + Len(Two(id)), id)
      BY <3>1, <3>2, Uint16Exact
    <3>4. Exact(r, Inside(v), o + Len(codes[i]), <<id, s>>)
      BY <2>3, <3>1, <3>2, <3>3, PairExact
    <3>5. r = Read(<<id, s>>, o + Len(codes[i])) => Company(r.out) = x[i]
      BY <3>1 DEF Read, Company
    <3>. HIDE DEF r
    <3>6. Exact(Yield(r, Company(r.out)), Inside(v), o + Len(codes[i]), x[i])
      BY <3>4, <3>5, YieldExact
    <3>7. QED
      BY <3>6 DEF readCompany, r
  <2>. HIDE DEF element
  <2>4. Exact(readMany(v, at, element), Inside(v), at + Len(Counted(codes)), x)
    BY <2>1, <2>2, <2>3, ManyExact
  <2>5. QED
    BY <2>1, <2>4
<1>8. CASE type = "map"
  <2>. DEFINE keys == SetToSeq(DOMAIN x)
              codes == EntryCodes(x, keys)
              element == [o \in Nat |-> readPair(v, readBlob(v, o))]
              pairs == [i \in 1 .. Len(keys) |-> <<keys[i], x[keys[i]]>>]
              r == readMany(v, at, element)
  <2>0. IsValue("map", x)
    BY <1>8
  <2>1. code = Counted(codes) /\ readField(type, v, at) = Yield(r, Entries(r.out))
    BY <1>8 DEF encode_field, readField, EntryCodes
  <2>2. /\ codes \in Seq(Seq(Byte)) /\ Len(codes) = Len(keys) /\ Len(codes) < Word
        /\ \A i \in 1 .. Len(keys) :
             /\ keys[i] \in Blobs /\ x[keys[i]] \in Blobs
             /\ codes[i] = Blob(keys[i]) \o Blob(x[keys[i]])
             /\ Blob(keys[i]) \in Seq(Byte)
    BY <2>0, EntryCodesType
  <2>3. Entries(pairs) = x
    BY <2>0, EntriesOf
  <2>. HIDE DEF codes, keys
  <2>4. ASSUME NEW i \in 1 .. Len(codes), NEW o \in Nat, Holds(v, o, codes[i])
        PROVE  Exact(element[o], Inside(v), o + Len(codes[i]), pairs[i])
    <3>. DEFINE s == keys[i]
                t == x[keys[i]]
    <3>1. /\ s \in Blobs /\ t \in Blobs /\ codes[i] = Blob(s) \o Blob(t) /\ Blob(s) \in Seq(Byte)
          /\ pairs[i] = <<s, t>>
      BY <2>2
    <3>. HIDE DEF s, t, pairs
    <3>2. Holds(v, o, Blob(s)) => Exact(readBlob(v, o), Inside(v), o + Len(Blob(s)), s)
      BY <3>1, BlobExact
    <3>3. Exact(readPair(v, readBlob(v, o)), Inside(v), o + Len(codes[i]), <<s, t>>)
      BY <2>4, <3>1, <3>2, PairExact
    <3>4. QED
      BY <3>1, <3>3
  <2>5. pairs = [i \in 1 .. Len(codes) |-> pairs[i]]
    BY <2>2
  <2>. HIDE DEF element, pairs
  <2>6. Exact(r, Inside(v), at + Len(Counted(codes)), pairs)
    BY <2>1, <2>2, <2>4, <2>5, ManyExact
  <2>7. r = Read(pairs, at + Len(Counted(codes))) => Entries(r.out) = x
    BY <2>3 DEF Read
  <2>. HIDE DEF r
  <2>8. Exact(Yield(r, Entries(r.out)), Inside(v), at + Len(Counted(codes)), x)
    BY <2>6, <2>7, YieldExact
  <2>9. QED
    BY <2>1, <2>8
<1>9. QED
  BY <1>1, <1>2, <1>3, <1>4, <1>5, <1>6, <1>7, <1>8 DEF FieldTypes

\* The native decode_field reads the same.
LEMMA NativeFieldExact ==
  ASSUME NEW b, NEW at \in Nat, NEW type \in FieldTypes, NEW x, IsValue(type, x),
         Holds(Buffer(b), at, encode_field(type, x))
  PROVE  Exact(decode_field(type, b, at), Nat, at + Len(encode_field(type, x)), x)
<1>. DEFINE code == encode_field(type, x)
<1>1. CASE type = "bool"
  <2>1. /\ x \in BOOLEAN /\ code = <<IF x THEN 1 ELSE 0>>
        /\ decode_field(type, b, at) = Read(b[at + 1] # 0, at + 1)
    BY <1>1 DEF IsValue, encode_field, decode_field
  <2>2. Len(code) = 1 /\ code[1] = IF x THEN 1 ELSE 0
    BY <2>1
  <2>3. b[0 + at + 1] = code[1] /\ 0 + at + 1 = at + 1
    BY <2>2 DEF Holds, Buffer
  <2>. HIDE DEF code
  <2>4. (b[at + 1] # 0) = x
    BY <2>1, <2>2, <2>3
  <2>5. Read(b[at + 1] # 0, at + 1) = Read(x, at + 1)
    BY <2>4
  <2>6. at + 1 \in Nat
    OBVIOUS
  <2>7. Exact(decode_field(type, b, at), Nat, at + 1, x)
    BY <2>1, <2>5, <2>6 DEF Exact
  <2>8. QED
    BY <2>2, <2>7 DEF code
<1>2. CASE type = "i16"
  <2>. DEFINE r == read_bytes(b, at, 2)
  <2>1. x \in Int /\ - Short <= 2 * x /\ 2 * x < Short
    BY <1>2 DEF IsValue
  <2>2. code = Two(x) /\ decode_field(type, b, at) = Yield(r, Signed(r.out))
    BY <1>2 DEF encode_field, decode_field, write_bytes
  <2>3. Len(code) = 2
    BY <2>1, <2>2, TwoBytes
  <2>. HIDE DEF code
  <2>4. Exact(Yield(r, Signed(r.out)), Nat, at + 2, x)
    BY <2>1, <2>2, Integer16Exact DEF code
  <2>5. QED
    BY <2>2, <2>3, <2>4 DEF code
<1>3. CASE type = "u16"
  <2>1. x \in 0 .. Short - 1 /\ x \in Int
    <3>1. x \in 0 .. Short - 1
      BY <1>3 DEF IsValue
    <3>2. QED
      BY <3>1, Sizes
  <2>2. code = Two(x) /\ decode_field(type, b, at) = Integer16(b, at)
    BY <1>3 DEF encode_field, decode_field, write_bytes
  <2>3. Len(code) = 2
    BY <2>1, <2>2, TwoBytes
  <2>. HIDE DEF code
  <2>4. Exact(Integer16(b, at), Nat, at + 2, x)
    BY <2>1, <2>2, Integer16Exact DEF code
  <2>5. QED
    BY <2>2, <2>3, <2>4 DEF code
<1>4. CASE type = "u32"
  <2>1. x \in 0 .. Word - 1 /\ x \in Int
    <3>1. x \in 0 .. Word - 1
      BY <1>4 DEF IsValue
    <3>2. QED
      BY <3>1, Sizes
  <2>2. code = write_bytes(x, 4) /\ decode_field(type, b, at) = Integer32(b, at)
    BY <1>4 DEF encode_field, decode_field
  <2>3. Len(code) = 4
    BY <2>1, <2>2, FourBytes
  <2>. HIDE DEF code
  <2>4. Exact(Integer32(b, at), Nat, at + 4, x)
    BY <2>1, <2>2, Integer32Exact DEF code
  <2>5. QED
    BY <2>2, <2>3, <2>4 DEF code
<1>5. CASE type \in {"str", "bytes"}
  <2>1. x \in Blobs /\ code = Blob(x) /\ decode_field(type, b, at) = Sized(b, at)
    BY <1>5 DEF IsValue, encode_field, decode_field
  <2>. HIDE DEF code
  <2>2. QED
    BY <2>1, SizedExact DEF code
<1>6. CASE type = "strs"
  <2>. DEFINE codes == StringCodes(x)
              element == [o \in Nat |-> Sized(b, o)]
  <2>1. /\ x \in Seq(Blobs) /\ Len(x) < Word
        /\ code = Counted(codes) /\ decode_field(type, b, at) = Elements(b, at, element)
    BY <1>6 DEF IsValue, encode_field, decode_field, StringCodes
  <2>2. /\ codes \in Seq(Seq(Byte)) /\ Len(codes) = Len(x)
        /\ \A i \in 1 .. Len(x) : x[i] \in Blobs /\ codes[i] = Blob(x[i])
        /\ x = [i \in 1 .. Len(x) |-> x[i]]
    BY <2>1, StringCodesType
  <2>. HIDE DEF codes
  <2>3. \A i \in 1 .. Len(codes) : \A o \in Nat :
          Holds(Buffer(b), o, codes[i]) => Exact(element[o], Nat, o + Len(codes[i]), x[i])
    BY <2>2, SizedExact
  <2>. HIDE DEF element
  <2>4. Exact(Elements(b, at, element), Nat, at + Len(Counted(codes)), x)
    BY <2>1, <2>2, <2>3, ElementsExact
  <2>5. QED
    BY <2>1, <2>4
<1>7. CASE type = "mfrs"
  <2>. DEFINE codes == CompanyCodes(x)
              element == [o \in Nat |-> Entry(b, o)]
  <2>1. /\ x \in Seq(Companies) /\ Len(x) < Word
        /\ code = Counted(codes) /\ decode_field(type, b, at) = Elements(b, at, element)
    BY <1>7 DEF IsValue, encode_field, decode_field, CompanyCodes
  <2>2. /\ codes \in Seq(Seq(Byte)) /\ Len(codes) = Len(x)
        /\ \A i \in 1 .. Len(x) :
             /\ x[i] \in Companies
             /\ codes[i] = Two(x[i].companyId) \o Blob(x[i].data)
             /\ Two(x[i].companyId) \in Seq(Byte) /\ Len(Two(x[i].companyId)) = 2
        /\ x = [i \in 1 .. Len(x) |-> x[i]]
    BY <2>1, CompanyCodesType
  <2>. HIDE DEF codes
  <2>3. ASSUME NEW i \in 1 .. Len(codes), NEW o \in Nat, Holds(Buffer(b), o, codes[i])
        PROVE  Exact(element[o], Nat, o + Len(codes[i]), x[i])
    <3>. DEFINE id == x[i].companyId
                s == x[i].data
                r == Pair(b, Integer16(b, o))
    <3>1. id \in 0 .. Short - 1 /\ s \in Blobs /\ x[i] = [companyId |-> id, data |-> s]
      BY <2>2 DEF Companies
    <3>2. codes[i] = Two(id) \o Blob(s) /\ Two(id) \in Seq(Byte) /\ Len(Two(id)) = 2
      BY <2>2
    <3>. HIDE DEF id, s
    <3>3. Holds(Buffer(b), o, Two(id)) => Exact(Integer16(b, o), Nat, o + Len(Two(id)), id)
      BY <3>1, <3>2, Integer16Exact
    <3>4. Exact(r, Nat, o + Len(codes[i]), <<id, s>>)
      BY <2>3, <3>1, <3>2, <3>3, NativePairExact
    <3>5. r = Read(<<id, s>>, o + Len(codes[i])) => Company(r.out) = x[i]
      BY <3>1 DEF Read, Company
    <3>. HIDE DEF r
    <3>6. Exact(Yield(r, Company(r.out)), Nat, o + Len(codes[i]), x[i])
      BY <3>4, <3>5, YieldExact
    <3>7. QED
      BY <3>6 DEF Entry, r
  <2>. HIDE DEF element
  <2>4. Exact(Elements(b, at, element), Nat, at + Len(Counted(codes)), x)
    BY <2>1, <2>2, <2>3, ElementsExact
  <2>5. QED
    BY <2>1, <2>4
<1>8. CASE type = "map"
  <2>. DEFINE keys == SetToSeq(DOMAIN x)
              codes == EntryCodes(x, keys)
              element == [o \in Nat |-> Pair(b, Sized(b, o))]
              pairs == [i \in 1 .. Len(keys) |-> <<keys[i], x[keys[i]]>>]
              r == Elements(b, at, element)
  <2>0. IsValue("map", x)
    BY <1>8
  <2>1. code = Counted(codes) /\ decode_field(type, b, at) = Yield(r, Entries(r.out))
    BY <1>8 DEF encode_field, decode_field, EntryCodes
  <2>2. /\ codes \in Seq(Seq(Byte)) /\ Len(codes) = Len(keys) /\ Len(codes) < Word
        /\ \A i \in 1 .. Len(keys) :
             /\ keys[i] \in Blobs /\ x[keys[i]] \in Blobs
             /\ codes[i] = Blob(keys[i]) \o Blob(x[keys[i]])
             /\ Blob(keys[i]) \in Seq(Byte)
    BY <2>0, EntryCodesType
  <2>3. Entries(pairs) = x
    BY <2>0, EntriesOf
  <2>. HIDE DEF codes, keys
  <2>4. ASSUME NEW i \in 1 .. Len(codes), NEW o \in Nat, Holds(Buffer(b), o, codes[i])
        PROVE  Exact(element[o], Nat, o + Len(codes[i]), pairs[i])
    <3>. DEFINE s == keys[i]
                t == x[keys[i]]
    <3>1. /\ s \in Blobs /\ t \in Blobs /\ codes[i] = Blob(s) \o Blob(t) /\ Blob(s) \in Seq(Byte)
          /\ pairs[i] = <<s, t>>
      BY <2>2
    <3>. HIDE DEF s, t, pairs
    <3>2. Holds(Buffer(b), o, Blob(s)) => Exact(Sized(b, o), Nat, o + Len(Blob(s)), s)
      BY <3>1, SizedExact
    <3>3. Exact(Pair(b, Sized(b, o)), Nat, o + Len(codes[i]), <<s, t>>)
      BY <2>4, <3>1, <3>2, NativePairExact
    <3>4. QED
      BY <3>1, <3>3
  <2>5. pairs = [i \in 1 .. Len(codes) |-> pairs[i]]
    BY <2>2
  <2>. HIDE DEF element, pairs
  <2>6. Exact(r, Nat, at + Len(Counted(codes)), pairs)
    BY <2>1, <2>2, <2>4, <2>5, ElementsExact
  <2>7. r = Read(pairs, at + Len(Counted(codes))) => Entries(r.out) = x
    BY <2>3 DEF Read
  <2>. HIDE DEF r
  <2>8. Exact(Yield(r, Entries(r.out)), Nat, at + Len(Counted(codes)), x)
    BY <2>6, <2>7, YieldExact
  <2>9. QED
    BY <2>1, <2>8
<1>9. QED
  BY <1>1, <1>2, <1>3, <1>4, <1>5, <1>6, <1>7, <1>8 DEF FieldTypes

(***************************************************************************)
(* Structs.                                                                *)
(***************************************************************************)
\* A list of at least one field, with a type that the codec knows for each and a
\* name of its own.
FieldList(list) ==
  /\ Len(list) \in Nat \ {0} /\ DOMAIN list = 1 .. Len(list)
  /\ \A i \in DOMAIN list : list[i][2] \in FieldTypes
  /\ \A i, j \in DOMAIN list : list[i][1] = list[j][1] => i = j

\* A struct with the fields of list, each a value of its type.
IsStruct(list, x) ==
  /\ x = [name \in Names(list) |-> x[name]]
  /\ \A i \in DOMAIN list : IsValue(list[i][2], x[list[i][1]])

Structs == DOMAIN fields

LEMMA AdapterList == FieldList(AdapterFields)
<1>1. Len(AdapterFields) = 11 /\ DOMAIN AdapterFields = 1 .. 11
  BY DEF AdapterFields
<1>2. \A i \in 1 .. 11 : AdapterFields[i][2] \in FieldTypes
  BY DEF AdapterFields, FieldTypes
<1>3. \A i, j \in 1 .. 11 : AdapterFields[i][1] = AdapterFields[j][1] => i = j
  BY DEF AdapterFields
<1>4. QED
  BY <1>1, <1>2, <1>3 DEF FieldList

LEMMA DeviceList == FieldList(DeviceFields)
<1>1. Len(DeviceFields) = 20 /\ DOMAIN DeviceFields = 1 .. 20
  BY DEF DeviceFields
<1>2. \A i \in 1 .. 20 : DeviceFields[i][2] \in FieldTypes
  BY DEF DeviceFields, FieldTypes
<1>3. \A i, j \in 1 .. 20 : DeviceFields[i][1] = DeviceFields[j][1] => i = j
  BY DEF DeviceFields
<1>4. QED
  BY <1>1, <1>2, <1>3 DEF FieldList

LEMMA GattCharList == FieldList(GattCharFields)
<1>1. Len(GattCharFields) = 10 /\ DOMAIN GattCharFields = 1 .. 10
  BY DEF GattCharFields
<1>2. \A i \in 1 .. 10 : GattCharFields[i][2] \in FieldTypes
  BY DEF GattCharFields, FieldTypes
<1>3. \A i, j \in 1 .. 10 : GattCharFields[i][1] = GattCharFields[j][1] => i = j
  BY DEF GattCharFields
<1>4. QED
  BY <1>1, <1>2, <1>3 DEF FieldList

LEMMA GattServiceList == FieldList(GattServiceFields)
<1>1. Len(GattServiceFields) = 5 /\ DOMAIN GattServiceFields = 1 .. 5
  BY DEF GattServiceFields
<1>2. \A i \in 1 .. 5 : GattServiceFields[i][2] \in FieldTypes
  BY DEF GattServiceFields, FieldTypes
<1>3. \A i, j \in 1 .. 5 : GattServiceFields[i][1] = GattServiceFields[j][1] => i = j
  BY DEF GattServiceFields
<1>4. QED
  BY <1>1, <1>2, <1>3 DEF FieldList

LEMMA GattDescList == FieldList(GattDescFields)
<1>1. Len(GattDescFields) = 5 /\ DOMAIN GattDescFields = 1 .. 5
  BY DEF GattDescFields
<1>2. \A i \in 1 .. 5 : GattDescFields[i][2] \in FieldTypes
  BY DEF GattDescFields, FieldTypes
<1>3. \A i, j \in 1 .. 5 : GattDescFields[i][1] = GattDescFields[j][1] => i = j
  BY DEF GattDescFields
<1>4. QED
  BY <1>1, <1>2, <1>3 DEF FieldList

LEMMA ResultLists == FieldList(ValueResultFields) /\ FieldList(ErrorFields)
<1>1. Len(ValueResultFields) = 2 /\ DOMAIN ValueResultFields = 1 .. 2
  BY DEF ValueResultFields
<1>2. \A i \in 1 .. 2 : ValueResultFields[i][2] \in FieldTypes
  BY DEF ValueResultFields, FieldTypes
<1>3. \A i, j \in 1 .. 2 : ValueResultFields[i][1] = ValueResultFields[j][1] => i = j
  BY DEF ValueResultFields
<1>4. Len(ErrorFields) = 3 /\ DOMAIN ErrorFields = 1 .. 3
  BY DEF ErrorFields
<1>5. \A i \in 1 .. 3 : ErrorFields[i][2] \in FieldTypes
  BY DEF ErrorFields, FieldTypes
<1>6. \A i, j \in 1 .. 3 : ErrorFields[i][1] = ErrorFields[j][1] => i = j
  BY DEF ErrorFields
<1>7. QED
  BY <1>1, <1>2, <1>3, <1>4, <1>5, <1>6 DEF FieldList

\* The two sides have the same lists: what _decodeAdapterProps and the others read
\* is what glz::meta encodes, field by field.
LEMMA ListsAgree == reads = fields
  BY DEF reads, fields, AdapterFields, DeviceFields, GattCharFields, GattServiceFields,
         GattDescFields, ValueResultFields, ErrorFields

LEMMA Lists == \A k \in Structs : FieldList(fields[k])
  BY AdapterList, DeviceList, GattCharList, GattServiceList, GattDescList, ResultLists
     DEF Structs, fields

\* A field is found where its name is.
LEMMA PositionOf ==
  ASSUME NEW list, FieldList(list), NEW i \in DOMAIN list
  PROVE  Position(list, list[i][1]) = i /\ list[i][1] \in Names(list)
<1>1. \A j \in DOMAIN list : list[j][1] = list[i][1] <=> j = i
  BY DEF FieldList
<1>2. QED
  BY <1>1 DEF Position, Names, Range

LEMMA NamesOf ==
  ASSUME NEW list, NEW name \in Names(list)
  PROVE  \E i \in DOMAIN list : list[i][1] = name
  BY DEF Names, Range

\* A struct made of values has them for its fields.
LEMMA ObjectFields ==
  ASSUME NEW list, FieldList(list), NEW values
  PROVE  /\ Object(list, values) = [name \in Names(list) |-> Object(list, values)[name]]
         /\ \A i \in DOMAIN list : Object(list, values)[list[i][1]] = values[i]
<1>1. ASSUME NEW i \in DOMAIN list PROVE Object(list, values)[list[i][1]] = values[i]
  BY PositionOf DEF Object
<1>2. QED
  BY <1>1 DEF Object

\* Made of its own fields, a struct is itself.
LEMMA ObjectOf ==
  ASSUME NEW list, FieldList(list), NEW x, x = [name \in Names(list) |-> x[name]]
  PROVE  Object(list, [i \in DOMAIN list |-> x[list[i][1]]]) = x
<1>. DEFINE values == [i \in DOMAIN list |-> x[list[i][1]]]
            o == Object(list, values)
<1>1. ASSUME NEW name \in Names(list) PROVE o[name] = x[name]
  <2>1. PICK i \in DOMAIN list : list[i][1] = name
    BY NamesOf
  <2>2. o[name] = values[i]
    BY <2>1, ObjectFields
  <2>3. QED
    BY <2>1, <2>2
<1>2. o = [name \in Names(list) |-> o[name]]
  BY ObjectFields
<1>. HIDE DEF o
<1>3. o = x
  BY <1>1, <1>2
<1>4. QED
  BY <1>3 DEF o

\* The codes of the fields of a struct.
FieldCodes(list, x) == [i \in DOMAIN list |-> encode_field(list[i][2], x[list[i][1]])]

LEMMA FieldCodesType ==
  ASSUME NEW list, FieldList(list), NEW x, IsStruct(list, x)
  PROVE  /\ FieldCodes(list, x) \in Seq(Seq(Byte)) /\ Len(FieldCodes(list, x)) = Len(list)
         /\ encode_struct(list, x) = FlattenSeq(FieldCodes(list, x))
         /\ encode_struct(list, x) \in Seq(Byte)
<1>. DEFINE codes == FieldCodes(list, x)
<1>1. \A i \in DOMAIN list : encode_field(list[i][2], x[list[i][1]]) \in Seq(Byte)
  BY FieldCode DEF FieldList, IsStruct
<1>2. DOMAIN list = 1 .. Len(list) /\ Len(list) \in Nat
  BY DEF FieldList
<1>3. codes = [i \in 1 .. Len(list) |-> encode_field(list[i][2], x[list[i][1]])]
  BY <1>2 DEF FieldCodes
<1>4. codes \in Seq(Seq(Byte)) /\ Len(codes) = Len(list)
  BY <1>1, <1>2, <1>3
<1>5. encode_struct(list, x) = FlattenSeq(codes)
  BY DEF encode_struct, FieldCodes
<1>. HIDE DEF codes
<1>6. FlattenSeq(codes) \in Seq(Byte)
  <2>1. PICK f : f[Len(codes)] = FlattenSeq(codes) /\ \A i \in 0 .. Len(codes) : f[i] \in Seq(Byte)
    BY <1>4, FlattenDefined
  <2>2. Len(codes) \in 0 .. Len(codes)
    BY <1>2, <1>4
  <2>3. QED
    BY <2>1, <2>2
<1>7. QED
  BY <1>4, <1>5, <1>6 DEF codes

\* Readers of the fields, each exact on what a field is encoded as, read the struct.
LEMMA FieldsExact ==
  ASSUME NEW list, FieldList(list), NEW x, IsStruct(list, x), NEW v, View(v), NEW at \in Nat,
         Holds(v, at, encode_struct(list, x)), NEW inside, Segment(inside), at \in inside,
         NEW readers, Len(readers) = Len(list),
         \A i \in 1 .. Len(list) : \A o \in Nat :
           Holds(v, o, encode_field(list[i][2], x[list[i][1]]))
             => Exact(readers[i][o], inside, o + Len(encode_field(list[i][2], x[list[i][1]])),
                      x[list[i][1]])
  PROVE  Exact(Yield(InTurn(readers, at), Object(list, InTurn(readers, at).out)),
               inside, at + Len(encode_struct(list, x)), x)
<1>. DEFINE codes == FieldCodes(list, x)
            xs == [i \in DOMAIN list |-> x[list[i][1]]]
            r == InTurn(readers, at)
<1>1. /\ codes \in Seq(Seq(Byte)) /\ Len(codes) = Len(list)
      /\ encode_struct(list, x) = FlattenSeq(codes)
  BY FieldCodesType
<1>2. DOMAIN list = 1 .. Len(list)
  BY DEF FieldList
<1>3. \A i \in 1 .. Len(list) : /\ codes[i] = encode_field(list[i][2], x[list[i][1]])
                                /\ xs[i] = x[list[i][1]]
  BY <1>2 DEF FieldCodes
<1>4. xs = [i \in 1 .. Len(list) |-> xs[i]]
  BY <1>2
<1>5. Object(list, xs) = x
  BY ObjectOf DEF IsStruct
<1>. HIDE DEF codes, xs
<1>6. Reads(readers, v, codes, inside, xs)
  BY <1>1, <1>3 DEF Reads
<1>7. Exact(r, inside, at + Len(FlattenSeq(codes)), xs)
  BY <1>1, <1>4, <1>6, InTurnExact
<1>8. r = Read(xs, at + Len(FlattenSeq(codes))) => Object(list, r.out) = x
  BY <1>5 DEF Read
<1>. HIDE DEF r
<1>9. Exact(Yield(r, Object(list, r.out)), inside, at + Len(FlattenSeq(codes)), x)
  BY <1>7, <1>8, YieldExact
<1>10. QED
  BY <1>1, <1>9 DEF r

\* GlazeCodec reads the struct that was encoded, and ends where its bytes end, in a
\* view that reaches that far; in a shorter one some read throws.
LEMMA StructExact ==
  ASSUME NEW list, FieldList(list), NEW x, IsStruct(list, x), NEW v, View(v), NEW at \in Nat,
         Holds(v, at, encode_struct(list, x)), at \in Inside(v)
  PROVE  Exact(decode(list, v, at), Inside(v), at + Len(encode_struct(list, x)), x)
<1>. DEFINE readers == [i \in DOMAIN list |-> [o \in Nat |-> readField(list[i][2], v, o)]]
            r == InTurn(readers, at)
<1>1. DOMAIN list = 1 .. Len(list) /\ Len(list) \in Nat
  BY DEF FieldList
<1>2. Len(readers) = Len(list)
  BY <1>1
<1>3. ASSUME NEW i \in 1 .. Len(list), NEW o \in Nat,
             Holds(v, o, encode_field(list[i][2], x[list[i][1]]))
      PROVE  Exact(readers[i][o], Inside(v),
                   o + Len(encode_field(list[i][2], x[list[i][1]])), x[list[i][1]])
  <2>1. readers[i][o] = readField(list[i][2], v, o)
    BY <1>1
  <2>2. list[i][2] \in FieldTypes /\ IsValue(list[i][2], x[list[i][1]])
    BY <1>1 DEF FieldList, IsStruct
  <2>. HIDE DEF readers
  <2>3. QED
    BY <1>3, <2>1, <2>2, FieldExact
<1>4. Segment(Inside(v))
  BY InsideSegment
<1>. HIDE DEF readers
<1>5. Exact(Yield(r, Object(list, r.out)), Inside(v), at + Len(encode_struct(list, x)), x)
  BY <1>2, <1>3, <1>4, FieldsExact
<1>6. QED
  BY <1>5 DEF decode, readers

\* glz::decode reads the same struct from whole bytes, to the same end.
LEMMA NativeStructExact ==
  ASSUME NEW list, FieldList(list), NEW x, IsStruct(list, x), NEW b, NEW at \in Nat,
         Holds(Buffer(b), at, encode_struct(list, x))
  PROVE  decode_struct(list, b, at) = Read(x, at + Len(encode_struct(list, x)))
<1>. DEFINE readers == [i \in DOMAIN list |-> [o \in Nat |-> decode_field(list[i][2], b, o)]]
            r == InTurn(readers, at)
<1>1. DOMAIN list = 1 .. Len(list) /\ Len(list) \in Nat
  BY DEF FieldList
<1>2. Len(readers) = Len(list)
  BY <1>1
<1>3. ASSUME NEW i \in 1 .. Len(list), NEW o \in Nat,
             Holds(Buffer(b), o, encode_field(list[i][2], x[list[i][1]]))
      PROVE  Exact(readers[i][o], Nat,
                   o + Len(encode_field(list[i][2], x[list[i][1]])), x[list[i][1]])
  <2>1. readers[i][o] = decode_field(list[i][2], b, o)
    BY <1>1
  <2>2. list[i][2] \in FieldTypes /\ IsValue(list[i][2], x[list[i][1]])
    BY <1>1 DEF FieldList, IsStruct
  <2>. HIDE DEF readers
  <2>3. QED
    BY <1>3, <2>1, <2>2, NativeFieldExact
<1>4. Segment(Nat) /\ View(Buffer(b))
  BY NatSegment, BufferView
<1>. HIDE DEF readers
<1>5. Exact(Yield(r, Object(list, r.out)), Nat, at + Len(encode_struct(list, x)), x)
  BY <1>2, <1>3, <1>4, FieldsExact
<1>6. at + Len(encode_struct(list, x)) \in Nat
  BY FieldCodesType
<1>7. QED
  BY <1>5, <1>6 DEF decode_struct, readers, Exact

(***************************************************************************)
(* The messages.                                                           *)
(***************************************************************************)
LEMMA EncodedTypes ==
  /\ \A t \in DOMAIN Encoded : t # 0 /\ Encoded[t] \in Structs
  /\ \A t \in DOMAIN EventType : t \in DOMAIN Encoded /\ EventType[t] = Encoded[t]
  /\ \A t \in DOMAIN ResultType : t \in DOMAIN Encoded /\ ResultType[t] = Encoded[t]
<1>1. \A t \in DOMAIN Encoded : t # 0 /\ Encoded[t] \in Structs
  BY DEF Encoded, Structs, fields
<1>2. \A t \in DOMAIN EventType : t \in DOMAIN Encoded /\ EventType[t] = Encoded[t]
  BY DEF EventType, Encoded
<1>3. \A t \in DOMAIN ResultType : t \in DOMAIN Encoded /\ ResultType[t] = Encoded[t]
  BY DEF ResultType, Encoded
<1>4. QED
  BY <1>1, <1>2, <1>3

\* What the code posts are structs.
LEMMA PostedStruct ==
  ASSUME NEW list, FieldList(list), NEW s \in Struct(list)
  PROVE  IsStruct(list, s)
<1>. DEFINE first == [i \in DOMAIN list |-> Sample(list[i][2])[1]]
<1>1. DOMAIN list = 1 .. Len(list) /\ Len(list) \in Nat
  BY DEF FieldList
<1>2. ASSUME NEW i \in DOMAIN list
      PROVE  /\ IsValue(list[i][2], first[i])
             /\ \A x \in Range(Sample(list[i][2])) : IsValue(list[i][2], x)
  <2>. DEFINE samples == Sample(list[i][2])
  <2>1. /\ Len(samples) \in Nat /\ Len(samples) >= 2 /\ DOMAIN samples = 1 .. Len(samples)
        /\ \A j \in DOMAIN samples : IsValue(list[i][2], samples[j])
    BY SampleAssumption DEF FieldList
  <2>2. first[i] = samples[1]
    OBVIOUS
  <2>. HIDE DEF samples, first
  <2>3. 1 \in DOMAIN samples
    BY <2>1
  <2>4. \A x \in Range(samples) : IsValue(list[i][2], x)
    BY <2>1 DEF Range
  <2>5. QED
    BY <2>1, <2>2, <2>3, <2>4 DEF samples
<1>. DEFINE made(i, a, b) == Object(list, [first EXCEPT ![i] = a, ![i + 1] = b])
            with(i) == {made(i, a, b) :
                          a \in Range(Sample(list[i][2])), b \in Range(Sample(list[i + 1][2]))}
<1>3. PICK i \in 1 .. Len(list) - 1 : s \in with(i)
  <2>1. Struct(list) = UNION {with(i) : i \in 1 .. Len(list) - 1}
    BY DEF Struct
  <2>. HIDE DEF with
  <2>2. QED
    BY <2>1
<1>8. PICK a \in Range(Sample(list[i][2])), b \in Range(Sample(list[i + 1][2])) :
        s = made(i, a, b)
  <2>. HIDE DEF made
  <2>1. QED
    BY <1>3
<1>. DEFINE values == [first EXCEPT ![i] = a, ![i + 1] = b]
<1>4. i \in DOMAIN list /\ i + 1 \in DOMAIN list
  BY <1>1
<1>5. ASSUME NEW j \in DOMAIN list PROVE IsValue(list[j][2], values[j])
  <2>1. values[j] = IF j = i + 1 THEN b ELSE IF j = i THEN a ELSE first[j]
    BY <1>1
  <2>. HIDE DEF values, first
  <2>2. CASE j = i + 1
    BY <2>1, <2>2, <1>2, <1>4
  <2>3. CASE j = i /\ j # i + 1
    BY <2>1, <2>3, <1>2, <1>4
  <2>4. CASE j # i /\ j # i + 1
    BY <2>1, <2>4, <1>2
  <2>5. QED
    BY <2>2, <2>3, <2>4
<1>. HIDE DEF values
<1>6. s = Object(list, values)
  BY <1>8 DEF values
<1>7. QED
  BY <1>5, <1>6, ObjectFields DEF IsStruct

\* What is known of the message at each of its stages.
Posted == tag \in DOMAIN Encoded /\ IsStruct(fields[Encoded[tag]], sent)

Arrived(v) ==
  \E before \in Padding, n \in 1 .. Len(Message) :
    v = [buffer |-> [i \in 1 .. before |-> 1] \o Message, base |-> before, length |-> n]

MessageInv ==
  \/ tag = 0 /\ view = Nothing /\ got = Nothing
  \/ Posted /\ view = Nothing /\ got = Nothing
  \/ Posted /\ Arrived(view) /\ (got = Nothing \/ got = decode(fields[Encoded[tag]], view, 1))

LEMMA ArrivedSomething ==
  ASSUME NEW v, Arrived(v)
  PROVE  v # Nothing
<1>1. PICK buffer, before, n : v = [buffer |-> buffer, base |-> before, length |-> n]
  BY DEF Arrived
<1>2. "base" \in DOMAIN v
  BY <1>1
<1>3. DOMAIN Nothing = {}
  BY DEF Nothing
<1>4. QED
  BY <1>2, <1>3

LEMMA MessageInit == Init => MessageInv
  BY DEF Init, MessageInv

LEMMA MessageNext == MessageInv /\ [Next]_vars => MessageInv'
<1>. SUFFICES ASSUME MessageInv, [Next]_vars PROVE MessageInv'
  OBVIOUS
<1>1. ASSUME NEW t \in DOMAIN Encoded, post_glaze(t) PROVE MessageInv'
  <2>1. tag = 0 /\ tag' = t /\ sent' \in Struct(fields[Encoded[t]]) /\ view' = view /\ got' = got
    BY <1>1 DEF post_glaze
  <2>2. view = Nothing /\ got = Nothing
    BY <2>1, EncodedTypes DEF MessageInv, Posted
  <2>3. IsStruct(fields[Encoded[t]], sent')
    BY <2>1, EncodedTypes, Lists, PostedStruct
  <2>4. Posted'
    BY <2>1, <2>3 DEF Posted
  <2>5. QED
    BY <2>1, <2>2, <2>4 DEF MessageInv
<1>2. ASSUME Arrive PROVE MessageInv'
  <2>1. /\ tag # 0 /\ view = Nothing /\ UNCHANGED <<tag, sent, got>>
        /\ \E before \in Padding, n \in 1 .. Len(Message) :
             view' = [buffer |-> [i \in 1 .. before |-> 1] \o Message, base |-> before, length |-> n]
    BY <1>2 DEF Arrive
  <2>2. Message' = Message
    BY <2>1 DEF Message
  <2>3. Arrived(view)'
    BY <2>1, <2>2 DEF Arrived
  <2>4. Posted /\ (got = Nothing \/ got = decode(fields[Encoded[tag]], view, 1))
    BY <2>1 DEF MessageInv
  <2>5. Posted'
    BY <2>1, <2>4 DEF Posted
  <2>6. got' = Nothing
    BY <2>1, ArrivedSomething DEF MessageInv
  <2>7. QED
    BY <2>3, <2>5, <2>6 DEF MessageInv
<1>3. ASSUME NEW types, Receive(types), \A t \in DOMAIN types : types[t] = Encoded[t] PROVE MessageInv'
  <2>1. /\ view # Nothing /\ tag \in DOMAIN types /\ UNCHANGED <<tag, sent, view>>
        /\ got' = decode(reads[types[tag]], view, 1)
    BY <1>3 DEF Receive
  <2>2. got' = decode(fields[Encoded[tag]], view, 1)
    BY <2>1, <1>3, ListsAgree
  <2>3. Posted /\ Arrived(view)
    BY <2>1 DEF MessageInv
  <2>4. Posted'
    BY <2>1, <2>3 DEF Posted
  <2>5. Arrived(view)'
    BY <2>1, <2>3 DEF Arrived, Message
  <2>6. (got = decode(fields[Encoded[tag]], view, 1))'
    BY <2>1, <2>2
  <2>7. QED
    BY <2>4, <2>5, <2>6 DEF MessageInv
<1>4. CASE UNCHANGED vars
  <2>1. tag' = tag /\ sent' = sent /\ view' = view /\ got' = got
    BY <1>4 DEF vars
  <2>2. Message' = Message
    BY <2>1 DEF Message
  <2>3. QED
    BY <2>1, <2>2 DEF MessageInv, Posted, Arrived
<1>5. QED
  BY <1>1, <1>2, <1>3, <1>4, EncodedTypes DEF Next, OnEvent, OnResult

\* The bytes of a message from the second on are those of its struct.
LEMMA MessageHolds ==
  ASSUME Posted
  PROVE  /\ Message \in Seq(Nat) /\ Len(Message) = 1 + Len(encode_struct(fields[Encoded[tag]], sent))
         /\ Holds(Buffer(Message), 1, encode_struct(fields[Encoded[tag]], sent))
<1>. DEFINE code == encode_struct(fields[Encoded[tag]], sent)
<1>1. FieldList(fields[Encoded[tag]]) /\ IsStruct(fields[Encoded[tag]], sent) /\ tag \in Nat
  BY EncodedTypes, Lists DEF Posted, Encoded
<1>2. code \in Seq(Byte)
  BY <1>1, FieldCodesType
<1>3. code \in Seq(Nat)
  BY <1>2, Sizes DEF Byte
<1>4. Message = <<tag>> \o code
  BY DEF Message
<1>. HIDE DEF code
<1>5. /\ <<tag>> \in Seq(Nat) /\ Len(<<tag>>) = 1
  BY <1>1
<1>6. /\ Message \in Seq(Nat) /\ Len(Message) = 1 + Len(code)
      /\ \A j \in 1 .. Len(code) : Message[1 + j] = code[j]
  BY <1>3, <1>4, <1>5
<1>7. Holds(Buffer(Message), 1, code)
  <2>1. ASSUME NEW j \in 1 .. Len(code) PROVE Message[0 + 1 + j] = code[j]
    <3>1. 0 + 1 + j = 1 + j
      OBVIOUS
    <3>2. QED
      BY <3>1, <1>6
  <2>2. QED
    BY <2>1 DEF Holds, Buffer
<1>8. QED
  BY <1>6, <1>7 DEF code

\* However the message arrives, the decoder finds them in the view.
LEMMA ArrivedHolds ==
  ASSUME Posted, NEW v, Arrived(v)
  PROVE  /\ View(v) /\ v.length \in 1 .. Len(Message)
         /\ Holds(v, 1, encode_struct(fields[Encoded[tag]], sent))
<1>. DEFINE code == encode_struct(fields[Encoded[tag]], sent)
            m == Message
<1>1. PICK before \in Padding, n \in 1 .. Len(m) :
        v = [buffer |-> [i \in 1 .. before |-> 1] \o m, base |-> before, length |-> n]
  BY DEF Arrived
<1>. DEFINE pad == [i \in 1 .. before |-> 1]
<1>2. m \in Seq(Nat) /\ Len(m) = 1 + Len(code) /\ Holds(Buffer(m), 1, code)
  BY MessageHolds
<1>. HIDE DEF code, m
<1>3. Len(m) \in Nat /\ before \in Nat /\ Len(code) \in Nat
  <2>1. before \in Nat
    BY PaddingAssumption
  <2>2. Len(code) \in Nat
    BY FieldCodesType, EncodedTypes, Lists DEF Posted, code
  <2>3. QED
    BY <2>1, <2>2, <1>2
<1>4. pad \in Seq(Nat) /\ Len(pad) = before
  BY <1>3
<1>. HIDE DEF pad
<1>5. /\ Len(pad \o m) = before + Len(m)
      /\ \A i \in 1 .. Len(m) : (pad \o m)[before + i] = m[i]
  <2>1. /\ Len(pad \o m) = Len(pad) + Len(m)
        /\ \A i \in 1 .. Len(pad) + Len(m) :
             (pad \o m)[i] = IF i <= Len(pad) THEN pad[i] ELSE m[i - Len(pad)]
    <3>. DEFINE p == pad
    <3>1. p \in Seq(Nat)
      BY <1>4
    <3>2. m \in Seq(Nat)
      BY <1>2
    <3>. HIDE DEF p
    <3>3. /\ Len(p \o m) = Len(p) + Len(m)
          /\ \A i \in 1 .. Len(p) + Len(m) :
               (p \o m)[i] = IF i <= Len(p) THEN p[i] ELSE m[i - Len(p)]
      BY <3>1, <3>2, ConcatProperties
    <3>4. QED
      BY <3>3 DEF p
  <2>2. ASSUME NEW i \in 1 .. Len(m) PROVE (pad \o m)[before + i] = m[i]
    <3>1. before + i \in 1 .. Len(pad) + Len(m) /\ ~ (before + i <= Len(pad)) /\ (before + i) - Len(pad) = i
      BY <1>3, <1>4
    <3>2. QED
      BY <2>1, <3>1
  <2>3. QED
    BY <1>4, <2>1, <2>2
<1>6. View(v) /\ v.length \in 1 .. Len(m)
  BY <1>1, <1>3 DEF View
<1>7. ASSUME NEW j \in 1 .. Len(code) PROVE v.buffer[v.base + 1 + j] = code[j]
  <2>1. m[0 + 1 + j] = code[j]
    BY <1>2 DEF Holds, Buffer
  <2>2. 0 + 1 + j = 1 + j /\ 1 + j \in 1 .. Len(m) /\ before + 1 + j = before + (1 + j)
    BY <1>2, <1>3
  <2>3. (pad \o m)[before + (1 + j)] = m[1 + j]
    BY <1>5, <2>2
  <2>4. v.buffer = pad \o m /\ v.base = before
    BY <1>1 DEF pad
  <2>5. QED
    BY <2>1, <2>2, <2>3, <2>4
<1>8. QED
  BY <1>6, <1>7 DEF Holds, code, m

\* What GlazeCodec makes of a message.
LEMMA MessageExact ==
  ASSUME Posted, NEW v, Arrived(v)
  PROVE  IF v.length = Len(Message)
         THEN decode(fields[Encoded[tag]], v, 1) = Read(sent, v.length)
         ELSE ~ decode(fields[Encoded[tag]], v, 1).ok
<1>. DEFINE list == fields[Encoded[tag]]
            code == encode_struct(list, sent)
<1>1. FieldList(list) /\ IsStruct(list, sent) /\ Len(code) \in Nat
  BY EncodedTypes, Lists, FieldCodesType DEF Posted
<1>2. View(v) /\ v.length \in 1 .. Len(Message) /\ Holds(v, 1, code)
  BY ArrivedHolds
<1>3. Len(Message) = 1 + Len(code)
  BY MessageHolds
<1>. HIDE DEF list, code
<1>4. 1 \in Inside(v)
  BY <1>2, <1>1, <1>3 DEF Inside
<1>5. Exact(decode(list, v, 1), Inside(v), 1 + Len(code), sent)
  BY <1>1, <1>2, <1>4, StructExact DEF code
<1>6. 1 + Len(code) \in Inside(v) <=> v.length = Len(Message)
  BY <1>1, <1>2, <1>3 DEF Inside
<1>7. QED
  BY <1>3, <1>5, <1>6 DEF Exact, list

(***************************************************************************)
(* The theorems about the codec.                                           *)
(***************************************************************************)
\* Every step of the codec keeps what is known of the message.
LEMMA MessageInvariant == Spec => []MessageInv
<1>1. QED
  BY MessageInit, MessageNext, PTL DEF Spec

\* GlazeCodec.decode returns the struct that glz::encode was given, and has read
\* the message to its last byte, for every byte, type of field and message.
THEOREM RoundTripHolds == Spec => []RoundTrip
<1>1. MessageInv => RoundTrip
  <2>1. SUFFICES ASSUME MessageInv, got # Nothing, Whole
                 PROVE  got.ok /\ got.out = sent /\ got.at = view.length
    BY DEF RoundTrip
  <2>2. Posted /\ Arrived(view) /\ got = decode(fields[Encoded[tag]], view, 1)
    BY <2>1 DEF MessageInv
  <2>3. got = Read(sent, view.length)
    BY <2>1, <2>2, MessageExact DEF Whole
  <2>4. QED
    BY <2>3 DEF Read
<1>2. QED
  BY <1>1, MessageInvariant, PTL

\* GlazeCodec.decode throws on every message that has been cut short, wherever.
THEOREM TruncationThrowsHolds == Spec => []TruncationThrows
<1>1. MessageInv => TruncationThrows
  <2>1. SUFFICES ASSUME MessageInv, got # Nothing, ~ Whole PROVE ~ got.ok
    BY DEF TruncationThrows
  <2>2. Posted /\ Arrived(view) /\ got = decode(fields[Encoded[tag]], view, 1)
    BY <2>1 DEF MessageInv
  <2>3. QED
    BY <2>1, <2>2, MessageExact DEF Whole
<1>2. QED
  BY <1>1, MessageInvariant, PTL

\* glz::decode reads from every message what GlazeCodec.decode does.
THEOREM NativeDecodeAgreesHolds == Spec => []NativeDecodeAgrees
<1>1. MessageInv => NativeDecodeAgrees
  <2>1. SUFFICES ASSUME MessageInv, tag # 0, view = Nothing
                 PROVE  decode_struct(fields[Encoded[tag]], Message, 1) = Read(sent, Len(Message))
    BY DEF NativeDecodeAgrees
  <2>2. Posted
    BY <2>1 DEF MessageInv
  <2>3. FieldList(fields[Encoded[tag]]) /\ IsStruct(fields[Encoded[tag]], sent)
    BY <2>2, EncodedTypes, Lists DEF Posted
  <2>4. QED
    BY <2>2, <2>3, MessageHolds, NativeStructExact
<1>2. QED
  BY <1>1, MessageInvariant, PTL

\* A run of the objects' updates is, for the codec, one of its own.
THEOREM UpdatesRunCodec == UpdatesSpec => Spec
<1>1. UpdatesInit => Init
  BY DEF UpdatesInit
<1>2. [UpdatesNext]_<<vars, objectVars>> => [Next]_vars
  BY DEF UpdatesNext, Codec, Announced, Updated, vars
<1>3. QED
  BY <1>1, <1>2, PTL DEF UpdatesSpec, Spec

(***************************************************************************)
(* The properties of an object.                                            *)
(***************************************************************************)
\* The fields of a struct: the keyed ones, the object path and perhaps a mask.
KeyedList(list, keys, masked) ==
  /\ Names(list) = DOMAIN keys \cup {"objectPath"} \cup (IF masked THEN {"changedMask"} ELSE {})
  /\ "objectPath" \notin DOMAIN keys /\ "changedMask" \notin DOMAIN keys
  /\ \A m, n \in DOMAIN keys : keys[m] = keys[n] => m = n
  /\ 1 \in DOMAIN list /\ list[1] = <<"objectPath", "str">>
  /\ masked => 2 \in DOMAIN list /\ list[2] = <<"changedMask", "u32">>

LEMMA AdapterKeyed == KeyedList(AdapterFields, AdapterKeys, TRUE)
<1>1. DOMAIN AdapterFields = 1 .. 11
  BY DEF AdapterFields
<1>2. \A n \in DOMAIN AdapterKeys : \E i \in 1 .. 11 : AdapterFields[i][1] = n
  BY DEF AdapterFields, AdapterKeys
<1>3. \A i \in 1 .. 11 : AdapterFields[i][1] \in {"objectPath", "changedMask"} \cup DOMAIN AdapterKeys
  BY DEF AdapterFields, AdapterKeys
<1>4. /\ AdapterFields[1] = <<"objectPath", "str">> /\ AdapterFields[2] = <<"changedMask", "u32">>
      /\ "objectPath" \notin DOMAIN AdapterKeys /\ "changedMask" \notin DOMAIN AdapterKeys
  BY DEF AdapterFields, AdapterKeys
<1>5. \A m, n \in DOMAIN AdapterKeys : AdapterKeys[m] = AdapterKeys[n] => m = n
  BY DEF AdapterKeys
<1>6. QED
  BY <1>1, <1>2, <1>3, <1>4, <1>5 DEF KeyedList, Names, Range

LEMMA DeviceKeyed == KeyedList(DeviceFields, DeviceKeys, TRUE)
<1>1. DOMAIN DeviceFields = 1 .. 20
  BY DEF DeviceFields
<1>2. \A n \in DOMAIN DeviceKeys : \E i \in 1 .. 20 : DeviceFields[i][1] = n
  BY DEF DeviceFields, DeviceKeys
<1>3. \A i \in 1 .. 20 : DeviceFields[i][1] \in {"objectPath", "changedMask"} \cup DOMAIN DeviceKeys
  BY DEF DeviceFields, DeviceKeys
<1>4. /\ DeviceFields[1] = <<"objectPath", "str">> /\ DeviceFields[2] = <<"changedMask", "u32">>
      /\ "objectPath" \notin DOMAIN DeviceKeys /\ "changedMask" \notin DOMAIN DeviceKeys
  BY DEF DeviceFields, DeviceKeys
<1>5. \A m, n \in DOMAIN DeviceKeys : DeviceKeys[m] = DeviceKeys[n] => m = n
  BY DEF DeviceKeys
<1>6. QED
  BY <1>1, <1>2, <1>3, <1>4, <1>5 DEF KeyedList, Names, Range

LEMMA GattServiceKeyed == KeyedList(GattServiceFields, GattServiceKeys, FALSE)
<1>1. DOMAIN GattServiceFields = 1 .. 5
  BY DEF GattServiceFields
<1>2. \A n \in DOMAIN GattServiceKeys : \E i \in 1 .. 5 : GattServiceFields[i][1] = n
  BY DEF GattServiceFields, GattServiceKeys
<1>3. \A i \in 1 .. 5 : GattServiceFields[i][1] \in {"objectPath"} \cup DOMAIN GattServiceKeys
  BY DEF GattServiceFields, GattServiceKeys
<1>4. /\ GattServiceFields[1] = <<"objectPath", "str">>
      /\ "objectPath" \notin DOMAIN GattServiceKeys /\ "changedMask" \notin DOMAIN GattServiceKeys
  BY DEF GattServiceFields, GattServiceKeys
<1>5. \A m, n \in DOMAIN GattServiceKeys : GattServiceKeys[m] = GattServiceKeys[n] => m = n
  BY DEF GattServiceKeys
<1>6. QED
  BY <1>1, <1>2, <1>3, <1>4, <1>5 DEF KeyedList, Names, Range

LEMMA GattCharKeyed == KeyedList(GattCharFields, GattCharKeys, FALSE)
<1>1. DOMAIN GattCharFields = 1 .. 10
  BY DEF GattCharFields
<1>2. \A n \in DOMAIN GattCharKeys : \E i \in 1 .. 10 : GattCharFields[i][1] = n
  BY DEF GattCharFields, GattCharKeys
<1>3. \A i \in 1 .. 10 : GattCharFields[i][1] \in {"objectPath"} \cup DOMAIN GattCharKeys
  BY DEF GattCharFields, GattCharKeys
<1>4. /\ GattCharFields[1] = <<"objectPath", "str">>
      /\ "objectPath" \notin DOMAIN GattCharKeys /\ "changedMask" \notin DOMAIN GattCharKeys
  BY DEF GattCharFields, GattCharKeys
<1>5. \A m, n \in DOMAIN GattCharKeys : GattCharKeys[m] = GattCharKeys[n] => m = n
  BY DEF GattCharKeys
<1>6. QED
  BY <1>1, <1>2, <1>3, <1>4, <1>5 DEF KeyedList, Names, Range

LEMMA GattDescKeyed == KeyedList(GattDescFields, GattDescKeys, FALSE)
<1>1. DOMAIN GattDescFields = 1 .. 5
  BY DEF GattDescFields
<1>2. \A n \in DOMAIN GattDescKeys : \E i \in 1 .. 5 : GattDescFields[i][1] = n
  BY DEF GattDescFields, GattDescKeys
<1>3. \A i \in 1 .. 5 : GattDescFields[i][1] \in {"objectPath"} \cup DOMAIN GattDescKeys
  BY DEF GattDescFields, GattDescKeys
<1>4. /\ GattDescFields[1] = <<"objectPath", "str">>
      /\ "objectPath" \notin DOMAIN GattDescKeys /\ "changedMask" \notin DOMAIN GattDescKeys
  BY DEF GattDescFields, GattDescKeys
<1>5. \A m, n \in DOMAIN GattDescKeys : GattDescKeys[m] = GattDescKeys[n] => m = n
  BY DEF GattDescKeys
<1>6. QED
  BY <1>1, <1>2, <1>3, <1>4, <1>5 DEF KeyedList, Names, Range

LEMMA KeyedLists ==
  \A k \in DOMAIN Keys : k \in Structs /\ KeyedList(fields[k], Keys[k], k \in HasMask)
<1>1. DOMAIN Keys = {"AdapterProps", "DeviceProps", "GattServiceProps", "GattCharProps",
                     "GattDescProps"}
  BY DEF Keys
<1>2. DOMAIN Keys \subseteq Structs
  BY <1>1 DEF Structs, fields
<1>3. KeyedList(fields["AdapterProps"], Keys["AdapterProps"], "AdapterProps" \in HasMask)
  <2>1. fields["AdapterProps"] = AdapterFields /\ Keys["AdapterProps"] = AdapterKeys
    BY DEF fields, Keys
  <2>2. ("AdapterProps" \in HasMask) = TRUE
    BY DEF HasMask
  <2>3. QED
    BY <2>1, <2>2, AdapterKeyed
<1>4. KeyedList(fields["DeviceProps"], Keys["DeviceProps"], "DeviceProps" \in HasMask)
  <2>1. fields["DeviceProps"] = DeviceFields /\ Keys["DeviceProps"] = DeviceKeys
    BY DEF fields, Keys
  <2>2. ("DeviceProps" \in HasMask) = TRUE
    BY DEF HasMask
  <2>3. QED
    BY <2>1, <2>2, DeviceKeyed
<1>5. KeyedList(fields["GattServiceProps"], Keys["GattServiceProps"], "GattServiceProps" \in HasMask)
  <2>1. fields["GattServiceProps"] = GattServiceFields /\ Keys["GattServiceProps"] = GattServiceKeys
    BY DEF fields, Keys
  <2>2. ("GattServiceProps" \in HasMask) = FALSE
    BY DEF HasMask
  <2>3. QED
    BY <2>1, <2>2, GattServiceKeyed
<1>6. KeyedList(fields["GattCharProps"], Keys["GattCharProps"], "GattCharProps" \in HasMask)
  <2>1. fields["GattCharProps"] = GattCharFields /\ Keys["GattCharProps"] = GattCharKeys
    BY DEF fields, Keys
  <2>2. ("GattCharProps" \in HasMask) = FALSE
    BY DEF HasMask
  <2>3. QED
    BY <2>1, <2>2, GattCharKeyed
<1>7. KeyedList(fields["GattDescProps"], Keys["GattDescProps"], "GattDescProps" \in HasMask)
  <2>1. fields["GattDescProps"] = GattDescFields /\ Keys["GattDescProps"] = GattDescKeys
    BY DEF fields, Keys
  <2>2. ("GattDescProps" \in HasMask) = FALSE
    BY DEF HasMask
  <2>3. QED
    BY <2>1, <2>2, GattDescKeyed
<1>8. QED
  BY <1>1, <1>2, <1>3, <1>4, <1>5, <1>6, <1>7

\* What a member the code leaves alone holds is a value of its type.
LEMMA DefaultValue ==
  ASSUME NEW type \in FieldTypes
  PROVE  IsValue(type, Default(type))
<1>1. CASE type = "bool"
  BY <1>1 DEF IsValue, Default
<1>2. CASE type \in {"i16", "u16", "u32"}
  <2>1. Default(type) = 0
    BY <1>2 DEF Default
  <2>2. 0 \in 0 .. Short - 1 /\ 0 \in 0 .. Word - 1 /\ - Short <= 2 * 0 /\ 2 * 0 < Short
    BY Sizes
  <2>3. IsValue("i16", 0) /\ IsValue("u16", 0) /\ IsValue("u32", 0)
    BY <2>2 DEF IsValue
  <2>4. QED
    BY <1>2, <2>1, <2>3
<1>3. CASE type \in {"str", "bytes", "strs", "mfrs"}
  <2>1. Default(type) = <<>>
    BY <1>3 DEF Default
  <2>2. Len(<<>>) = 0 /\ <<>> \in Seq(Byte) /\ <<>> \in Seq(Blobs) /\ <<>> \in Seq(Companies)
    OBVIOUS
  <2>3. 0 < Word
    BY Sizes
  <2>4. <<>> \in Blobs
    BY <2>2, <2>3 DEF Blobs
  <2>5. QED
    BY <1>3, <2>1, <2>2, <2>3, <2>4 DEF IsValue
<1>4. CASE type = "map"
  <2>1. Default(type) = <<>>
    BY <1>4 DEF Default
  <2>2. DOMAIN <<>> = {} /\ <<>> \in [{} -> Blobs]
    OBVIOUS
  <2>3. IsFiniteSet({}) /\ Cardinality({}) = 0 /\ 0 < Word
    BY FS_EmptySet, Sizes
  <2>4. QED
    BY <1>4, <2>1, <2>2, <2>3 DEF IsValue
<1>5. QED
  BY <1>1, <1>2, <1>3, <1>4 DEF FieldTypes

\* The struct that has these properties, each a value of its field's type.
LEMMA MaskedStruct ==
  ASSUME NEW k \in DOMAIN Keys, NEW mask \in 0 .. Word - 1, NEW s,
         \A name \in DOMAIN Keys[k] : IsValue(Type(k, name), s[name])
  PROVE  /\ IsStruct(fields[k], Masked(k, mask, s))
         /\ \A name \in DOMAIN Keys[k] : Masked(k, mask, s)[name] = s[name]
         /\ k \in HasMask => Masked(k, mask, s).changedMask = mask
         /\ DOMAIN Masked(k, mask, s) = Names(fields[k])
<1>. DEFINE list == fields[k]
            x == Masked(k, mask, s)
            keyed == DOMAIN Keys[k]
<1>1. FieldList(list) /\ KeyedList(list, Keys[k], k \in HasMask)
  BY Lists, KeyedLists
<1>2. x = [name \in Names(list) |-> x[name]] /\ DOMAIN x = Names(list)
  BY DEF Masked
<1>3. /\ x["objectPath"] = Path
      /\ k \in HasMask => x["changedMask"] = mask
      /\ \A name \in keyed : x[name] = s[name]
  BY <1>1 DEF Masked, KeyedList
<1>4. IsValue("str", Path)
  <2>1. Path \in Seq(Byte) /\ Len(Path) = 1
    BY Sizes DEF Path, Byte
  <2>2. 1 < Word
    BY Sizes
  <2>3. QED
    BY <2>1, <2>2 DEF IsValue, Blobs
<1>5. IsValue("u32", mask)
  BY DEF IsValue
<1>6. ASSUME NEW i \in DOMAIN list PROVE IsValue(list[i][2], x[list[i][1]])
  <2>1. list[i][1] \in Names(list) /\ Position(list, list[i][1]) = i
    BY <1>1, PositionOf
  <2>2. CASE list[i][1] = "objectPath"
    <3>1. i = 1
      BY <2>2, <1>1 DEF FieldList, KeyedList
    <3>2. list[i][2] = "str"
      BY <3>1, <1>1 DEF KeyedList
    <3>. HIDE DEF list, x
    <3>3. QED
      BY <3>2, <2>2, <1>3, <1>4
  <2>3. CASE list[i][1] = "changedMask"
    <3>1. k \in HasMask
      BY <2>1, <2>3, <1>1 DEF KeyedList
    <3>2. i = 2
      BY <3>1, <2>3, <1>1 DEF FieldList, KeyedList
    <3>3. list[i][2] = "u32"
      BY <3>1, <3>2, <1>1 DEF KeyedList
    <3>. HIDE DEF list, x
    <3>4. QED
      BY <3>1, <3>3, <2>3, <1>3, <1>5
  <2>4. CASE list[i][1] \in keyed
    <3>1. Type(k, list[i][1]) = list[i][2]
      BY <2>1 DEF Type
    <3>. HIDE DEF list, x
    <3>2. QED
      BY <3>1, <2>4, <1>3
  <2>5. QED
    BY <2>1, <2>2, <2>3, <2>4, <1>1 DEF KeyedList
<1>7. QED
  BY <1>2, <1>3, <1>6 DEF IsStruct

\* What arrives in Dart is the struct that was posted.
LEMMA ReceivedExact ==
  ASSUME NEW k \in Structs, NEW x, IsStruct(fields[k], x)
  PROVE  Received(k, x) = x
<1>. DEFINE code == encode_struct(fields[k], x)
            v == [buffer |-> code, base |-> 0, length |-> Len(code)]
<1>1. FieldList(fields[k]) /\ Len(code) \in Nat
  BY Lists, FieldCodesType
<1>. HIDE DEF code
<1>2. View(v) /\ 0 \in Inside(v) /\ 0 + Len(code) \in Inside(v)
  BY <1>1 DEF View, Inside
<1>3. Holds(v, 0, code)
  <2>1. ASSUME NEW j \in 1 .. Len(code) PROVE v.buffer[v.base + 0 + j] = code[j]
    <3>1. v.base + 0 + j = j /\ v.buffer = code
      OBVIOUS
    <3>2. QED
      BY <3>1
  <2>. HIDE DEF v
  <2>2. QED
    BY <2>1 DEF Holds
<1>. HIDE DEF v
<1>4. Exact(decode(fields[k], v, 0), Inside(v), 0 + Len(code), x)
  BY <1>1, <1>2, <1>3, StructExact DEF code
<1>5. decode(fields[k], v, 0).out = x
  BY <1>2, <1>4 DEF Exact, Read
<1>6. QED
  BY <1>5, ListsAgree DEF Received, code, v

(***************************************************************************)
(* Masks.                                                                  *)
(***************************************************************************)
\* The two sides agree on the bits, and a bit is that of a keyed field.
LEMMA BitsAgree ==
  /\ DartBits = NativeBits
  /\ \A k \in HasMask : k \in DOMAIN Keys /\ DOMAIN NativeBits[k] \subseteq DOMAIN Keys[k]
<1>1. DartBits = NativeBits
  BY DEF DartBits, NativeBits
<1>2. \A k \in HasMask : k \in DOMAIN Keys
  BY DEF HasMask, Keys
<1>3. /\ DOMAIN NativeBits["AdapterProps"] \subseteq DOMAIN Keys["AdapterProps"]
      /\ DOMAIN NativeBits["DeviceProps"] \subseteq DOMAIN Keys["DeviceProps"]
  BY DEF NativeBits, Keys, AdapterKeys, DeviceKeys
<1>4. QED
  BY <1>1, <1>2, <1>3 DEF HasMask

\* A sum of bits has those that are in it.
LEMMA SumOfBits ==
  ASSUME NEW a \in {0, 1}, NEW b \in {0, 1}, NEW c \in {0, 1}, NEW d \in {0, 1},
         NEW e \in {0, 1}, NEW f \in {0, 1}, NEW g \in {0, 1}, NEW h \in {0, 1}, NEW mask,
         mask = a + 2 * b + 4 * c + 8 * d + 16 * e + 32 * f + 64 * g + 128 * h
  PROVE  /\ mask \in 0 .. 255
         /\ HasBit(mask, 1) <=> a = 1
         /\ HasBit(mask, 2) <=> b = 1
         /\ HasBit(mask, 4) <=> c = 1
         /\ HasBit(mask, 8) <=> d = 1
         /\ HasBit(mask, 16) <=> e = 1
         /\ HasBit(mask, 32) <=> f = 1
         /\ HasBit(mask, 64) <=> g = 1
         /\ HasBit(mask, 128) <=> h = 1
<1>0. mask \in 0 .. 255
  OBVIOUS
<1>1. HasBit(mask, 1) <=> a = 1
  BY DEF HasBit
<1>2. HasBit(mask, 2) <=> b = 1
  BY DEF HasBit
<1>3. HasBit(mask, 4) <=> c = 1
  BY DEF HasBit
<1>4. HasBit(mask, 8) <=> d = 1
  BY DEF HasBit
<1>5. HasBit(mask, 16) <=> e = 1
  BY DEF HasBit
<1>6. HasBit(mask, 32) <=> f = 1
  BY DEF HasBit
<1>7. HasBit(mask, 64) <=> g = 1
  BY DEF HasBit
<1>8. HasBit(mask, 128) <=> h = 1
  BY DEF HasBit
<1>9. QED
  BY <1>0, <1>1, <1>2, <1>3, <1>4, <1>5, <1>6, <1>7, <1>8

\* A mask of some fields has just their bits, and fits the 32 bits it has.
LEMMA MaskExact ==
  ASSUME NEW k \in HasMask, NEW names, names \subseteq DOMAIN NativeBits[k]
  PROVE  MaskOf(k, names) \in 0 .. Word - 1 /\ Taken(k, MaskOf(k, names)) = names
<1>. DEFINE in(name) == IF name \in names THEN 1 ELSE 0
            mask == MaskOf(k, names)
<1>1. \A name : in(name) \in {0, 1} /\ (in(name) = 1 <=> name \in names)
  OBVIOUS
<1>2. CASE k = "AdapterProps"
  <2>1. DOMAIN NativeBits[k] = {"powered", "discovering", "discoverable", "pairable", "alias"}
    BY <1>2 DEF NativeBits
  <2>2. /\ DartBits[k]["powered"] = 1 /\ DartBits[k]["discovering"] = 2
        /\ DartBits[k]["discoverable"] = 4 /\ DartBits[k]["pairable"] = 8
        /\ DartBits[k]["alias"] = 16 /\ DOMAIN DartBits[k] = DOMAIN NativeBits[k]
    BY <1>2 DEF DartBits, NativeBits
  <2>3. mask = in("powered") + 2 * in("discovering") + 4 * in("discoverable")
               + 8 * in("pairable") + 16 * in("alias") + 32 * 0 + 64 * 0 + 128 * 0
    BY <1>2 DEF MaskOf, NativeBits
  <2>. HIDE DEF in, mask
  <2>4. /\ mask \in 0 .. 255
        /\ HasBit(mask, 1) <=> in("powered") = 1
        /\ HasBit(mask, 2) <=> in("discovering") = 1
        /\ HasBit(mask, 4) <=> in("discoverable") = 1
        /\ HasBit(mask, 8) <=> in("pairable") = 1
        /\ HasBit(mask, 16) <=> in("alias") = 1
    BY <1>1, <2>3, SumOfBits
  <2>5. \A name \in DOMAIN NativeBits[k] : HasBit(mask, DartBits[k][name]) <=> name \in names
    BY <1>1, <2>1, <2>2, <2>4
  <2>6. mask \in 0 .. Word - 1
    BY <2>4, Sizes
  <2>7. QED
    BY <2>2, <2>5, <2>6 DEF Taken, mask
<1>3. CASE k = "DeviceProps"
  <2>1. DOMAIN NativeBits[k] = {"connected", "rssi", "paired", "servicesResolved", "name",
                                "trusted", "blocked", "alias"}
    BY <1>3 DEF NativeBits
  <2>2. /\ DartBits[k]["connected"] = 1 /\ DartBits[k]["rssi"] = 2
        /\ DartBits[k]["paired"] = 4 /\ DartBits[k]["servicesResolved"] = 8
        /\ DartBits[k]["name"] = 16 /\ DartBits[k]["trusted"] = 32
        /\ DartBits[k]["blocked"] = 64 /\ DartBits[k]["alias"] = 128
        /\ DOMAIN DartBits[k] = DOMAIN NativeBits[k]
    BY <1>3 DEF DartBits, NativeBits
  <2>3. mask = in("connected") + 2 * in("rssi") + 4 * in("paired")
               + 8 * in("servicesResolved") + 16 * in("name") + 32 * in("trusted")
               + 64 * in("blocked") + 128 * in("alias")
    BY <1>3 DEF MaskOf, NativeBits
  <2>. HIDE DEF in, mask
  <2>4. /\ mask \in 0 .. 255
        /\ HasBit(mask, 1) <=> in("connected") = 1
        /\ HasBit(mask, 2) <=> in("rssi") = 1
        /\ HasBit(mask, 4) <=> in("paired") = 1
        /\ HasBit(mask, 8) <=> in("servicesResolved") = 1
        /\ HasBit(mask, 16) <=> in("name") = 1
        /\ HasBit(mask, 32) <=> in("trusted") = 1
        /\ HasBit(mask, 64) <=> in("blocked") = 1
        /\ HasBit(mask, 128) <=> in("alias") = 1
    BY <1>1, <2>3, SumOfBits
  <2>5. \A name \in DOMAIN NativeBits[k] : HasBit(mask, DartBits[k][name]) <=> name \in names
    BY <1>1, <2>1, <2>2, <2>4
  <2>6. mask \in 0 .. Word - 1
    BY <2>4, Sizes
  <2>7. QED
    BY <2>2, <2>5, <2>6 DEF Taken, mask
<1>4. QED
  BY <1>2, <1>3 DEF HasMask

\* A snapshot's mask has every bit: a byte has a multiple of four values.
LEMMA AllBitsExact ==
  ASSUME NEW k \in HasMask
  PROVE  AllBits \in 0 .. Word - 1 /\ Taken(k, AllBits) = DOMAIN NativeBits[k]
<1>1. PICK q \in Nat : Base = 4 * q
  <2>1. Base \div 4 \in Nat /\ Base = 4 * (Base \div 4)
    BY BaseAssumption
  <2>2. QED
    BY <2>1
<1>. DEFINE m == q * q
            o == m * m
<1>2. m \in Nat /\ Short = 16 * m
  BY <1>1 DEF Short
<1>. HIDE DEF m
<1>3. o \in Nat /\ Word = 256 * o
  BY <1>2 DEF Word
<1>. HIDE DEF o
<1>4. o >= 1
  BY <1>3, Sizes
<1>5. /\ HasBit(256 * o - 1, 1) /\ HasBit(256 * o - 1, 2)
      /\ HasBit(256 * o - 1, 4) /\ HasBit(256 * o - 1, 8)
  BY <1>3, <1>4 DEF HasBit
<1>6. /\ HasBit(256 * o - 1, 16) /\ HasBit(256 * o - 1, 32)
      /\ HasBit(256 * o - 1, 64) /\ HasBit(256 * o - 1, 128)
  BY <1>3, <1>4 DEF HasBit
<1>7. DOMAIN DartBits[k] = DOMAIN NativeBits[k]
  BY BitsAgree
<1>8. \A name \in DOMAIN DartBits[k] : DartBits[k][name] \in {1, 2, 4, 8, 16, 32, 64, 128}
  BY DEF DartBits, HasMask
<1>9. AllBits = 256 * o - 1
  BY <1>3 DEF AllBits
<1>10. AllBits \in 0 .. Word - 1
  BY Sizes DEF AllBits
<1>. HIDE DEF AllBits
<1>11. \A name \in DOMAIN DartBits[k] : HasBit(AllBits, DartBits[k][name])
  BY <1>5, <1>6, <1>8, <1>9
<1>12. QED
  BY <1>7, <1>10, <1>11 DEF Taken

(***************************************************************************)
(* What a message does to the object in Dart.                              *)
(***************************************************************************)
LEMMA TypeOf ==
  ASSUME NEW k \in DOMAIN Keys, NEW name \in DOMAIN Keys[k]
  PROVE  /\ Type(k, name) \in FieldTypes
         /\ name \in Names(fields[k]) /\ name # "changedMask"
<1>1. FieldList(fields[k]) /\ KeyedList(fields[k], Keys[k], k \in HasMask)
  BY Lists, KeyedLists
<1>2. name \in Names(fields[k]) /\ name # "changedMask"
  BY <1>1 DEF KeyedList
<1>3. PICK i \in DOMAIN fields[k] : fields[k][i][1] = name
  BY <1>2, NamesOf
<1>4. Type(k, name) = fields[k][i][2]
  BY <1>1, <1>3, PositionOf DEF Type
<1>5. QED
  BY <1>1, <1>2, <1>4 DEF FieldList

LEMMA SampleValues ==
  ASSUME NEW type \in FieldTypes
  PROVE  IsValue(type, First(type)) /\ IsValue(type, Sample(type)[2]) /\ IsValue(type, Extreme(type))
<1>. DEFINE s == Sample(type)
            n == Len(s)
<1>1. /\ n \in Nat /\ n >= 2 /\ DOMAIN s = 1 .. n
      /\ \A i \in DOMAIN s : IsValue(type, s[i])
  BY SampleAssumption
<1>. HIDE DEF n
<1>2. 1 \in DOMAIN s /\ 2 \in DOMAIN s /\ n \in DOMAIN s
  BY <1>1
<1>3. First(type) = s[1] /\ Extreme(type) = s[n]
  BY DEF First, Extreme, n
<1>. HIDE DEF s
<1>4. QED
  BY <1>1, <1>2, <1>3 DEF s

\* No two fields are one property.
LEMMA KeysDiffer ==
  ASSUME NEW k \in DOMAIN Keys, NEW m \in DOMAIN Keys[k], NEW n \in DOMAIN Keys[k],
         Keys[k][m] = Keys[k][n]
  PROVE  m = n
  BY KeyedLists DEF KeyedList

LEMMA KeyTypes ==
  ASSUME NEW k \in DOMAIN Keys, NEW name \in DOMAIN Keys[k]
  PROVE  KeyType(k, Keys[k][name]) = Type(k, name)
<1>. DEFINE field == CHOOSE n \in DOMAIN Keys[k] : Keys[k][n] = Keys[k][name]
<1>1. field \in DOMAIN Keys[k] /\ Keys[k][field] = Keys[k][name]
  OBVIOUS
<1>. HIDE DEF field
<1>2. field = name
  BY <1>1, KeysDiffer
<1>3. QED
  BY <1>2 DEF KeyType, field

\* A signal's dictionary has just the properties of its fields, with values of their
\* types.
LEMMA ChangedValues ==
  ASSUME NEW k \in DOMAIN Keys, NEW names \in SUBSET DOMAIN Keys[k], NEW extreme,
         NEW name \in DOMAIN Keys[k]
  PROVE  LET changed == Changed(k, names, extreme)
             key     == Keys[k][name]
         IN  /\ key \in DOMAIN changed <=> name \in names
             /\ name \in names => IsValue(Type(k, name), changed[key])
<1>. DEFINE changed == Changed(k, names, extreme)
            key == Keys[k][name]
<1>1. DOMAIN changed = PropertiesOf(k, names)
  BY DEF Changed
<1>2. key \in PropertiesOf(k, names) <=> name \in names
  BY KeysDiffer DEF PropertiesOf
<1>3. ASSUME name \in names PROVE IsValue(Type(k, name), changed[key])
  <2>1. changed[key] \in {First(KeyType(k, key)), Extreme(KeyType(k, key))}
    BY <1>2, <1>3 DEF Changed
  <2>2. KeyType(k, key) = Type(k, name) /\ Type(k, name) \in FieldTypes
    BY KeyTypes, TypeOf
  <2>. HIDE DEF changed, key
  <2>3. QED
    BY <2>1, <2>2, SampleValues
<1>4. QED
  BY <1>1, <1>2, <1>3

\* What is known of an object of the daemon has values of the fields' types.
LEMMA DictionaryValues ==
  ASSUME NEW k \in DOMAIN Keys, NEW d \in Dictionary(k), NEW name \in DOMAIN Keys[k]
  PROVE  IsValue(Type(k, name), get_prop(d, Keys[k][name], Type(k, name)))
<1>. DEFINE keys == PropertiesOf(k, DOMAIN Keys[k])
            usual == [key \in keys |-> Sample(KeyType(k, key))[2]]
            without(n) == [other \in DOMAIN usual \ {Keys[k][n]} |-> usual[other]]
            except(n) == [usual EXCEPT ![Keys[k][n]] = Extreme(Type(k, n))]
            key == Keys[k][name]
<1>1. \A m, n \in DOMAIN Keys[k] : Keys[k][m] = Keys[k][n] => m = n
  BY KeysDiffer
<1>2. KeyType(k, key) = Type(k, name) /\ key \in keys
  BY KeyTypes DEF PropertiesOf
<1>3. PICK n \in DOMAIN Keys[k] : d \in {without(n), except(n)}
  <2>1. Dictionary(k) = UNION {{without(n), except(n)} : n \in DOMAIN Keys[k]}
    BY DEF Dictionary
  <2>. HIDE DEF without, except
  <2>2. QED
    BY <2>1
<1>4. DOMAIN usual = keys /\ usual[key] = Sample(Type(k, name))[2]
  BY <1>2
<1>. HIDE DEF usual, keys
<1>5. d[key] \in {usual[key], Extreme(Type(k, name))} \/ key \notin DOMAIN d
  <2>1. CASE d = without(n)
    <3>1. key \in DOMAIN d => d[key] = usual[key]
      BY <2>1
    <3>2. QED
      BY <3>1
  <2>2. CASE d = except(n) /\ n = name
    <3>1. d[key] = Extreme(Type(k, name))
      BY <2>2, <1>2, <1>4
    <3>2. QED
      BY <3>1
  <2>3. CASE d = except(n) /\ n # name
    <3>1. Keys[k][n] # key
      BY <2>3, <1>1
    <3>2. key \in DOMAIN d => d[key] = usual[key]
      BY <2>3, <3>1
    <3>3. QED
      BY <3>2
  <2>4. QED
    BY <1>3, <2>1, <2>2, <2>3
<1>6. Type(k, name) \in FieldTypes
  BY TypeOf
<1>7. IsValue(Type(k, name), Sample(Type(k, name))[2]) /\ IsValue(Type(k, name), Extreme(Type(k, name)))
  BY <1>6, SampleValues
<1>8. IsValue(Type(k, name), Default(Type(k, name)))
  BY <1>6, DefaultValue
<1>. HIDE DEF key
<1>9. CASE key \in DOMAIN d
  <2>1. get_prop(d, key, Type(k, name)) = d[key]
    BY <1>9 DEF get_prop
  <2>2. QED
    BY <2>1, <1>4, <1>5, <1>7, <1>9 DEF key
<1>10. CASE key \notin DOMAIN d
  <2>1. get_prop(d, key, Type(k, name)) = Default(Type(k, name))
    BY <1>10 DEF get_prop
  <2>2. QED
    BY <2>1, <1>8 DEF key
<1>11. QED
  BY <1>9, <1>10

\* A snapshot brings every property, or its default, and a mask with every bit.
LEMMA SnapshotExact ==
  ASSUME NEW k \in DOMAIN Keys, NEW d \in Dictionary(k), NEW p, p = Received(k, extract_props(k, d))
  PROVE  /\ DOMAIN p = Names(fields[k])
         /\ \A name \in DOMAIN Keys[k] : p[name] = get_prop(d, Keys[k][name], Type(k, name))
         /\ k \in HasMask => p.changedMask = AllBits
<1>. DEFINE s == [name \in DOMAIN Keys[k] |-> get_prop(d, Keys[k][name], Type(k, name))]
            x == Masked(k, AllBits, s)
<1>1. \A name \in DOMAIN Keys[k] : /\ s[name] = get_prop(d, Keys[k][name], Type(k, name))
                                   /\ IsValue(Type(k, name), s[name])
  BY DictionaryValues
<1>2. extract_props(k, d) = x
  BY DEF extract_props
<1>. HIDE DEF s
<1>3. AllBits \in 0 .. Word - 1
  BY Sizes DEF AllBits
<1>4. /\ IsStruct(fields[k], x)
      /\ \A name \in DOMAIN Keys[k] : x[name] = s[name]
      /\ k \in HasMask => x.changedMask = AllBits
      /\ DOMAIN x = Names(fields[k])
  BY <1>1, <1>3, MaskedStruct
<1>5. p = x
  BY <1>2, <1>4, ReceivedExact, KeyedLists
<1>. HIDE DEF x
<1>6. QED
  BY <1>1, <1>4, <1>5

\* A PropertiesChanged brings the changed fields that have a bit, and just their bits.
LEMMA PartialExact ==
  ASSUME NEW k \in HasMask, NEW changed, NEW p, p = Received(k, partial_props(k, changed)),
         \A name \in DOMAIN Keys[k] :
           Keys[k][name] \in DOMAIN changed => IsValue(Type(k, name), changed[Keys[k][name]])
  PROVE  /\ Taken(k, p.changedMask)
              = {name \in DOMAIN NativeBits[k] : Keys[k][name] \in DOMAIN changed}
         /\ \A name \in DOMAIN NativeBits[k] :
              Keys[k][name] \in DOMAIN changed => p[name] = changed[Keys[k][name]]
<1>. DEFINE names == {name \in DOMAIN NativeBits[k] : Keys[k][name] \in DOMAIN changed}
            s == [name \in DOMAIN Keys[k] |->
                    IF name \in names THEN changed[Keys[k][name]] ELSE Default(Type(k, name))]
            x == Masked(k, MaskOf(k, names), s)
<1>0. k \in DOMAIN Keys /\ DOMAIN NativeBits[k] \subseteq DOMAIN Keys[k]
  BY BitsAgree
<1>1. ASSUME NEW name \in DOMAIN Keys[k] PROVE IsValue(Type(k, name), s[name])
  <2>1. CASE name \in names
    BY <2>1
  <2>2. CASE name \notin names
    <3>1. s[name] = Default(Type(k, name))
      BY <2>2
    <3>2. Type(k, name) \in FieldTypes
      BY <1>0, TypeOf
    <3>. HIDE DEF s
    <3>3. QED
      BY <3>1, <3>2, DefaultValue
  <2>3. QED
    BY <2>1, <2>2
<1>2. partial_props(k, changed) = x
  BY DEF partial_props
<1>3. \A name \in names : s[name] = changed[Keys[k][name]]
  BY <1>0
<1>4. MaskOf(k, names) \in 0 .. Word - 1 /\ Taken(k, MaskOf(k, names)) = names
  <2>1. names \subseteq DOMAIN NativeBits[k]
    OBVIOUS
  <2>. HIDE DEF names
  <2>2. QED
    BY <2>1, MaskExact
<1>. HIDE DEF s
<1>5. /\ IsStruct(fields[k], x)
      /\ \A name \in DOMAIN Keys[k] : x[name] = s[name]
      /\ x.changedMask = MaskOf(k, names)
  <2>. HIDE DEF names
  <2>1. QED
    BY <1>0, <1>1, <1>4, MaskedStruct
<1>6. p = x
  <2>. HIDE DEF x
  <2>1. QED
    BY <1>0, <1>2, <1>5, ReceivedExact, KeyedLists
<1>. HIDE DEF x
<1>7. Taken(k, p.changedMask) = names
  BY <1>4, <1>5, <1>6
<1>8. QED
  BY <1>0, <1>3, <1>5, <1>6, <1>7

\* updateProps takes the fields of the mask, and leaves every other alone.
LEMMA UpdateTakes ==
  ASSUME NEW k, NEW p
  PROVE  /\ DOMAIN updateProps(k, p) = DOMAIN props
         /\ \A name \in DOMAIN props : name # "changedMask" =>
              updateProps(k, p)[name] = IF name \in Taken(k, p.changedMask) THEN p[name] ELSE props[name]
BY DEF updateProps

(***************************************************************************)
(* The theorems about the object.                                          *)
(***************************************************************************)
\* CacheExact, and what it takes to keep it: the object has the fields of its kind.
CacheInv ==
  \/ kind = None
  \/ /\ kind \in DOMAIN Keys
     /\ DOMAIN props = Names(fields[kind])
     /\ \A name \in DOMAIN Keys[kind] \ stale : props[name] = ValueOf(kind, name)

LEMMA CacheInit == UpdatesInit => CacheInv
  BY DEF UpdatesInit, CacheInv

LEMMA CacheAppear ==
  ASSUME NEW k \in DOMAIN Keys, Appear(k)
  PROVE  CacheInv'
<1>1. kind' = k /\ truth' \in Dictionary(k) /\ props' = Received(k, extract_props(k, truth'))
  BY DEF Appear
<1>2. /\ DOMAIN props' = Names(fields[k])
      /\ \A name \in DOMAIN Keys[k] :
           props'[name] = get_prop(truth', Keys[k][name], Type(k, name))
  BY <1>1, SnapshotExact
<1>3. \A name \in DOMAIN Keys[k] : (props[name] = ValueOf(kind, name))'
  BY <1>1, <1>2 DEF ValueOf
<1>4. QED
  BY <1>1, <1>2, <1>3 DEF CacheInv

LEMMA CacheReappear ==
  ASSUME CacheInv, Reappear
  PROVE  CacheInv'
<1>. DEFINE p == Received(kind, extract_props(kind, truth'))
<1>1. /\ kind # None /\ kind' = kind /\ truth' \in Dictionary(kind)
      /\ IF kind = "AdapterProps"
         THEN props' = updateProps(kind, p) /\ stale' = DOMAIN Keys[kind] \ Tracked(kind)
         ELSE props' = p /\ stale' = {}
  BY DEF Reappear
<1>2. kind \in DOMAIN Keys /\ DOMAIN props = Names(fields[kind])
  BY <1>1 DEF CacheInv
<1>3. /\ DOMAIN p = Names(fields[kind])
      /\ \A name \in DOMAIN Keys[kind] : p[name] = get_prop(truth', Keys[kind][name], Type(kind, name))
      /\ kind \in HasMask => p.changedMask = AllBits
  BY <1>1, <1>2, SnapshotExact
<1>. HIDE DEF p
<1>4. CASE kind = "AdapterProps"
  <2>1. kind \in HasMask /\ Tracked(kind) = DOMAIN NativeBits[kind]
    BY <1>4 DEF HasMask, Tracked
  <2>2. Taken(kind, p.changedMask) = DOMAIN NativeBits[kind]
    BY <2>1, <1>3, AllBitsExact
  <2>3. DOMAIN props' = Names(fields[kind])
    BY <1>1, <1>2, <1>4, UpdateTakes
  <2>4. ASSUME NEW name \in DOMAIN Keys[kind] \ stale'
        PROVE  props'[name] = get_prop(truth', Keys[kind][name], Type(kind, name))
    <3>1. name \in DOMAIN NativeBits[kind]
      BY <1>1, <1>4, <2>1
    <3>2. name \in DOMAIN props /\ name # "changedMask"
      BY <1>2, TypeOf
    <3>3. props'[name] = p[name]
      BY <1>1, <1>4, <2>2, <3>1, <3>2, UpdateTakes
    <3>4. QED
      BY <3>3, <1>3
  <2>5. \A name \in DOMAIN Keys[kind] \ stale' : (props[name] = ValueOf(kind, name))'
    BY <1>1, <2>4 DEF ValueOf
  <2>6. QED
    BY <1>1, <1>2, <2>3, <2>5 DEF CacheInv
<1>5. CASE kind # "AdapterProps"
  <2>1. \A name \in DOMAIN Keys[kind] : (props[name] = ValueOf(kind, name))'
    BY <1>1, <1>3, <1>5 DEF ValueOf
  <2>2. QED
    BY <1>1, <1>2, <1>3, <1>5, <2>1 DEF CacheInv
<1>6. QED
  BY <1>4, <1>5

\* updateProps takes from a PropertiesChanged its fields that have a bit.
LEMMA ChangedTaken ==
  ASSUME NEW k \in HasMask, NEW names \in SUBSET DOMAIN Keys[k], NEW extreme,
         NEW p, p = Received(k, partial_props(k, Changed(k, names, extreme)))
  PROVE  /\ Taken(k, p.changedMask) = names \cap Tracked(k)
         /\ \A n \in names \cap Tracked(k) : p[n] = Changed(k, names, extreme)[Keys[k][n]]
<1>. DEFINE changed == Changed(k, names, extreme)
<1>1. k \in DOMAIN Keys /\ Tracked(k) = DOMAIN NativeBits[k] /\ Tracked(k) \subseteq DOMAIN Keys[k]
  BY BitsAgree DEF Tracked
<1>2. \A n \in DOMAIN Keys[k] : /\ Keys[k][n] \in DOMAIN changed <=> n \in names
                                /\ n \in names => IsValue(Type(k, n), changed[Keys[k][n]])
  BY <1>1, ChangedValues
<1>. HIDE DEF changed
<1>3. p = Received(k, partial_props(k, changed))
  BY DEF changed
<1>4. /\ Taken(k, p.changedMask)
           = {n \in DOMAIN NativeBits[k] : Keys[k][n] \in DOMAIN changed}
      /\ \A n \in DOMAIN NativeBits[k] :
           Keys[k][n] \in DOMAIN changed => p[n] = changed[Keys[k][n]]
  BY <1>2, <1>3, PartialExact
<1>5. QED
  BY <1>1, <1>2, <1>4 DEF changed

LEMMA CacheChanged ==
  ASSUME CacheInv, kind \in HasMask,
         NEW names \in SUBSET DOMAIN Keys[kind], NEW extreme,
         NEW gone \in SUBSET DOMAIN Keys[kind],
         PropertiesChanged(names, extreme, gone)
  PROVE  CacheInv'
<1>. DEFINE changed == Changed(kind, names, extreme)
            p == Received(kind, partial_props(kind, changed))
<1>0. kind \in DOMAIN Keys /\ DOMAIN NativeBits[kind] \subseteq DOMAIN Keys[kind]
      /\ Tracked(kind) = DOMAIN NativeBits[kind]
  BY BitsAgree DEF Tracked
<1>1. /\ kind' = kind
      /\ stale' = (stale \cup names \cup gone) \ (names \cap Tracked(kind))
      /\ truth' = Overwritten(truth, PropertiesOf(kind, gone), changed)
      /\ props' = updateProps(kind, p)
  BY DEF PropertiesChanged
<1>2. /\ DOMAIN props = Names(fields[kind])
      /\ \A n \in DOMAIN Keys[kind] \ stale : props[n] = ValueOf(kind, n)
  <2>1. kind # None
    BY DEF HasMask, None
  <2>2. QED
    BY <2>1 DEF CacheInv
<1>3. \A n \in DOMAIN Keys[kind] : Keys[kind][n] \in DOMAIN changed <=> n \in names
  BY <1>0, ChangedValues
<1>. HIDE DEF changed
<1>4. \A key \in DOMAIN changed : key \in DOMAIN truth' /\ truth'[key] = changed[key]
  BY <1>1 DEF Overwritten
<1>5. ASSUME NEW key, key \notin DOMAIN changed, key \notin PropertiesOf(kind, gone)
      PROVE  /\ key \in DOMAIN truth' <=> key \in DOMAIN truth
             /\ key \in DOMAIN truth => truth'[key] = truth[key]
  BY <1>1, <1>5 DEF Overwritten
<1>6. /\ Taken(kind, p.changedMask) = names \cap Tracked(kind)
      /\ \A n \in names \cap Tracked(kind) : p[n] = changed[Keys[kind][n]]
  BY ChangedTaken DEF changed
<1>. HIDE DEF p
<1>7. DOMAIN props' = Names(fields[kind])
  BY <1>1, <1>2, UpdateTakes
<1>8. ASSUME NEW n \in DOMAIN Keys[kind] \ stale'
      PROVE  props'[n] = get_prop(truth', Keys[kind][n], Type(kind, n))
  <2>1. n \in DOMAIN props /\ n # "changedMask"
    BY <1>0, <1>2, TypeOf
  <2>2. CASE n \in names
    <3>1. n \in names \cap Tracked(kind) /\ Keys[kind][n] \in DOMAIN changed
      BY <2>2, <1>1, <1>3
    <3>2. n \in Taken(kind, p.changedMask) /\ p[n] = changed[Keys[kind][n]]
      BY <3>1, <1>6
    <3>3. props'[n] = changed[Keys[kind][n]]
      BY <2>1, <3>2, <1>1, UpdateTakes
    <3>4. get_prop(truth', Keys[kind][n], Type(kind, n)) = changed[Keys[kind][n]]
      BY <3>1, <1>4 DEF get_prop
    <3>5. QED
      BY <3>3, <3>4
  <2>3. CASE n \notin names
    <3>1. Keys[kind][n] \notin DOMAIN changed /\ n \notin gone /\ n \notin stale
      BY <2>3, <1>1, <1>3
    <3>2. Keys[kind][n] \notin PropertiesOf(kind, gone)
      BY <3>1, <1>0, KeysDiffer DEF PropertiesOf
    <3>3. n \notin Taken(kind, p.changedMask)
      BY <2>3, <1>6
    <3>4. props'[n] = props[n]
      BY <2>1, <3>3, <1>1, UpdateTakes
    <3>5. get_prop(truth', Keys[kind][n], Type(kind, n)) = get_prop(truth, Keys[kind][n], Type(kind, n))
      BY <3>1, <3>2, <1>5 DEF get_prop
    <3>6. QED
      BY <3>1, <3>4, <3>5, <1>2 DEF ValueOf
  <2>4. QED
    BY <2>2, <2>3
<1>9. \A n \in DOMAIN Keys[kind] \ stale' : (props[n] = ValueOf(kind, n))'
  BY <1>1, <1>8 DEF ValueOf
<1>10. QED
  BY <1>0, <1>1, <1>7, <1>9 DEF CacheInv

LEMMA CacheStutter ==
  ASSUME CacheInv, UNCHANGED objectVars
  PROVE  CacheInv'
<1>1. kind' = kind /\ props' = props /\ truth' = truth /\ stale' = stale
  BY DEF objectVars
<1>2. QED
  BY <1>1 DEF CacheInv, ValueOf

LEMMA CacheNext == CacheInv /\ [UpdatesNext]_<<vars, objectVars>> => CacheInv'
<1>. SUFFICES ASSUME CacheInv, [UpdatesNext]_<<vars, objectVars>> PROVE CacheInv'
  OBVIOUS
<1>1. CASE Codec
  BY <1>1, CacheStutter DEF Codec
<1>2. CASE Announced
  BY <1>2, CacheAppear, CacheReappear DEF Announced
<1>3. CASE Updated
  BY <1>3, CacheChanged, SignalsAssumption DEF Updated
<1>4. CASE UNCHANGED <<vars, objectVars>>
  BY <1>4, CacheStutter
<1>5. QED
  BY <1>1, <1>2, <1>3, <1>4 DEF UpdatesNext

LEMMA CacheInvariant == UpdatesSpec => []CacheInv
  BY CacheInit, CacheNext, PTL DEF UpdatesSpec

\* A cached field of an object in Dart has the daemon's value of it, or the default
\* where the daemon has none, unless no message has brought it: whatever the values.
THEOREM CacheExactHolds == UpdatesSpec => []CacheExact
<1>1. CacheInv => CacheExact
  BY DEF CacheInv, CacheExact
<1>2. QED
  BY <1>1, CacheInvariant, PTL

\* What BlueZDevice reports of a signal are just the fields that the message brings
\* and that differ from what the object showed; a change of a property that has no bit,
\* or that is invalidated, is brought by no message and reported by nothing.
THEOREM ReportsExactHolds == UpdatesSpec => ReportsExact
<1>. DEFINE Reported ==
       kind = "DeviceProps" /\ Updated =>
         told' = {name \in DOMAIN Keys[kind] \ stale' : ValueOf(kind, name)' # props[name]}
<1>1. CacheInv /\ CacheInv' => Reported
  <2>1. SUFFICES ASSUME CacheInv, CacheInv', kind = "DeviceProps", Updated PROVE
          told' = {name \in DOMAIN Keys[kind] \ stale' : ValueOf(kind, name)' # props[name]}
    OBVIOUS
  <2>2. kind \in HasMask /\ kind \in DOMAIN Keys /\ kind # None
        /\ Tracked(kind) \subseteq DOMAIN Keys[kind]
    BY <2>1, BitsAgree DEF HasMask, None, Tracked
  <2>3. PICK s \in Signals(kind) : \E extreme \in SUBSET s.changed :
          PropertiesChanged(s.changed, extreme, s.invalidated)
    BY <2>1 DEF Updated
  <2>4. PICK extreme \in SUBSET s.changed : PropertiesChanged(s.changed, extreme, s.invalidated)
    BY <2>3
  <2>5. s.changed \in SUBSET DOMAIN Keys[kind]
    BY <2>2, SignalsAssumption
  <2>. DEFINE p == Received(kind, partial_props(kind, Changed(kind, s.changed, extreme)))
  <2>6. /\ kind' = kind /\ told' = Differing(props, props', Tracked(kind))
        /\ props' = updateProps(kind, p)
        /\ stale' = (stale \cup s.changed \cup s.invalidated) \ (s.changed \cap Tracked(kind))
    BY <2>1, <2>4 DEF PropertiesChanged
  <2>7. Taken(kind, p.changedMask) = s.changed \cap Tracked(kind)
    BY <2>2, <2>5, ChangedTaken
  <2>. HIDE DEF p
  <2>8. ASSUME NEW name \in DOMAIN Keys[kind]
        PROVE  name \in told' <=> name \notin stale' /\ ValueOf(kind, name)' # props[name]
    <3>1. name \in DOMAIN props /\ name # "changedMask"
      BY <2>1, <2>2, TypeOf DEF CacheInv
    <3>2. name \notin s.changed \cap Tracked(kind) => props'[name] = props[name]
      BY <2>6, <2>7, <3>1, UpdateTakes
    <3>3. name \notin stale' => props'[name] = ValueOf(kind, name)'
      BY <2>1, <2>2, <2>6 DEF CacheInv
    <3>4. name \in told' <=> name \in Tracked(kind) /\ props[name] # props'[name]
      BY <2>6 DEF Differing
    <3>5. CASE name \in s.changed \cap Tracked(kind)
      BY <2>6, <3>3, <3>4, <3>5
    <3>6. CASE name \notin s.changed \cap Tracked(kind)
      BY <3>2, <3>3, <3>4, <3>6
    <3>7. QED
      BY <3>5, <3>6
  <2>9. told' \subseteq DOMAIN Keys[kind]
    BY <2>2, <2>6 DEF Differing
  <2>10. QED
    BY <2>8, <2>9
<1>2. CacheInv /\ CacheInv' => [Reported]_<<vars, objectVars>>
  BY <1>1
<1>. HIDE DEF Reported
<1>3. UpdatesSpec => [][Reported]_<<vars, objectVars>>
  BY <1>2, CacheInvariant, PTL
<1>4. QED
  BY <1>3, PTL DEF ReportsExact, Reported
=============================================================================
