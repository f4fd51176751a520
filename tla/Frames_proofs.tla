--------------------------- MODULE Frames_proofs ---------------------------
(***************************************************************************)
(* What the streams of Frames are made of comes out of them again: pieces  *)
(* joined, records cut apart, frames unframed.                             *)
(***************************************************************************)
EXTENDS Frames, Integers, SequenceTheorems, WellFoundedInduction, TLAPS

LEMMA LeastNumber ==
  ASSUME NEW T \in SUBSET Nat, T # {}
  PROVE  \E m \in T : \A k \in T : m <= k
<1> DEFINE R == OpToRel(<, Nat)
<1>1. IsWellFoundedOn(R, Nat)
  BY NatLessThanWellFounded
<1>2. \A x, y \in Nat : y < x => <<y, x>> \in R
  BY DEF OpToRel
<1> HIDE DEF R
<1>3. PICK m \in T : \A k \in T : ~(<<k, m>> \in R)
  BY <1>1, WFMin, Zenon
<1>4. \A k \in T : ~(k < m)
  BY <1>2, <1>3
<1> QED
  BY <1>4

(* What holds of 0, and of k + 1 if of k, holds up to n: T holds the       *)
(* numbers it holds of.                                                    *)
LEMMA Climb ==
  ASSUME NEW n \in Nat, NEW T, 0 \in T, \A k \in 0 .. n - 1 : k \in T => k + 1 \in T
  PROVE  \A k \in 0 .. n : k \in T
<1> DEFINE B == {k \in 0 .. n : k \notin T}
<1>1. ASSUME B # {}
      PROVE  FALSE
  <2>1. PICK m \in B : \A k \in B : m <= k
    <3> HIDE DEF B
    <3>1. B \in SUBSET Nat
      BY DEF B
    <3> QED
      BY <1>1, <3>1, LeastNumber
  <2>2. m # 0 /\ m \in 0 .. n /\ m \notin T
    OBVIOUS
  <2>3. m - 1 \in 0 .. n - 1 /\ m - 1 \notin B
    BY <2>1, <2>2
  <2>4. m - 1 \in T
    BY <2>3
  <2>5. (m - 1) + 1 \in T
    BY <2>3, <2>4
  <2> QED
    BY <2>2, <2>5
<1> QED
  BY <1>1

-----------------------------------------------------------------------------
(* FlattenSeq: its recursion on the first sequences.                       *)
FlatStep(g, q, k) == IF k = 1 THEN q[k] ELSE g[k - 1] \o q[k]

IsFlat(g, q, n) == g = [k \in 1 .. n |-> FlatStep(g, q, k)]

LEMMA FlatExists ==
  ASSUME NEW q, NEW n \in Nat
  PROVE  \E g : IsFlat(g, q, n)
<1> DEFINE T == {k \in Nat : \E g : IsFlat(g, q, k)}
<1>1. 0 \in T
  <2> DEFINE g == [k \in 1 .. 0 |-> 0]
  <2>1. g = [k \in 1 .. 0 |-> FlatStep(g, q, k)]
    OBVIOUS
  <2> HIDE DEF g
  <2> QED
    BY <2>1 DEF IsFlat
<1>2. ASSUME NEW m \in 0 .. n - 1, m \in T
      PROVE  m + 1 \in T
  <2>1. PICK g : IsFlat(g, q, m)
    BY <1>2
  <2> DEFINE h == [k \in 1 .. m + 1 |-> IF k <= m THEN g[k] ELSE FlatStep(g, q, k)]
  <2>2. \A k \in 1 .. m : h[k] = g[k] /\ g[k] = FlatStep(g, q, k)
    BY <2>1 DEF IsFlat
  <2>3. \A k \in 1 .. m + 1 : h[k] = FlatStep(g, q, k)
    <3>1. h[m + 1] = FlatStep(g, q, m + 1)
      OBVIOUS
    <3>2. \A k \in 1 .. m + 1 : k \in 1 .. m \/ k = m + 1
      OBVIOUS
    <3> HIDE DEF h
    <3> QED
      BY <2>2, <3>1, <3>2
  <2>4. h = [k \in 1 .. m + 1 |-> h[k]]
    OBVIOUS
  <2> HIDE DEF h
  <2>5. \A k \in 1 .. m + 1 : FlatStep(h, q, k) = FlatStep(g, q, k)
    <3> SUFFICES ASSUME NEW k \in 1 .. m + 1, k # 1
                 PROVE  h[k - 1] = g[k - 1]
      BY DEF FlatStep
    <3>1. k - 1 \in 1 .. m
      OBVIOUS
    <3> QED
      BY <2>2, <3>1
  <2>6. h = [k \in 1 .. m + 1 |-> FlatStep(h, q, k)]
    BY <2>3, <2>4, <2>5
  <2> QED
    BY <2>6 DEF IsFlat
<1> HIDE DEF T
<1>3. n \in T
  BY <1>1, <1>2, Climb
<1> QED
  BY <1>3 DEF T

LEMMA FlatSame ==
  ASSUME NEW g, NEW q, NEW n \in Nat, IsFlat(g, q, n),
         NEW h, NEW r, NEW m \in Nat, IsFlat(h, r, m),
         n <= m, \A k \in 1 .. n : q[k] = r[k]
  PROVE  \A k \in 1 .. n : g[k] = h[k]
<1> DEFINE T == {k \in 0 .. n : k = 0 \/ g[k] = h[k]}
<1>1. 0 \in T
  OBVIOUS
<1>2. ASSUME NEW k \in 0 .. n - 1, k \in T
      PROVE  k + 1 \in T
  <2>1. k + 1 \in 1 .. n /\ k + 1 \in 1 .. m
    OBVIOUS
  <2>2. g[k + 1] = FlatStep(g, q, k + 1) /\ h[k + 1] = FlatStep(h, r, k + 1)
    BY <2>1 DEF IsFlat
  <2>3. q[k + 1] = r[k + 1]
    BY <2>1
  <2>4. k = 0 \/ g[k] = h[k]
    BY <1>2
  <2>5. FlatStep(g, q, k + 1) = FlatStep(h, r, k + 1)
    BY <2>3, <2>4 DEF FlatStep
  <2> QED
    BY <2>2, <2>5
<1>3. \A k \in 0 .. n : k \in T
  <2> HIDE DEF T
  <2> QED
    BY <1>1, <1>2, Climb
<1> QED
  BY <1>3

LEMMA FlattenEmpty == FlattenSeq(<<>>) = <<>>
  BY DEF FlattenSeq

LEMMA FlattenIs ==
  ASSUME NEW q, Len(q) \in Nat, Len(q) # 0, NEW g, IsFlat(g, q, Len(q))
  PROVE  FlattenSeq(q) = g[Len(q)]
<1> DEFINE n == Len(q)
           f == CHOOSE h : IsFlat(h, q, n)
<1>1. FlattenSeq(q) = f[n]
  BY DEF FlattenSeq, IsFlat, FlatStep
<1>2. IsFlat(f, q, n)
  <2> HIDE DEF f
  <2>1. \E h : IsFlat(h, q, n)
    BY FlatExists
  <2> QED
    BY <2>1 DEF f
<1> HIDE DEF f
<1>3. f[n] = g[n]
  <2>1. n \in 1 .. n /\ n \in Nat /\ n <= n
    OBVIOUS
  <2> HIDE DEF n
  <2> QED
    BY <1>2, <2>1, FlatSame DEF n
<1> QED
  BY <1>1, <1>3

LEMMA FlattenAppend ==
  ASSUME NEW S, NEW q \in Seq(Seq(S)), NEW s \in Seq(S)
  PROVE  FlattenSeq(Append(q, s)) = FlattenSeq(q) \o s
<1> DEFINE r == Append(q, s)
           n == Len(q)
           m == Len(r)
<1>1. /\ n \in Nat /\ m = n + 1
      /\ \A k \in 1 .. n : q[k] = r[k]
      /\ r[m] = s
  BY AppendProperties
<1> HIDE DEF r, n, m
<1>2. m \in Nat /\ m \in 1 .. m /\ m # 0 /\ n <= m /\ m - 1 = n
  BY <1>1
<1>3. PICK g : IsFlat(g, q, n)
  BY <1>1, FlatExists
<1>4. PICK h : IsFlat(h, r, m)
  BY <1>2, FlatExists
<1>5. FlattenSeq(r) = h[m]
  BY <1>2, <1>4, FlattenIs DEF m
<1>6. h[m] = FlatStep(h, r, m)
  BY <1>2, <1>4 DEF IsFlat
<1>7. CASE n = 0
  <2>1. FlattenSeq(q) = <<>>
    <3>1. q = <<>>
      BY <1>7 DEF n
    <3> QED
      BY <3>1, FlattenEmpty
  <2>2. h[m] = s
    BY <1>1, <1>6, <1>7 DEF FlatStep
  <2> QED
    BY <1>5, <2>1, <2>2 DEF r
<1>8. CASE n # 0
  <2>1. FlattenSeq(q) = g[n]
    BY <1>1, <1>3, <1>8, FlattenIs DEF n
  <2>2. \A k \in 1 .. n : g[k] = h[k]
    BY <1>1, <1>2, <1>3, <1>4, FlatSame
  <2>3. n \in 1 .. n /\ m # 1
    BY <1>1, <1>8
  <2>4. h[m] = h[n] \o s
    BY <1>1, <1>2, <1>6, <2>3 DEF FlatStep
  <2> QED
    BY <1>5, <2>1, <2>2, <2>3, <2>4 DEF r
<1> QED
  BY <1>7, <1>8

LEMMA FlattenType ==
  ASSUME NEW S, NEW q \in Seq(Seq(S))
  PROVE  FlattenSeq(q) \in Seq(S)
<1> DEFINE n == Len(q)
<1>1. n \in Nat /\ \A k \in 1 .. n : q[k] \in Seq(S)
  OBVIOUS
<1>2. CASE n = 0
  <2>1. q = <<>> /\ <<>> \in Seq(S)
    BY <1>2
  <2> QED
    BY <2>1, FlattenEmpty, Zenon
<1>3. CASE n # 0
  <2>1. PICK g : IsFlat(g, q, n)
    BY <1>1, FlatExists
  <2>2. FlattenSeq(q) = g[n]
    BY <1>1, <1>3, <2>1, FlattenIs
  <2> DEFINE T == {k \in 0 .. n : k = 0 \/ g[k] \in Seq(S)}
  <2> HIDE DEF n
  <2>3. 0 \in T
    BY <1>1
  <2>4. ASSUME NEW k \in 0 .. n - 1, k \in T
        PROVE  k + 1 \in T
    <3>1. k + 1 \in 1 .. n /\ k + 1 \in 0 .. n
      BY <1>1
    <3>2. g[k + 1] = FlatStep(g, q, k + 1) /\ q[k + 1] \in Seq(S)
      BY <1>1, <2>1, <3>1 DEF IsFlat
    <3>3. CASE k = 0
      <4>1. FlatStep(g, q, k + 1) = q[k + 1]
        BY <3>3 DEF FlatStep
      <4> QED
        BY <3>1, <3>2, <4>1
    <3>4. CASE k # 0
      <4>1. g[k] \in Seq(S)
        BY <2>4, <3>4
      <4>2. FlatStep(g, q, k + 1) = g[k] \o q[k + 1]
        <5>1. (k + 1) - 1 = k /\ k + 1 # 1
          BY <3>4
        <5> QED
          BY <5>1 DEF FlatStep
      <4>3. g[k] \o q[k + 1] \in Seq(S)
        BY <3>2, <4>1, ConcatProperties
      <4> QED
        BY <3>1, <3>2, <4>2, <4>3
    <3> QED
      BY <3>3, <3>4
  <2>5. \A k \in 0 .. n : k \in T
    <3> HIDE DEF T
    <3> QED
      BY <1>1, <2>3, <2>4, Climb
  <2> QED
    BY <1>1, <1>3, <2>2, <2>5 DEF T
<1> QED
  BY <1>2, <1>3

(* The first k sequences together.                                         *)
Joined(q, k) == FlattenSeq(SubSeq(q, 1, k))

LEMMA JoinedType ==
  ASSUME NEW S, NEW q \in Seq(Seq(S)), NEW k \in 0 .. Len(q)
  PROVE  Joined(q, k) \in Seq(S) /\ Len(Joined(q, k)) \in Nat
<1>1. SubSeq(q, 1, k) \in Seq(Seq(S))
  OBVIOUS
<1>2. Joined(q, k) \in Seq(S)
  BY <1>1, FlattenType DEF Joined
<1> QED
  BY <1>2

LEMMA JoinedSteps ==
  ASSUME NEW S, NEW q \in Seq(Seq(S))
  PROVE  /\ Joined(q, 0) = <<>>
         /\ Joined(q, Len(q)) = FlattenSeq(q)
         /\ \A k \in 0 .. Len(q) - 1 : Joined(q, k + 1) = Joined(q, k) \o q[k + 1]
<1>1. Joined(q, 0) = <<>>
  <2>1. SubSeq(q, 1, 0) = <<>>
    OBVIOUS
  <2> QED
    BY <2>1, FlattenEmpty DEF Joined
<1>2. Joined(q, Len(q)) = FlattenSeq(q)
  <2>1. SubSeq(q, 1, Len(q)) = q
    BY SubSeqFull
  <2> QED
    BY <2>1 DEF Joined
<1>3. ASSUME NEW k \in 0 .. Len(q) - 1
      PROVE  Joined(q, k + 1) = Joined(q, k) \o q[k + 1]
  <2> DEFINE p == SubSeq(q, 1, k)
  <2>1. p \in Seq(Seq(S)) /\ q[k + 1] \in Seq(S)
    OBVIOUS
  <2>2. SubSeq(q, 1, k + 1) = Append(p, q[k + 1])
    OBVIOUS
  <2> HIDE DEF p
  <2>3. FlattenSeq(Append(p, q[k + 1])) = FlattenSeq(p) \o q[k + 1]
    BY <2>1, FlattenAppend
  <2> QED
    BY <2>2, <2>3 DEF Joined, p
<1> QED
  BY <1>1, <1>2, <1>3

(* Each of the sequences is a part of the whole: from Joined(q, k - 1) on. *)
LEMMA JoinedPart ==
  ASSUME NEW S, NEW q \in Seq(Seq(S)), NEW k \in 1 .. Len(q)
  PROVE  /\ Len(Joined(q, k)) = Len(Joined(q, k - 1)) + Len(q[k])
         /\ Len(Joined(q, k)) <= Len(FlattenSeq(q))
         /\ \A j \in 1 .. Len(q[k]) : FlattenSeq(q)[Len(Joined(q, k - 1)) + j] = q[k][j]
<1> DEFINE n == Len(q)
           from == Len(Joined(q, k - 1))
           Part(m) == /\ Len(Joined(q, k)) <= Len(Joined(q, m))
                      /\ \A j \in 1 .. Len(q[k]) : Joined(q, m)[from + j] = q[k][j]
           T == {m \in 0 .. n : m < k \/ Part(m)}
<1>1. /\ n \in Nat /\ k \in 1 .. n /\ k - 1 \in 0 .. n /\ k - 1 \in 0 .. n - 1
      /\ q[k] \in Seq(S) /\ Len(q[k]) \in Nat
  OBVIOUS
<1>2. from \in Nat /\ Joined(q, k - 1) \in Seq(S) /\ \A m \in 0 .. n : Joined(q, m) \in Seq(S)
  BY <1>1, JoinedType
<1>3. Joined(q, k) = Joined(q, k - 1) \o q[k]
  <2> DEFINE l == k - 1
  <2>1. l \in 0 .. Len(q) - 1 /\ l + 1 = k
    BY <1>1
  <2> HIDE DEF l
  <2>2. Joined(q, l + 1) = Joined(q, l) \o q[l + 1]
    BY <2>1, JoinedSteps
  <2> QED
    BY <2>1, <2>2 DEF l
<1>4. Len(Joined(q, k)) = from + Len(q[k])
  BY <1>1, <1>2, <1>3
<1>5. Part(k)
  BY <1>1, <1>2, <1>3, <1>4
<1>6. 0 \in T
  BY <1>1
<1>7. ASSUME NEW m \in 0 .. n - 1, m \in T
      PROVE  m + 1 \in T
  <2>1. CASE m + 1 < k
    BY <1>1, <2>1
  <2>2. CASE m + 1 = k
    BY <1>1, <1>5, <2>2
  <2>3. CASE m + 1 > k
    <3>1. Part(m)
      BY <1>1, <1>7, <2>3
    <3>2. Joined(q, m + 1) = Joined(q, m) \o q[m + 1]
      BY <1>1, JoinedSteps
    <3>3. Joined(q, m) \in Seq(S) /\ q[m + 1] \in Seq(S)
      BY <1>1, <1>2
    <3> HIDE DEF n, from
    <3> DEFINE a == Joined(q, m)
               b == q[m + 1]
    <3>5. /\ Len(a \o b) = Len(a) + Len(b) /\ Len(a) \in Nat /\ Len(b) \in Nat
          /\ \A i \in 1 .. Len(a) : (a \o b)[i] = a[i]
      BY <3>3, ConcatProperties
    <3>6. /\ Len(Joined(q, k)) <= Len(a)
          /\ \A j \in 1 .. Len(q[k]) : a[from + j] = q[k][j]
      BY <3>1
    <3>7. Joined(q, m + 1) = a \o b
      BY <3>2
    <3> HIDE DEF a, b
    <3>8. Len(Joined(q, k)) <= Len(a \o b)
      BY <1>1, <1>2, <1>4, <3>5, <3>6
    <3>9. \A j \in 1 .. Len(q[k]) : from + j \in 1 .. Len(a)
      BY <1>1, <1>2, <1>4, <3>5, <3>6
    <3>10. \A j \in 1 .. Len(q[k]) : (a \o b)[from + j] = q[k][j]
      BY <3>5, <3>6, <3>9
    <3>4. Part(m + 1)
      BY <3>7, <3>8, <3>10
    <3> QED
      BY <1>1, <3>4
  <2> QED
    BY <1>1, <2>1, <2>2, <2>3
<1>8. n \in T
  <2> HIDE DEF T, n
  <2>1. \A m \in 0 .. n : m \in T
    BY <1>1, <1>6, <1>7, Climb
  <2> QED
    BY <1>1, <2>1
<1>9. Part(n) /\ Joined(q, n) = FlattenSeq(q)
  BY <1>1, <1>8, JoinedSteps
<1> QED
  BY <1>4, <1>9

-----------------------------------------------------------------------------
(* Pieces.                                                                 *)
LEMMA Ceiling ==
  ASSUME NEW l \in Nat, NEW n \in Nat \ {0}, NEW c, c = (l + n - 1) \div n
  PROVE  /\ c \in Nat /\ c * n >= l
         /\ \A i \in 1 .. c : (i - 1) * n \in Nat /\ i * n \in Nat /\ (i - 1) * n < l
<1> DEFINE x == l + n - 1
           r == x % n
<1>1. x \in Nat
  OBVIOUS
<1> HIDE DEF x
<1>2. c = x \div n
  BY DEF x
<1>3. c \in Int /\ r \in 0 .. n - 1
  BY <1>1, <1>2
<1>4. x = c * n + r
  BY <1>1, <1>2
<1>5. c >= 0
  BY <1>1, <1>2
<1> HIDE DEF r
<1>6. c * n \in Int /\ c * n >= l
  <2>1. c * n \in Int
    BY <1>3
  <2>2. x = l + n - 1
    BY DEF x
  <2> QED
    BY <1>3, <1>4, <2>1, <2>2
<1>7. ASSUME NEW i \in 1 .. c
      PROVE  (i - 1) * n \in Nat /\ i * n \in Nat /\ (i - 1) * n < l
  <2>1. i \in Nat /\ i - 1 \in Nat /\ c - i \in Nat
    BY <1>3, <1>5
  <2>2. (i - 1) * n \in Nat /\ i * n \in Nat /\ (c - i) * n \in Nat /\ (c - 1) * n \in Int
    BY <1>3, <2>1
  <2>3. (c - 1) * n = (i - 1) * n + (c - i) * n
    BY <1>3, <2>1
  <2>4. c * n = (c - 1) * n + n
    BY <1>3
  <2>5. (c - 1) * n < l
    <3>1. x = l + n - 1
      BY DEF x
    <3> QED
      BY <1>3, <1>4, <1>6, <2>2, <2>4, <3>1
  <2> QED
    BY <2>2, <2>3, <2>5
<1> QED
  BY <1>3, <1>5, <1>6, <1>7

LEMMA PieceIs ==
  ASSUME NEW S, NEW s \in Seq(S), NEW n \in Nat \ {0}
  PROVE  /\ Pieces(s, n) \in Seq(Seq(S))
         /\ Len(Pieces(s, n)) = (Len(s) + n - 1) \div n
         /\ \A i \in 1 .. Len(Pieces(s, n)) :
              /\ Pieces(s, n)[i] = SubSeq(s, (i - 1) * n + 1, Least(i * n, Len(s)))
              /\ Len(Pieces(s, n)[i]) = Least(i * n, Len(s)) - (i - 1) * n
              /\ (i - 1) * n \in Nat /\ i * n \in Nat /\ (i - 1) * n < Len(s)
<1> DEFINE c == (Len(s) + n - 1) \div n
           P == [i \in 1 .. c |-> SubSeq(s, (i - 1) * n + 1, Least(i * n, Len(s)))]
<1>1. /\ c \in Nat
      /\ \A i \in 1 .. c : (i - 1) * n \in Nat /\ i * n \in Nat /\ (i - 1) * n < Len(s)
  <2> HIDE DEF c
  <2>1. Len(s) \in Nat /\ c = (Len(s) + n - 1) \div n
    BY DEF c
  <2> QED
    BY <2>1, Ceiling
<1>2. Pieces(s, n) = P
  BY DEF Pieces
<1> HIDE DEF c
<1>3. ASSUME NEW i \in 1 .. c
      PROVE  /\ P[i] = SubSeq(s, (i - 1) * n + 1, Least(i * n, Len(s)))
             /\ P[i] \in Seq(S)
             /\ Len(P[i]) = Least(i * n, Len(s)) - (i - 1) * n
  <2> DEFINE a == (i - 1) * n
             b == i * n
  <2>1. a \in Nat /\ b \in Nat /\ a < Len(s) /\ b = a + n
    BY <1>1
  <2>2. P[i] = SubSeq(s, a + 1, Least(b, Len(s)))
    OBVIOUS
  <2> HIDE DEF a, b, P
  <2>3. Least(b, Len(s)) \in a + 1 .. Len(s)
    BY <2>1 DEF Least
  <2>4. P[i] \in Seq(S) /\ Len(P[i]) = Least(b, Len(s)) - a
    BY <2>1, <2>2, <2>3
  <2> QED
    BY <2>2, <2>4 DEF a, b
<1>4. P \in Seq(Seq(S)) /\ Len(P) = c
  <2>1. P = [i \in 1 .. c |-> P[i]] /\ \A i \in 1 .. c : P[i] \in Seq(S)
    BY <1>3
  <2> HIDE DEF P
  <2> QED
    BY <1>1, <2>1
<1> HIDE DEF P
<1> QED
  BY <1>1, <1>2, <1>3, <1>4 DEF c

(* The pieces of a sequence joined are the sequence.                       *)
LEMMA FlattenPieces ==
  ASSUME NEW S, NEW s \in Seq(S), NEW n \in Nat \ {0}
  PROVE  FlattenSeq(Pieces(s, n)) = s
<1> DEFINE P == Pieces(s, n)
           c == Len(P)
           T == {k \in 0 .. c : Joined(P, k) = SubSeq(s, 1, Least(k * n, Len(s)))}
<1>1. P \in Seq(Seq(S)) /\ c \in Nat /\ c = (Len(s) + n - 1) \div n /\ Len(s) \in Nat
  BY PieceIs
<1>2. \A i \in 1 .. c :
        /\ P[i] = SubSeq(s, (i - 1) * n + 1, Least(i * n, Len(s)))
        /\ (i - 1) * n \in Nat /\ i * n \in Nat /\ (i - 1) * n < Len(s)
  BY PieceIs
<1> HIDE DEF P, c
<1>3. 0 \in T
  <2>1. Least(0 * n, Len(s)) = 0
    <3>1. 0 * n = 0
      OBVIOUS
    <3> QED
      BY <1>1, <3>1 DEF Least
  <2>2. SubSeq(s, 1, 0) = <<>>
    OBVIOUS
  <2>3. Joined(P, 0) = <<>>
    BY <1>1, JoinedSteps
  <2>4. Joined(P, 0) = SubSeq(s, 1, Least(0 * n, Len(s)))
    BY <2>1, <2>2, <2>3, Zenon
  <2>5. 0 \in 0 .. c
    BY <1>1
  <2> QED
    BY <2>4, <2>5, Zenon
<1>4. ASSUME NEW k \in 0 .. c - 1, k \in T
      PROVE  k + 1 \in T
  <2> DEFINE a == k * n
             b == Least((k + 1) * n, Len(s))
  <2>1. k + 1 \in 1 .. c /\ (k + 1) - 1 = k
    BY <1>1
  <2>2. a \in Nat /\ a < Len(s) /\ (k + 1) * n \in Nat /\ (k + 1) * n = a + n
    BY <1>2, <2>1
  <2>3. P[k + 1] = SubSeq(s, a + 1, b)
    BY <1>2, <2>1
  <2>4. Joined(P, k + 1) = Joined(P, k) \o P[k + 1]
    BY <1>1, JoinedSteps DEF c
  <2>5. Joined(P, k) = SubSeq(s, 1, a)
    <3>1. Least(a, Len(s)) = a
      BY <1>1, <2>2 DEF Least
    <3>2. Joined(P, k) = SubSeq(s, 1, Least(a, Len(s)))
      BY <1>4
    <3> QED
      BY <3>1, <3>2
  <2> HIDE DEF a
  <2>6. b \in a .. Len(s)
    BY <1>1, <2>2 DEF Least
  <2> HIDE DEF b
  <2>7. SubSeq(s, 1, a) \o SubSeq(s, a + 1, b) = SubSeq(s, 1, b)
    <3>1. 1 \in 1 .. Len(s) + 1 /\ a \in 1 - 1 .. Len(s) /\ b \in a .. Len(s)
      BY <1>1, <2>2, <2>6
    <3> QED
      BY <3>1, ConcatAdjacentSubSeq
  <2>8. Joined(P, k + 1) = SubSeq(s, 1, b)
    BY <2>3, <2>4, <2>5, <2>7
  <2>9. k + 1 \in 0 .. c
    BY <1>1
  <2> QED
    BY <2>8, <2>9, Zenon DEF b
<1>5. c \in T
  <2> HIDE DEF T
  <2>1. \A k \in 0 .. c : k \in T
    BY <1>1, <1>3, <1>4, Climb
  <2> QED
    BY <1>1, <2>1
<1>6. c * n >= Len(s) /\ c * n \in Int
  <2>1. c * n >= Len(s)
    BY <1>1, Ceiling
  <2> QED
    BY <1>1, <2>1
<1>7. Least(c * n, Len(s)) = Len(s)
  BY <1>1, <1>6 DEF Least
<1>8. Joined(P, c) = FlattenSeq(P)
  BY <1>1, JoinedSteps DEF c
<1>9. FlattenSeq(P) = SubSeq(s, 1, Len(s))
  BY <1>5, <1>7, <1>8
<1> QED
  BY <1>9, SubSeqFull DEF P

LEMMA SameQuotient ==
  ASSUME NEW a \in Int, NEW b \in Int, NEW n \in Nat \ {0}, NEW q \in 0 .. n - 1,
         NEW r \in 0 .. n - 1, a * n + q = b * n + r
  PROVE  a = b
<1>1. a * n \in Int /\ b * n \in Int /\ (a - b) * n = a * n - b * n
  OBVIOUS
<1>2. CASE a > b
  <2>1. (a - b - 1) * n >= 0 /\ (a - b - 1) * n = (a - b) * n - n
    BY <1>2
  <2> QED
    BY <1>1, <2>1
<1>3. CASE a < b
  <2>1. (b - a - 1) * n >= 0 /\ (b - a - 1) * n = b * n - a * n - n
    BY <1>3
  <2> QED
    BY <1>1, <2>1
<1> QED
  BY <1>2, <1>3

LEMMA Multiple ==
  ASSUME NEW m \in Nat, NEW n \in Nat \ {0}
  PROVE  (m * n) \div n = m /\ (m * n) % n = 0
<1> DEFINE x == m * n
           y == x \div n
           r == x % n
<1>1. x \in Nat /\ x = m * n + 0
  OBVIOUS
<1> HIDE DEF x
<1>2. x = y * n + r /\ y \in Int /\ r \in 0 .. n - 1 /\ y * n \in Int
  BY <1>1
<1> HIDE DEF y, r
<1>3. 0 \in 0 .. n - 1 /\ y * n + r = m * n + 0
  BY <1>1, <1>2
<1>4. y = m
  BY <1>2, <1>3, SameQuotient
<1>5. r = 0
  BY <1>1, <1>2, <1>4
<1> QED
  BY <1>4, <1>5 DEF x, y, r

LEMMA Slice ==
  ASSUME NEW S, NEW r \in Nat, NEW s \in [1 .. r -> S], NEW a \in Nat, NEW b \in Nat,
         a + b <= r
  PROVE  /\ SubSeq(s, a + 1, a + b) \in Seq(S)
         /\ Len(SubSeq(s, a + 1, a + b)) = b
         /\ \A k \in 1 .. b : SubSeq(s, a + 1, a + b)[k] = s[a + k]
<1>1. s \in Seq(S) /\ Len(s) = r
  OBVIOUS
<1>2. \A k \in a + 1 .. a + b : s[k] \in S
  OBVIOUS
<1> QED
  BY <1>1, <1>2

LEMMA SliceIs ==
  ASSUME NEW S, NEW r \in Nat, NEW t \in [1 .. r -> S], NEW a \in Nat, NEW b \in Nat,
         a + b <= r, NEW o \in Seq(S), Len(o) = b, \A k \in 1 .. b : t[a + k] = o[k]
  PROVE  SubSeq(t, a + 1, a + b) = o
<1> DEFINE y == SubSeq(t, a + 1, a + b)
<1>1. y \in Seq(S) /\ Len(y) = b /\ \A k \in 1 .. b : y[k] = t[a + k]
  BY Slice
<1> HIDE DEF y
<1>2. y = o
  BY <1>1, SeqEqual
<1> QED
  BY <1>2 DEF y

(* Sequences of one length joined are cut into those sequences again.      *)
LEMMA PiecesFlatten ==
  ASSUME NEW S, NEW q \in Seq(Seq(S)), NEW n \in Nat \ {0}, \A k \in 1 .. Len(q) : Len(q[k]) = n
  PROVE  /\ FlattenSeq(q) \in Seq(S)
         /\ Len(FlattenSeq(q)) = Len(q) * n
         /\ Pieces(FlattenSeq(q), n) = q
<1> DEFINE m == Len(q)
           s == FlattenSeq(q)
           T == {k \in 0 .. m : Len(Joined(q, k)) = k * n}
<1>1. m \in Nat /\ s \in Seq(S) /\ Len(s) \in Nat
  BY FlattenType
<1>2. 0 \in T
  <2>1. Joined(q, 0) = <<>> /\ 0 * n = 0
    BY JoinedSteps
  <2> QED
    BY <1>1, <2>1
<1>3. ASSUME NEW k \in 0 .. m - 1, k \in T
      PROVE  k + 1 \in T
  <2>1. k + 1 \in 1 .. m /\ (k + 1) - 1 = k
    BY <1>1
  <2>2. Len(Joined(q, k + 1)) = Len(Joined(q, k)) + n
    <3>1. Len(Joined(q, k + 1)) = Len(Joined(q, (k + 1) - 1)) + Len(q[k + 1])
      BY <2>1, JoinedPart
    <3> QED
      BY <2>1, <3>1
  <2>3. (k + 1) * n = k * n + n
    BY <1>1
  <2> QED
    BY <1>3, <2>1, <2>2, <2>3
<1>4. \A k \in 0 .. m : k \in T
  <2> HIDE DEF T, m
  <2> QED
    BY <1>1, <1>2, <1>3, Climb
<1>5. \A k \in 0 .. m : Len(Joined(q, k)) = k * n
  BY <1>4
<1>6. Len(s) = m * n
  BY <1>1, <1>5, JoinedSteps
<1> DEFINE P == Pieces(s, n)
<1> HIDE DEF s, P
<1>7. /\ P \in Seq(Seq(S))
      /\ Len(P) = (Len(s) + n - 1) \div n
      /\ \A i \in 1 .. Len(P) : P[i] = SubSeq(s, (i - 1) * n + 1, Least(i * n, Len(s)))
  BY <1>1, PieceIs DEF P
<1>8. Len(P) = m
  <2>1. Len(s) + n - 1 = m * n + (n - 1) /\ n - 1 \in 0 .. n - 1 /\ m * n \in Nat
    BY <1>1, <1>6
  <2>2. (m * n + (n - 1)) \div n = m
    <3> DEFINE x == m * n + (n - 1)
    <3>1. x \in Nat /\ x = m * n + (n - 1)
      BY <2>1
    <3> HIDE DEF x
    <3>2. x = (x \div n) * n + (x % n) /\ x % n \in 0 .. n - 1 /\ x \div n \in Int
      BY <3>1
    <3> DEFINE y == x \div n
               r == x % n
    <3>3. y \in Int /\ r \in 0 .. n - 1 /\ n - 1 \in 0 .. n - 1 /\ m \in Int
          /\ y * n + r = m * n + (n - 1)
      BY <1>1, <3>1, <3>2
    <3>4. x \div n = y
      OBVIOUS
    <3> HIDE DEF y, r
    <3>5. y = m
      BY <3>3, SameQuotient
    <3> QED
      BY <3>4, <3>5 DEF x
  <2> QED
    BY <1>7, <2>1, <2>2
<1>9. ASSUME NEW k \in 1 .. m
      PROVE  P[k] = q[k]
  <2> DEFINE a == (k - 1) * n
  <2>1. a \in Nat /\ k * n = a + n /\ k * n <= Len(s)
    <3>1. k - 1 \in Nat /\ m - k \in Nat
      BY <1>1
    <3>2. m * n = k * n + (m - k) * n /\ (m - k) * n \in Nat /\ k * n \in Nat /\ a \in Nat
      BY <1>1, <3>1
    <3> QED
      BY <1>6, <3>2
  <2>2. P[k] = SubSeq(s, a + 1, a + n)
    <3>1. Least(k * n, Len(s)) = a + n
      BY <2>1 DEF Least
    <3> QED
      BY <1>7, <1>8, <3>1
  <2>3. \A j \in 1 .. n : s[a + j] = q[k][j]
    <3>1. k - 1 \in 0 .. m
      BY <1>1
    <3>2. Len(Joined(q, k - 1)) = a
      BY <1>5, <3>1
    <3>3. \A j \in 1 .. Len(q[k]) : FlattenSeq(q)[Len(Joined(q, k - 1)) + j] = q[k][j]
      BY JoinedPart
    <3>4. Len(q[k]) = n
      OBVIOUS
    <3> HIDE DEF a
    <3>5. \A j \in 1 .. n : FlattenSeq(q)[a + j] = q[k][j]
      BY <3>2, <3>3, <3>4, Zenon
    <3> QED
      BY <3>5, Zenon DEF s
  <2>4. q[k] \in Seq(S) /\ Len(q[k]) = n
    OBVIOUS
  <2> HIDE DEF a, P
  <2>5. SubSeq(s, a + 1, a + n) \in Seq(S) /\ Len(SubSeq(s, a + 1, a + n)) = n
        /\ \A j \in 1 .. n : SubSeq(s, a + 1, a + n)[j] = s[a + j]
    <3> DEFINE r == Len(s)
    <3>1. r \in Nat /\ s \in [1 .. r -> S] /\ a + n <= r /\ n \in Nat
      <4>1. s \in Seq(S)
        BY <1>1
      <4>2. r \in Nat /\ s \in [1 .. r -> S]
        BY <4>1, LenProperties
      <4> QED
        BY <1>1, <1>7, <1>8, <2>1, <4>2
    <3> HIDE DEF r
    <3> QED
      BY <2>1, <3>1, Slice
  <2> DEFINE p == SubSeq(s, a + 1, a + n)
             r == q[k]
  <2>6. /\ p \in Seq(S) /\ r \in Seq(S) /\ Len(p) = Len(r)
        /\ \A j \in 1 .. Len(p) : p[j] = r[j]
    BY <2>3, <2>4, <2>5
  <2>7. P[k] = p /\ q[k] = r
    BY <2>2
  <2> HIDE DEF p, r
  <2> QED
    BY <2>6, <2>7, SeqEqual
<1>10. P = q
  BY <1>7, <1>8, <1>9, SeqEqual
<1> QED
  BY <1>1, <1>6, <1>10 DEF s, P

-----------------------------------------------------------------------------
(* Unframe: its recursion reads on behind each frame, so it is well        *)
(* founded as no frame is of negative size.                                *)
AfterStep(g, s, p) ==
  IF p > Len(s) THEN <<>>
  ELSE IF p + headerSize(s[p]) > Len(s) THEN <<Exit>>
  ELSE <<SubSeq(s, p + 1, p + headerSize(s[p]))>> \o g[p + headerSize(s[p]) + 1]

IsAfter(g, s) == g = [p \in 1 .. Len(s) + 1 |-> AfterStep(g, s, p)]

FrameSized(x) == headerSize(x) \in Nat

LEMMA AfterExists ==
  ASSUME NEW s, Len(s) \in Nat, \A p \in 1 .. Len(s) : FrameSized(s[p])
  PROVE  \E g : IsAfter(g, s)
<1> DEFINE n == Len(s)
           D == 1 .. n + 1
           Down(h, k) == \A p \in n + 1 - k .. n + 1 : h[p] = AfterStep(h, s, p)
           T == {k \in 0 .. n : \E h : Down(h, k)}
<1>1. n \in Nat
  OBVIOUS
<1>2. \A p \in 1 .. n : FrameSized(s[p])
  OBVIOUS
<1>3. \A h, p : p > n => AfterStep(h, s, p) = <<>>
  BY DEF AfterStep
<1>4. ASSUME NEW g, NEW h, NEW p \in D, \A q \in p + 1 .. n + 1 : g[q] = h[q]
      PROVE  AfterStep(g, s, p) = AfterStep(h, s, p)
  <2>1. CASE p <= n /\ ~(p + headerSize(s[p]) > n)
    <3> DEFINE l == headerSize(s[p])
    <3>1. l \in Nat
      BY <1>1, <1>2, <2>1 DEF FrameSized
    <3>2. p + l <= n
      BY <1>1, <2>1, <3>1
    <3> HIDE DEF l
    <3>3. p + l + 1 \in p + 1 .. n + 1
      BY <1>1, <3>1, <3>2
    <3>4. g[p + l + 1] = h[p + l + 1]
      BY <1>4, <3>3
    <3> QED
      BY <3>4 DEF AfterStep, l
  <2> QED
    BY <1>1, <2>1 DEF AfterStep
<1> HIDE DEF n
<1>5. 0 \in T
  <2> DEFINE h == [p \in D |-> <<>>]
  <2>1. \A p \in n + 1 - 0 .. n + 1 : p = n + 1 /\ p \in D /\ p > n
    BY <1>1
  <2>2. \A p \in D : h[p] = <<>>
    OBVIOUS
  <2> HIDE DEF h, D
  <2>3. Down(h, 0)
    BY <1>3, <2>1, <2>2
  <2>4. 0 \in 0 .. n
    BY <1>1
  <2> QED
    BY <2>3, <2>4
<1>6. ASSUME NEW k \in 0 .. n - 1, k \in T
      PROVE  k + 1 \in T
  <2>1. PICK g : Down(g, k)
    BY <1>6
  <2> DEFINE m == n - k
             h == [p \in D |-> IF p = m THEN AfterStep(g, s, m) ELSE g[p]]
  <2>2. /\ m \in D /\ m \in Nat /\ n + 1 - k = m + 1 /\ n + 1 - (k + 1) = m
        /\ k + 1 \in 0 .. n
    BY <1>1
  <2> HIDE DEF m
  <2>3. h[m] = AfterStep(g, s, m) /\ \A p \in m + 1 .. n + 1 : h[p] = g[p]
    BY <1>1, <2>2
  <2> HIDE DEF h
  <2>4. \A p \in m .. n + 1 : p \in D /\ AfterStep(h, s, p) = AfterStep(g, s, p)
    <3> SUFFICES ASSUME NEW p \in m .. n + 1
                 PROVE  p \in D /\ AfterStep(h, s, p) = AfterStep(g, s, p)
      OBVIOUS
    <3>1. p \in D /\ \A q \in p + 1 .. n + 1 : q \in m + 1 .. n + 1
      BY <1>1, <2>2
    <3>2. \A q \in p + 1 .. n + 1 : h[q] = g[q]
      BY <2>3, <3>1
    <3> HIDE DEF D
    <3> QED
      BY <1>4, <3>1, <3>2
  <2>5. Down(h, k + 1)
    <3> SUFFICES ASSUME NEW p \in m .. n + 1
                 PROVE  h[p] = AfterStep(h, s, p)
      BY <2>2
    <3>1. CASE p = m
      BY <2>3, <2>4, <3>1
    <3>2. CASE p # m
      <4>1. p \in m + 1 .. n + 1
        BY <1>1, <2>2, <3>2
      <4>2. h[p] = g[p] /\ g[p] = AfterStep(g, s, p)
        BY <2>1, <2>2, <2>3, <4>1
      <4> QED
        BY <2>4, <4>2
    <3> QED
      BY <3>1, <3>2
  <2> HIDE DEF Down
  <2> QED
    BY <2>2, <2>5
<1>7. n \in T
  <2> HIDE DEF T
  <2>1. \A k \in 0 .. n : k \in T
    BY <1>1, <1>5, <1>6, Climb
  <2> QED
    BY <1>1, <2>1
<1>8. PICK h : Down(h, n)
  BY <1>7
<1> DEFINE g == [p \in D |-> h[p]]
<1>9. \A p \in D : g[p] = h[p] /\ h[p] = AfterStep(h, s, p)
  <2>1. n + 1 - n = 1
    BY <1>1
  <2> QED
    BY <1>8, <2>1
<1>10. g = [p \in D |-> g[p]]
  OBVIOUS
<1> HIDE DEF g
<1>11. \A p \in D : AfterStep(g, s, p) = AfterStep(h, s, p)
  <2> SUFFICES ASSUME NEW p \in D
               PROVE  AfterStep(g, s, p) = AfterStep(h, s, p)
    OBVIOUS
  <2>1. \A q \in p + 1 .. n + 1 : q \in D
    BY <1>1
  <2>2. \A q \in p + 1 .. n + 1 : g[q] = h[q]
    BY <1>9, <2>1
  <2> HIDE DEF D
  <2> QED
    BY <1>4, <2>2
<1>12. g = [p \in D |-> AfterStep(g, s, p)]
  BY <1>9, <1>10, <1>11
<1> QED
  BY <1>12 DEF IsAfter, n

LEMMA UnframeIs ==
  ASSUME NEW s, Len(s) \in Nat, \A p \in 1 .. Len(s) : FrameSized(s[p])
  PROVE  \E g : IsAfter(g, s) /\ Unframe(s) = g[1]
<1> DEFINE f == CHOOSE g : IsAfter(g, s)
<1>1. Unframe(s) = f[1]
  BY DEF Unframe, IsAfter, AfterStep
<1>2. IsAfter(f, s)
  <2> HIDE DEF f
  <2>1. \E g : IsAfter(g, s)
    BY AfterExists
  <2> QED
    BY <2>1 DEF f
<1> HIDE DEF f
<1> QED
  BY <1>1, <1>2

LEMMA SubSeqCons ==
  ASSUME NEW S, NEW b \in Seq(S), NEW i \in 1 .. Len(b)
  PROVE  SubSeq(b, i, Len(b)) = <<b[i]>> \o SubSeq(b, i + 1, Len(b))
<1> DEFINE m == Len(b)
           x == SubSeq(b, i, m)
           y == SubSeq(b, i + 1, m)
           z == <<b[i]>> \o y
<1>1. m \in Nat /\ i \in 1 .. m /\ b[i] \in S
  OBVIOUS
<1>2. x \in Seq(S) /\ Len(x) = m - i + 1 /\ \A j \in 1 .. m - i + 1 : x[j] = b[i + j - 1]
  BY <1>1
<1>3. y \in Seq(S) /\ Len(y) = m - i /\ \A j \in 1 .. m - i : y[j] = b[i + j]
  BY <1>1
<1> HIDE DEF m, x, y
<1>4. /\ z \in Seq(S) /\ Len(z) = m - i + 1 /\ z[1] = b[i]
      /\ \A j \in 2 .. m - i + 1 : z[j] = y[j - 1]
  BY <1>1, <1>3
<1> HIDE DEF z
<1>5. ASSUME NEW j \in 1 .. m - i + 1
      PROVE  x[j] = z[j]
  <2>1. CASE j = 1
    BY <1>1, <1>2, <1>4, <2>1
  <2>2. CASE j # 1
    <3>1. j \in 2 .. m - i + 1 /\ j - 1 \in 1 .. m - i /\ i + (j - 1) = i + j - 1
      BY <1>1, <2>2
    <3> QED
      BY <1>2, <1>3, <1>4, <3>1
  <2> QED
    BY <2>1, <2>2
<1>6. x = z
  BY <1>2, <1>4, <1>5, SeqEqual
<1> QED
  BY <1>6 DEF x, z, y, m

(* What a frame of one sequence after the other is unframed to             *)
LEMMA UnframeFrames ==
  ASSUME NEW S, \A x \in S : FrameSized(x),
         NEW bodies \in Seq(Seq(S)), NEW q \in Seq(Seq(S)), Len(q) = Len(bodies),
         \A n \in 1 .. Len(q) : q[n] = <<[frame |-> Len(bodies[n])]>> \o bodies[n]
  PROVE  Unframe(FlattenSeq(q)) = bodies
<1> DEFINE s == FlattenSeq(q)
           m == Len(q)
           off(i) == Len(Joined(q, i))
<1>1. m \in Nat /\ Len(bodies) = m /\ s \in Seq(S) /\ Len(s) \in Nat
  BY FlattenType
<1>2. \A i \in 0 .. m : off(i) \in Nat
  BY JoinedType
<1>3. off(0) = 0 /\ off(m) = Len(s)
  <2>1. Len(<<>>) = 0
    OBVIOUS
  <2> QED
    BY <2>1, JoinedSteps
<1>4. \A i \in 1 .. m :
        /\ off(i) = off(i - 1) + Len(q[i])
        /\ off(i) <= Len(s)
        /\ \A j \in 1 .. Len(q[i]) : s[off(i - 1) + j] = q[i][j]
  BY JoinedPart
<1>5. \A i \in 1 .. m : q[i] = <<[frame |-> Len(bodies[i])]>> \o bodies[i]
  OBVIOUS
<1> HIDE DEF off
<1>6. PICK f : IsAfter(f, s) /\ Unframe(s) = f[1]
  <2>1. \A p \in 1 .. Len(s) : FrameSized(s[p])
    BY <1>1
  <2> HIDE DEF s
  <2> QED
    BY <1>1, <2>1, UnframeIs
<1> HIDE DEF s, m
<1> DEFINE T == {k \in 0 .. m : f[off(m - k) + 1] = SubSeq(bodies, m - k + 1, m)}
<1>7. 0 \in T
  <2>1. m - 0 = m /\ m - 0 + 1 = m + 1 /\ 0 \in 0 .. m
    BY <1>1
  <2>2. f[Len(s) + 1] = <<>>
    BY <1>1, <1>6 DEF IsAfter, AfterStep
  <2>3. SubSeq(bodies, m + 1, m) = <<>>
    BY <1>1
  <2> QED
    BY <1>3, <2>1, <2>2, <2>3
<1>8. ASSUME NEW k \in 0 .. m - 1, k \in T
      PROVE  k + 1 \in T
  <2> DEFINE i == m - k
             h == i - 1
             p == off(h) + 1
             b == bodies[i]
             l == Len(b)
  <2>1. /\ i \in 1 .. m /\ h \in 0 .. m /\ i \in 0 .. m
        /\ k + 1 \in 0 .. m /\ m - (k + 1) = h /\ h + 1 = i /\ m - k = i
    BY <1>1
  <2>2. b \in Seq(S) /\ l \in Nat
    BY <1>1, <2>1
  <2> HIDE DEF h, b, i
  <2>3. q[i] = <<[frame |-> l]>> \o b
    BY <1>5, <2>1 DEF b
  <2>4. Len(q[i]) = l + 1 /\ q[i][1] = [frame |-> l] /\ \A j \in 1 .. l : q[i][j + 1] = b[j]
    BY <2>2, <2>3
  <2>5. /\ off(i) = off(h) + (l + 1) /\ off(i) <= Len(s)
        /\ \A j \in 1 .. l + 1 : s[off(h) + j] = q[i][j]
    BY <1>4, <2>1, <2>4 DEF h
  <2> HIDE DEF l
  <2>6. off(h) \in Nat /\ p \in 1 .. Len(s) /\ p + l = off(i)
    <3>1. off(h) \in Nat
      BY <1>2, <2>1
    <3> QED
      BY <1>1, <2>2, <2>5, <3>1
  <2>7. s[p] = [frame |-> l]
    <3>1. 1 \in 1 .. l + 1
      BY <2>2
    <3> QED
      BY <2>4, <2>5, <3>1
  <2>8. \A j \in 1 .. l : s[p + j] = b[j]
    <3> SUFFICES ASSUME NEW j \in 1 .. l
                 PROVE  s[p + j] = b[j]
      OBVIOUS
    <3>1. j + 1 \in 1 .. l + 1 /\ off(h) + (j + 1) = p + j
      BY <2>2, <2>6
    <3> QED
      BY <2>4, <2>5, <3>1
  <2> HIDE DEF p
  <2>9. SubSeq(s, p + 1, p + l) = b
    <3> DEFINE x == SubSeq(s, p + 1, p + l)
    <3>1. x \in Seq(S) /\ Len(x) = l /\ \A j \in 1 .. l : x[j] = s[p + j]
      <4>1. s \in Seq(S) /\ p \in Nat /\ l \in Nat /\ p + l <= Len(s)
        BY <1>1, <2>2, <2>5, <2>6
      <4> QED
        BY <4>1
    <3>2. Len(b) = l
      BY DEF l
    <3> HIDE DEF x
    <3>3. \A j \in 1 .. l : x[j] = b[j]
      BY <2>8, <3>1
    <3>4. x = b
      BY <2>2, <3>1, <3>2, <3>3, SeqEqual
    <3> QED
      BY <3>4 DEF x
  <2>10. f[p] = <<b>> \o f[off(i) + 1]
    <3>1. f[p] = AfterStep(f, s, p)
      <4>1. p \in 1 .. Len(s) + 1
        BY <1>1, <2>6
      <4> QED
        BY <1>6, <4>1 DEF IsAfter
    <3>2. headerSize(s[p]) = l
      BY <2>7 DEF headerSize
    <3>3. ~(p + l > Len(s)) /\ ~(p > Len(s))
      <4>1. p \in Nat /\ p <= Len(s) /\ p + l <= Len(s)
        BY <1>1, <2>5, <2>6
      <4>2. p + l \in Nat
        BY <2>2, <4>1
      <4> QED
        BY ONLY <1>1, <4>1, <4>2
    <3> QED
      BY <2>6, <2>9, <3>1, <3>2, <3>3 DEF AfterStep
  <2>11. f[off(i) + 1] = SubSeq(bodies, i + 1, m)
    BY <1>8, <2>1
  <2>12. SubSeq(bodies, i, m) = <<b>> \o SubSeq(bodies, i + 1, m)
    BY <1>1, <2>1, SubSeqCons DEF b
  <2>13. f[off(h) + 1] = SubSeq(bodies, h + 1, m)
    BY <2>1, <2>10, <2>11, <2>12 DEF p
  <2> QED
    BY <2>1, <2>13
<1>9. m \in T
  <2> HIDE DEF T
  <2>1. \A k \in 0 .. m : k \in T
    BY <1>1, <1>7, <1>8, Climb
  <2> QED
    BY <1>1, <2>1
<1>10. f[1] = SubSeq(bodies, 1, m)
  <2>1. m - m = 0 /\ 0 + 1 = 1
    BY <1>1
  <2>2. f[off(m - m) + 1] = SubSeq(bodies, m - m + 1, m)
    BY <1>9
  <2> QED
    BY <1>3, <2>1, <2>2
<1>11. SubSeq(bodies, 1, m) = bodies
  BY <1>1, SubSeqFull
<1> QED
  BY <1>6, <1>10, <1>11 DEF s

-----------------------------------------------------------------------------
(* The bytes, and the structures that hold them *)
Byte1 == [file : Nat, at : Nat]
Byte2 == {NoByte} \cup [type : Nat, block : Nat, part : Nat, of : Nat]
Block1 == [file : Nat, blockNum : Nat, blockSize : Nat, buffer : Seq(Byte1)]
Block2 == [blockNum : Nat, blockSize : Nat, compressType : Nat, buffer : Seq(Byte2)]
Byte == Byte1 \cup Byte2 \cup Block1 \cup Block2 \cup [frame : Nat]

LEMMA Sizes ==
  /\ block1Size \in Nat \ {0} /\ block2Size \in Nat \ {0} /\ block3Size \in Nat \ {0}
  /\ Slack \in Nat /\ BLOCK2_MAX_SIZE \in Nat
  /\ block1Bytes \in Nat \ {0} /\ block2Bytes \in Nat \ {0}
  BY FramesAssumption DEF BLOCK2_MAX_SIZE, block1Bytes, block2Bytes

LEMMA Products ==
  ASSUME NEW a \in Nat, NEW b \in Nat \ {0}
  PROVE  /\ a * b \in Nat
         /\ a # 0 => a * b \in Nat \ {0}
<1>1. a * b \in Nat
  OBVIOUS
<1>2. a # 0 => a * b # 0
  OBVIOUS
<1> QED
  BY <1>1, <1>2

(* Frame headers are the only bytes with a size, and the mark of an exit   *)
(* is no byte.                                                             *)
LEMMA ByteFields ==
  ASSUME NEW x \in Byte
  PROVE  FrameSized(x) /\ "exit" \notin DOMAIN x
<1>1. CASE x \in Byte1
  <2>1. DOMAIN x = {"file", "at"}
    BY <1>1 DEF Byte1
  <2> QED
    BY <2>1, FramesAssumption DEF FrameSized, headerSize
<1>2. CASE x \in Byte2
  <2>1. DOMAIN x = {"none"} \/ DOMAIN x = {"type", "block", "part", "of"}
    BY <1>2 DEF Byte2, NoByte
  <2> QED
    BY <2>1, FramesAssumption DEF FrameSized, headerSize
<1>3. CASE x \in Block1
  <2>1. DOMAIN x = {"file", "blockNum", "blockSize", "buffer"}
    BY <1>3 DEF Block1
  <2> QED
    BY <2>1, FramesAssumption DEF FrameSized, headerSize
<1>4. CASE x \in Block2
  <2>1. DOMAIN x = {"blockNum", "blockSize", "compressType", "buffer"}
    BY <1>4 DEF Block2
  <2> QED
    BY <2>1, FramesAssumption DEF FrameSized, headerSize
<1>5. CASE x \in [frame : Nat]
  <2>1. DOMAIN x = {"frame"} /\ x.frame \in Nat
    BY <1>5
  <2> QED
    BY <2>1, FramesAssumption DEF FrameSized, headerSize
<1> QED
  BY <1>1, <1>2, <1>3, <1>4, <1>5 DEF Byte

LEMMA NoExit ==
  ASSUME NEW s \in Seq(Byte)
  PROVE  s # Exit
<1> SUFFICES ASSUME s = Exit PROVE FALSE
  OBVIOUS
<1>1. Exit[1] = [exit |-> 0] /\ Len(Exit) = 1
  BY DEF Exit
<1>2. 1 \in 1 .. Len(s)
  BY <1>1
<1>3. s[1] \in Byte
  BY <1>2, ElementOfSeq
<1>4. "exit" \in DOMAIN s[1]
  BY <1>1
<1> QED
  BY <1>3, <1>4, ByteFields

LEMMA FillInto ==
  ASSUME NEW S, NoByte \in S, NEW s \in Seq(S), NEW n \in Nat
  PROVE  /\ Fill(s, n) \in Seq(S)
         /\ Len(Fill(s, n)) = (IF n >= Len(s) THEN n ELSE Len(s))
         /\ \A k \in 1 .. Len(s) : Fill(s, n)[k] = s[k]
<1> DEFINE rest == [k \in 1 .. n - Len(s) |-> NoByte]
<1>1. NoByte \in S /\ Len(s) \in Nat
  BY LenProperties
<1>2. PICK m \in Nat : 1 .. n - Len(s) = 1 .. m /\ m = (IF n >= Len(s) THEN n - Len(s) ELSE 0)
  <2>1. CASE n >= Len(s)
    BY <1>1, <2>1
  <2>2. CASE ~(n >= Len(s))
    <3>1. 1 .. n - Len(s) = 1 .. 0
      BY <1>1, <2>2
    <3> QED
      BY <2>2, <3>1
  <2> QED
    BY <2>1, <2>2
<1>3. rest \in [1 .. m -> S]
  BY <1>1, <1>2
<1> HIDE DEF rest
<1>4. rest \in Seq(S)
  BY <1>3, SeqDef
<1>5. Len(rest) = m
  BY <1>3, <1>4, LenProperties
<1>6. /\ s \o rest \in Seq(S) /\ Len(s \o rest) = Len(s) + m
      /\ \A k \in 1 .. Len(s) : (s \o rest)[k] = s[k]
  <2>1. /\ s \o rest \in Seq(S) /\ Len(s \o rest) = Len(s) + Len(rest)
        /\ \A k \in 1 .. Len(s) : (s \o rest)[k] = s[k]
    BY <1>4
  <2> QED
    BY <1>5, <2>1
<1> QED
  <2>1. Fill(s, n) = s \o rest
    BY DEF Fill, rest
  <2>2. Len(s \o rest) = (IF n >= Len(s) THEN n ELSE Len(s))
    BY <1>1, <1>2, <1>6
  <2> QED
    BY <1>6, <2>1, <2>2

LEMMA FillIs ==
  ASSUME NEW s \in Seq(Byte), NEW n \in Nat
  PROVE  /\ Fill(s, n) \in Seq(Byte)
         /\ Len(Fill(s, n)) = (IF n >= Len(s) THEN n ELSE Len(s))
         /\ \A k \in 1 .. Len(s) : Fill(s, n)[k] = s[k]
<1>1. NoByte \in Byte
  BY DEF Byte, Byte2
<1> QED
  BY <1>1, FillInto

LEMMA OneByte ==
  ASSUME NEW x \in Byte, NEW s \in Seq(Byte)
  PROVE  <<x>> \in Seq(Byte) /\ <<x>> \o s \in Seq(Byte)
<1>1. \A S : \A y \in S : <<y>> \in Seq(S)
  OBVIOUS
<1>2. <<x>> \in Seq(Byte)
  BY <1>1
<1> QED
  BY <1>2, ConcatProperties

(* A buffer behind its structure is unpacked to what it was.               *)
LEMMA UnpackIs ==
  ASSUME NEW s \in Seq(Byte), NEW b, NEW buffer \in Seq(Byte), NEW n \in Nat,
         Len(buffer) = n, Len(s) > n, s[1] = b, "blockSize" \in DOMAIN b, b.blockSize = n,
         \A k \in 1 .. n : s[k + 1] = buffer[k]
  PROVE  Unpack(s) = [b EXCEPT !.buffer = buffer]
<1> DEFINE x == SubSeq(s, 2, n + 1)
<1>1. x \in Seq(Byte) /\ Len(x) = n /\ \A k \in 1 .. n : x[k] = s[k + 1]
  OBVIOUS
<1> HIDE DEF x
<1>2. \A k \in 1 .. n : x[k] = buffer[k]
  BY <1>1
<1>3. x = buffer
  BY <1>1, <1>2, SeqEqual
<1>4. s # <<>>
  OBVIOUS
<1> QED
  BY <1>3, <1>4 DEF Unpack, x

LEMMA Record1Bytes ==
  ASSUME NEW b \in Block1
  PROVE  Record1(b) \in Seq(Byte)
<1>1. b.buffer \in Seq(Byte1) /\ Byte1 \subseteq Byte
  BY DEF Block1, Byte
<1>2. b.buffer \in Seq(Byte)
  BY <1>1, SeqMonotonic
<1>3. Fill(b.buffer, block1Size) \in Seq(Byte)
  BY <1>2, FillIs, Sizes
<1>4. [b EXCEPT !.buffer = <<>>] \in Byte
  <2>1. <<>> \in Seq(Byte1)
    OBVIOUS
  <2> QED
    BY <2>1 DEF Block1, Byte
<1> QED
  BY <1>3, <1>4, OneByte DEF Record1

LEMMA UnpackRecord1 ==
  ASSUME NEW b \in Block1, Len(b.buffer) <= block1Size
  PROVE  /\ Record1(b) \in Seq(Byte)
         /\ Len(Record1(b)) = block1Bytes
         /\ Len(b.buffer) = b.blockSize => Unpack(Record1(b)) = b
<1> DEFINE h == [b EXCEPT !.buffer = <<>>]
           w == Fill(b.buffer, block1Size)
           n == Len(b.buffer)
<1>1. b.buffer \in Seq(Byte1) /\ Byte1 \subseteq Byte
  BY DEF Block1, Byte
<1>2. b.buffer \in Seq(Byte) /\ n \in Nat
  BY <1>1, SeqMonotonic
<1>3. w \in Seq(Byte) /\ Len(w) = block1Size /\ \A k \in 1 .. n : w[k] = b.buffer[k]
  <2> HIDE DEF n, w
  <2>1. /\ w \in Seq(Byte)
        /\ Len(w) = (IF block1Size >= Len(b.buffer) THEN block1Size ELSE Len(b.buffer))
        /\ \A k \in 1 .. Len(b.buffer) : w[k] = b.buffer[k]
    BY <1>2, Sizes, FillIs DEF w
  <2> QED
    BY <1>2, <2>1, Sizes DEF n
<1>4. h \in Byte /\ "blockSize" \in DOMAIN h /\ h.blockSize = b.blockSize
      /\ b.blockSize \in Nat
  <2>1. <<>> \in Seq(Byte1)
    OBVIOUS
  <2> QED
    BY <2>1 DEF Block1, Byte
<1>5. [h EXCEPT !.buffer = b.buffer] = b
  BY DEF Block1
<1> HIDE DEF h, w
<1> DEFINE s == <<h>> \o w
<1>6. s \in Seq(Byte) /\ Len(s) = block1Size + 1 /\ s[1] = h
      /\ \A k \in 1 .. block1Size : s[k + 1] = w[k]
  <2>1. <<h>> \in Seq(Byte) /\ Len(<<h>>) = 1 /\ <<h>>[1] = h
    BY <1>4
  <2> QED
    BY <1>3, <2>1, Sizes, ConcatProperties
<1>7. Record1(b) = s
  BY DEF Record1, h, w
<1>8. ASSUME n = b.blockSize
      PROVE  Unpack(s) = b
  <2>1. Len(s) > n /\ \A k \in 1 .. n : s[k + 1] = b.buffer[k]
    BY <1>2, <1>3, <1>6, Sizes
  <2> HIDE DEF s
  <2>2. Unpack(s) = [h EXCEPT !.buffer = b.buffer]
    BY <1>2, <1>4, <1>6, <1>8, <2>1, UnpackIs
  <2> QED
    BY <1>5, <2>2
<1>9. Len(s) = block1Bytes
  BY <1>6, Sizes DEF block1Bytes
<1> QED
  BY <1>6, <1>7, <1>8, <1>9

LEMMA UnpackRecord2 ==
  ASSUME NEW b \in Block2
  PROVE  /\ dataSize(b) \in Nat
         /\ Frame(b) = <<[frame |-> dataSize(b)]>>
         /\ Frame(b) \in Seq(Byte) /\ Len(Frame(b)) = 1
         /\ Record2(b) \in Seq(Byte) /\ Len(Record2(b)) = dataSize(b)
         /\ Len(b.buffer) = b.blockSize => Unpack(Record2(b)) = b
<1> DEFINE h == [b EXCEPT !.buffer = <<>>]
           d == dataSize(b)
           n == Len(b.buffer)
<1>1. b.buffer \in Seq(Byte2) /\ Byte2 \subseteq Byte /\ b.blockSize \in Nat
  BY DEF Block2, Byte
<1>2. b.buffer \in Seq(Byte) /\ n \in Nat
  BY <1>1, SeqMonotonic
<1>3. d \in Nat /\ d >= b.blockSize + 1
  BY <1>1, Sizes DEF dataSize, block2Bytes, BLOCK2_MAX_SIZE
<1>4. h \in Byte /\ "blockSize" \in DOMAIN h /\ h.blockSize = b.blockSize
  <2>1. <<>> \in Seq(Byte2)
    OBVIOUS
  <2> QED
    BY <2>1 DEF Block2, Byte
<1>5. [h EXCEPT !.buffer = b.buffer] = b
  BY DEF Block2
<1> HIDE DEF h
<1> DEFINE s == <<h>> \o b.buffer
           w == Fill(s, d)
           r == SubSeq(w, 1, d)
<1>6. s \in Seq(Byte) /\ Len(s) = n + 1 /\ s[1] = h
      /\ \A k \in 1 .. n : s[k + 1] = b.buffer[k]
  <2>1. <<h>> \in Seq(Byte) /\ Len(<<h>>) = 1 /\ <<h>>[1] = h
    BY <1>4
  <2> QED
    BY <1>2, <2>1, ConcatProperties
<1> HIDE DEF s, d
<1>7. /\ w \in Seq(Byte) /\ Len(w) \in Nat /\ Len(w) >= d
      /\ \A k \in 1 .. Len(s) : w[k] = s[k]
  <2> HIDE DEF w
  <2>1. /\ w \in Seq(Byte)
        /\ Len(w) = (IF d >= Len(s) THEN d ELSE Len(s))
        /\ \A k \in 1 .. Len(s) : w[k] = s[k]
    BY <1>3, <1>6, FillIs DEF w
  <2> QED
    BY <1>2, <1>3, <1>6, <2>1
<1> HIDE DEF w
<1>8. r \in Seq(Byte) /\ Len(r) = d /\ \A k \in 1 .. d : r[k] = w[k]
  BY <1>3, <1>7
<1> HIDE DEF r
<1>9. ASSUME n = b.blockSize
      PROVE  Unpack(r) = b
  <2>1. Len(r) > n /\ r[1] = h /\ \A k \in 1 .. n : r[k + 1] = b.buffer[k]
    <3>1. \A k \in 1 .. n + 1 : k \in 1 .. d /\ k \in 1 .. Len(s)
      BY <1>2, <1>3, <1>6, <1>9
    <3>2. \A k \in 1 .. n + 1 : r[k] = s[k]
      BY <1>7, <1>8, <3>1
    <3>3. 1 \in 1 .. n + 1 /\ \A k \in 1 .. n : k + 1 \in 1 .. n + 1
      BY <1>2
    <3>4. Len(r) > n
      BY <1>2, <1>3, <1>8, <1>9
    <3> QED
      BY <1>6, <3>2, <3>3, <3>4
  <2>2. Unpack(r) = [h EXCEPT !.buffer = b.buffer]
    <3>1. n = Len(b.buffer)
      OBVIOUS
    <3> DEFINE buffer == b.buffer
    <3> HIDE DEF n
    <3>2. /\ buffer \in Seq(Byte) /\ n \in Nat /\ Len(buffer) = n /\ h.blockSize = n
          /\ \A k \in 1 .. n : r[k + 1] = buffer[k]
      BY <1>2, <1>4, <1>9, <2>1, <3>1
    <3> HIDE DEF buffer
    <3>3. Unpack(r) = [h EXCEPT !.buffer = buffer]
      BY <1>4, <1>8, <2>1, <3>2, UnpackIs
    <3> QED
      BY <3>3 DEF buffer
  <2> QED
    BY <1>5, <2>2
<1>10. Record2(b) = r
  BY DEF Record2, h, s, w, r, d
<1>11. Frame(b) = <<[frame |-> d]>> /\ Frame(b) \in Seq(Byte) /\ Len(Frame(b)) = 1
  <2>1. [frame |-> d] \in Byte
    BY <1>3 DEF Byte
  <2> HIDE DEF Byte
  <2>2. \A S : \A y \in S : <<y>> \in Seq(S) /\ Len(<<y>>) = 1
    OBVIOUS
  <2>3. Frame(b) = <<[frame |-> d]>>
    BY DEF Frame, d
  <2> QED
    BY <2>1, <2>2, <2>3
<1> QED
  BY <1>3, <1>8, <1>9, <1>10, <1>11 DEF d

LEMMA Record2Bytes ==
  ASSUME NEW b \in Block2
  PROVE  dataSize(b) \in Nat /\ Frame(b) \in Seq(Byte) /\ Record2(b) \in Seq(Byte)
  BY UnpackRecord2

LEMMA PieceCount ==
  ASSUME NEW s \in Seq(Byte), NEW n \in Nat \ {0}
  PROVE  /\ (Len(s) + n - 1) \div n \in Nat
         /\ Len(Pieces(s, n)) = (Len(s) + n - 1) \div n
<1>1. /\ Pieces(s, n) \in Seq(Seq(Byte))
      /\ Len(Pieces(s, n)) = (Len(s) + n - 1) \div n
  BY PieceIs
<1> DEFINE P == Pieces(s, n)
<1> HIDE DEF P
<1>2. Len(P) \in Nat
  BY <1>1 DEF P
<1> QED
  BY <1>1, <1>2 DEF P

LEMMA PieceBytes ==
  ASSUME NEW s \in Seq(Byte), NEW n \in Nat \ {0},
         NEW k \in 1 .. Len(Pieces(s, n))
  PROVE  Pieces(s, n)[k] \in Seq(Byte)
<1>1. Pieces(s, n) \in Seq(Seq(Byte))
  BY PieceIs
<1> QED
  BY <1>1, ElementOfSeq

-----------------------------------------------------------------------------
(* What a codec made of a block gives the block back.                      *)
LEMMA OutputIs ==
  ASSUME NEW type \in Nat, NEW n \in Nat, NEW size \in Nat \ {0}
  PROVE  /\ Output(type, n, size) \in Seq(Byte2) /\ Len(Output(type, n, size)) = size
         /\ Output(type, n, size)[1] \in [type : {type}, block : {n}, part : Nat, of : {size}]
<1> DEFINE O == [k \in 1 .. size |-> [type |-> type, block |-> n, part |-> k, of |-> size]]
<1>1. \A k \in 1 .. size : O[k] \in [type : {type}, block : {n}, part : Nat, of : {size}]
  OBVIOUS
<1>2. \A k \in 1 .. size : O[k] \in Byte2
  BY DEF Byte2
<1>3. O = [k \in 1 .. size |-> O[k]] /\ 1 \in 1 .. size
  OBVIOUS
<1> HIDE DEF O
<1>4. O \in Seq(Byte2) /\ Len(O) = size
  <2> HIDE DEF Byte2
  <2> QED
    BY <1>2, <1>3
<1> QED
  BY <1>1, <1>3, <1>4 DEF Output, O

LEMMA SoundOutput ==
  ASSUME NEW type \in Nat, NEW n \in Nat, NEW size \in Nat \ {0}
  PROVE  Sound(type, Output(type, n, size)) = size
<1> DEFINE O == Output(type, n, size)
           P(k) == /\ \A l \in 1 .. k : l <= Len(O) /\ O[l] = O[l]
                   /\ k < Len(O) => k = Len(O) \/ O[k + 1] # O[k + 1]
           c == CHOOSE k \in 0 .. Len(O) : P(k)
<1>1. /\ Len(O) = size /\ O \in Seq(Byte2)
      /\ O[1] \in [type : {type}, block : {n}, part : Nat, of : {size}]
  BY OutputIs
<1>2. O # <<>> /\ "block" \in DOMAIN O[1] /\ O[1].block = n /\ O[1].of = size
  BY <1>1
<1>3. Sound(type, O) = c
  <2> DEFINE B == O
  <2>1. Sound(type, B) = (CHOOSE k \in 0 .. Len(B) :
            /\ \A l \in 1 .. k : l <= Len(O) /\ B[l] = O[l]
            /\ k < Len(B) => k = Len(O) \/ B[k + 1] # O[k + 1])
    <3>1. B # <<>> /\ "block" \in DOMAIN B[1] /\ Output(type, B[1].block, B[1].of) = O
      BY <1>2
    <3> HIDE DEF B, O
    <3> QED
      BY <3>1 DEF Sound
  <2> QED
    BY <2>1
<1> HIDE DEF O
<1>4. size \in 0 .. Len(O) /\ P(size)
  BY <1>1
<1>5. \A k \in 0 .. Len(O) : P(k) => k = size
  BY <1>1
<1> HIDE DEF P
<1>6. c \in 0 .. Len(O) /\ P(c)
  BY <1>4
<1> HIDE DEF c
<1> QED
  BY <1>3, <1>5, <1>6 DEF O

LEMMA DecompressOutput ==
  ASSUME NEW type \in Nat, NEW n \in Nat, NEW size \in Nat \ {0},
         NEW b, b.buffer = Output(type, n, size),
         NEW pieces, NEW S, pieces[n + 1] \in Seq(S)
  PROVE  Decompress(pieces, type, b) = pieces[n + 1]
<1> DEFINE O == Output(type, n, size)
           p == pieces[n + 1]
<1>1. /\ Len(O) = size /\ O[1].block = n /\ O[1].of = size
  <2>1. /\ Len(O) = size
        /\ O[1] \in [type : {type}, block : {n}, part : Nat, of : {size}]
    BY OutputIs
  <2> HIDE DEF O
  <2> QED
    BY <2>1
<1>2. Sound(type, O) = size /\ b.buffer = O
  BY SoundOutput
<1> HIDE DEF O
<1>3. CASE type = 4
  <2>1. p \in Seq(S) /\ Len(p) \in Nat
    OBVIOUS
  <2> HIDE DEF p
  <2>2. (size * Len(p)) \div size = Len(p)
    <3> DEFINE l == Len(p)
    <3>1. l \in Nat
      BY <2>1
    <3> HIDE DEF l
    <3>2. (l * size) \div size = l /\ size * l = l * size
      BY <3>1, Multiple
    <3> QED
      BY <3>2 DEF l
  <2>3. gzdecompress(pieces, O) = SubSeq(p, 1, Len(p))
    BY <1>1, <1>2, <1>3, <2>2 DEF gzdecompress, p
  <2>4. SubSeq(p, 1, Len(p)) = p
    BY <2>1, SubSeqFull
  <2> QED
    BY <1>2, <1>3, <2>3, <2>4 DEF Decompress, p
<1>4. CASE type # 4
  BY <1>1, <1>2, <1>4 DEF Decompress
<1> QED
  BY <1>3, <1>4

-----------------------------------------------------------------------------
(* The streams of records and frames: what is put on the one comes out of  *)
(* Blocks1, what is put on the other out of Blocks2.                       *)
Records1(blocks) == [n \in 1 .. Len(blocks) |-> Record1(blocks[n])]

Frames2(blocks) == [n \in 1 .. Len(blocks) |-> Frame(blocks[n]) \o Record2(blocks[n])]

Filled(b) == Len(b.buffer) = b.blockSize

LEMMA Records1Bytes ==
  ASSUME NEW blocks \in Seq(Block1), \A n \in 1 .. Len(blocks) : Len(blocks[n].buffer) <= block1Size
  PROVE  /\ Records1(blocks) \in Seq(Seq(Byte)) /\ Len(Records1(blocks)) = Len(blocks)
         /\ \A n \in 1 .. Len(blocks) : /\ Records1(blocks)[n] = Record1(blocks[n])
                                        /\ Len(Records1(blocks)[n]) = block1Bytes
<1> DEFINE R == Records1(blocks)
           m == Len(blocks)
<1>1. m \in Nat /\ R = [n \in 1 .. m |-> Record1(blocks[n])]
  BY DEF Records1
<1>2. \A n \in 1 .. m : Record1(blocks[n]) \in Seq(Byte) /\ Len(Record1(blocks[n])) = block1Bytes
  <2> SUFFICES ASSUME NEW n \in 1 .. m
               PROVE  Record1(blocks[n]) \in Seq(Byte) /\ Len(Record1(blocks[n])) = block1Bytes
    OBVIOUS
  <2> DEFINE b == blocks[n]
  <2>1. b \in Block1 /\ Len(b.buffer) <= block1Size
    BY ElementOfSeq
  <2> HIDE DEF b
  <2>2. Record1(b) \in Seq(Byte) /\ Len(Record1(b)) = block1Bytes
    BY <2>1, UnpackRecord1
  <2> QED
    BY <2>2 DEF b
<1> HIDE DEF m, R
<1>3. R \in Seq(Seq(Byte)) /\ Len(R) = m
  BY <1>1, <1>2
<1> QED
  BY <1>1, <1>2, <1>3 DEF R, m

LEMMA Blocks1Back ==
  ASSUME NEW blocks \in Seq(Block1),
         \A n \in 1 .. Len(blocks) : Filled(blocks[n]) /\ blocks[n].blockSize <= block1Size
  PROVE  /\ FlattenSeq(Records1(blocks)) \in Seq(Byte)
         /\ Blocks1(FlattenSeq(Records1(blocks))) = blocks
<1> DEFINE R == Records1(blocks)
           s == FlattenSeq(R)
           P == Pieces(s, block1Bytes)
           m == Len(blocks)
<1>1. m \in Nat /\ \A n \in 1 .. m : Len(blocks[n].buffer) <= block1Size
  BY DEF Filled
<1>2. /\ R \in Seq(Seq(Byte)) /\ Len(R) = m
      /\ \A n \in 1 .. m : R[n] = Record1(blocks[n]) /\ Len(R[n]) = block1Bytes
  BY <1>1, Records1Bytes
<1> HIDE DEF R
<1>3. s \in Seq(Byte) /\ Len(s) = m * block1Bytes /\ P = R
  BY <1>2, Sizes, PiecesFlatten
<1> HIDE DEF s
<1>4. Len(s) % block1Bytes = 0
  <2>1. (m * block1Bytes) % block1Bytes = 0
    BY <1>1, Sizes, Multiple
  <2> QED
    BY <1>3, <2>1
<1>5. Blocks1(s) = [n \in DOMAIN P |-> Unpack(P[n])]
  BY <1>4 DEF Blocks1
<1> HIDE DEF P
<1>6. DOMAIN P = 1 .. m
  BY <1>2, <1>3
<1>7. ASSUME NEW n \in 1 .. m
      PROVE  Unpack(P[n]) = blocks[n]
  <2> DEFINE b == blocks[n]
  <2>1. b \in Block1 /\ Len(b.buffer) <= block1Size /\ Len(b.buffer) = b.blockSize
    BY <1>1, ElementOfSeq DEF Filled
  <2> HIDE DEF b
  <2>2. Unpack(Record1(b)) = b
    BY <2>1, UnpackRecord1
  <2> QED
    BY <1>2, <1>3, <2>2 DEF b
<1>8. blocks = [n \in 1 .. m |-> blocks[n]]
  OBVIOUS
<1> HIDE DEF m
<1>9. Blocks1(s) = blocks
  BY <1>5, <1>6, <1>7, <1>8
<1> QED
  BY <1>3, <1>9 DEF s, R

LEMMA Blocks2Back ==
  ASSUME NEW blocks \in Seq(Block2), \A n \in 1 .. Len(blocks) : Filled(blocks[n])
  PROVE  /\ FlattenSeq(Frames2(blocks)) \in Seq(Byte)
         /\ Blocks2(FlattenSeq(Frames2(blocks))) = blocks
<1> DEFINE R == Frames2(blocks)
           s == FlattenSeq(R)
           m == Len(blocks)
           B == [n \in 1 .. m |-> Record2(blocks[n])]
<1>1. m \in Nat /\ R = [n \in 1 .. m |-> Frame(blocks[n]) \o Record2(blocks[n])]
  BY DEF Frames2
<1>2. ASSUME NEW n \in 1 .. m
      PROVE  /\ Frame(blocks[n]) = <<[frame |-> Len(Record2(blocks[n]))]>>
             /\ Frame(blocks[n]) \in Seq(Byte) /\ Record2(blocks[n]) \in Seq(Byte)
             /\ Unpack(Record2(blocks[n])) = blocks[n]
  <2> DEFINE b == blocks[n]
  <2>1. b \in Block2 /\ Len(b.buffer) = b.blockSize
    BY ElementOfSeq DEF Filled
  <2> HIDE DEF b
  <2>2. /\ Frame(b) = <<[frame |-> dataSize(b)]>> /\ dataSize(b) = Len(Record2(b))
        /\ Frame(b) \in Seq(Byte) /\ Record2(b) \in Seq(Byte)
        /\ Unpack(Record2(b)) = b
    BY <2>1, UnpackRecord2
  <2> QED
    BY <2>2 DEF b
<1>3. /\ \A n \in 1 .. m : B[n] = Record2(blocks[n])
      /\ B = [n \in 1 .. m |-> B[n]]
      /\ blocks = [n \in 1 .. m |-> blocks[n]]
  OBVIOUS
<1> HIDE DEF R, B, m
<1>4. B \in Seq(Seq(Byte)) /\ Len(B) = m
  BY <1>1, <1>2, <1>3
<1>5. R \in Seq(Seq(Byte)) /\ Len(R) = m
  <2>1. \A n \in 1 .. m : Frame(blocks[n]) \o Record2(blocks[n]) \in Seq(Byte)
    BY <1>2, ConcatProperties
  <2> QED
    BY <1>1, <2>1
<1>6. \A n \in 1 .. m : R[n] = <<[frame |-> Len(B[n])]>> \o B[n]
  BY <1>1, <1>2, <1>3
<1>7. s \in Seq(Byte) /\ Unframe(s) = B
  <2>1. \A x \in Byte : FrameSized(x)
    BY ByteFields
  <2>2. s \in Seq(Byte)
    BY <1>5, FlattenType
  <2> QED
    BY <1>4, <1>5, <1>6, <2>1, <2>2, UnframeFrames
<1> HIDE DEF s
<1>8. Blocks2(s) = [n \in 1 .. m |-> Unpack(B[n])]
  BY <1>3, <1>7 DEF Blocks2
<1>9. Blocks2(s) = blocks
  BY <1>2, <1>3, <1>8
<1> QED
  BY <1>7, <1>9 DEF s, R

-----------------------------------------------------------------------------
(* The streams as they grow                                                *)
LEMMA PrefixStep ==
  ASSUME NEW S, NEW s \in Seq(S), NEW k \in 1 .. Len(s)
  PROVE  /\ SubSeq(s, 1, k - 1) \in Seq(S) /\ s[k] \in S
         /\ SubSeq(s, 1, k) = Append(SubSeq(s, 1, k - 1), s[k])
<1> DEFINE l == k - 1
<1>1. l \in 0 .. Len(s) - 1 /\ l + 1 = k /\ Len(s) \in Nat
  BY LenProperties
<1> HIDE DEF l
<1>2. /\ SubSeq(s, 1, l) \in Seq(S) /\ s[l + 1] \in S
      /\ SubSeq(s, 1, l + 1) = Append(SubSeq(s, 1, l), s[l + 1])
  BY <1>1
<1> QED
  BY <1>1, <1>2 DEF l

LEMMA PrefixEnds ==
  ASSUME NEW S, NEW s \in Seq(S)
  PROVE  SubSeq(s, 1, 0) = <<>> /\ SubSeq(s, 1, Len(s)) = s
<1>1. SubSeq(s, 1, 0) = <<>>
  OBVIOUS
<1> QED
  BY <1>1, SubSeqFull

LEMMA AppendIs ==
  ASSUME NEW S, NEW R \in Seq(S), NEW x \in S
  PROVE  Append(R, x) = [n \in 1 .. Len(R) + 1 |-> IF n <= Len(R) THEN R[n] ELSE x]
<1> DEFINE A == Append(R, x)
           m == Len(R)
           B == [n \in 1 .. m + 1 |-> IF n <= m THEN R[n] ELSE x]
<1>1. /\ A \in Seq(S) /\ Len(A) = m + 1 /\ m \in Nat
      /\ \A n \in 1 .. m : A[n] = R[n]
      /\ A[m + 1] = x
  BY AppendProperties, LenProperties
<1>2. \A n \in 1 .. m : R[n] \in S
  BY ElementOfSeq
<1> HIDE DEF A, m
<1>3. B \in Seq(S) /\ Len(B) = m + 1 /\ \A n \in 1 .. m + 1 : B[n] = IF n <= m THEN R[n] ELSE x
  BY <1>1, <1>2
<1> HIDE DEF B
<1>4. \A n \in 1 .. m + 1 : A[n] = B[n]
  <2>1. \A n \in 1 .. m + 1 : (n <= m /\ n \in 1 .. m) \/ (~(n <= m) /\ n = m + 1)
    BY <1>1
  <2> QED
    BY <1>1, <1>3, <2>1
<1>5. A = B
  BY <1>1, <1>3, <1>4, SeqEqual
<1> QED
  BY <1>5 DEF A, B, m

LEMMA RecordsAppend ==
  ASSUME NEW q \in Seq(Block1), NEW b \in Block1
  PROVE  FlattenSeq(Records1(Append(q, b))) = FlattenSeq(Records1(q)) \o Record1(b)
<1> DEFINE x == Record1(b)
           r == Append(q, b)
           m == Len(q)
           R == Records1(q)
<1>1. x \in Seq(Byte)
  BY Record1Bytes
<1>2. /\ r \in Seq(Block1) /\ Len(r) = m + 1 /\ m \in Nat
      /\ \A n \in 1 .. m : r[n] = q[n]
      /\ r[m + 1] = b
  BY AppendProperties
<1>3. \A n \in 1 .. m : q[n] \in Block1
  BY ElementOfSeq
<1> HIDE DEF r
<1>4. \A n \in 1 .. m : Record1(q[n]) \in Seq(Byte)
  BY <1>3, Record1Bytes
<1>5. R = [n \in 1 .. m |-> Record1(q[n])]
  BY DEF Records1
<1> HIDE DEF x, R, m
<1>6. R \in Seq(Seq(Byte)) /\ Len(R) = m
  BY <1>2, <1>4, <1>5
<1>7. Records1(r) = Append(R, x)
  <2>1. Records1(r) = [n \in 1 .. m + 1 |-> Record1(r[n])]
    BY <1>2 DEF Records1
  <2>2. Append(R, x) = [n \in 1 .. m + 1 |-> IF n <= m THEN R[n] ELSE x]
    BY <1>1, <1>6, AppendIs
  <2>3. \A n \in 1 .. m + 1 : Record1(r[n]) = IF n <= m THEN R[n] ELSE x
    <3> SUFFICES ASSUME NEW n \in 1 .. m + 1
                 PROVE  Record1(r[n]) = IF n <= m THEN R[n] ELSE x
      OBVIOUS
    <3>1. CASE n <= m
      <4>1. n \in 1 .. m
        BY <1>2, <3>1
      <4> QED
        BY <1>2, <1>5, <3>1, <4>1
    <3>2. CASE ~(n <= m)
      <4>1. n = m + 1
        BY <1>2, <3>2
      <4> QED
        BY <1>2, <3>2, <4>1 DEF x
    <3> QED
      BY <3>1, <3>2
  <2> QED
    BY <2>1, <2>2, <2>3
<1>8. FlattenSeq(Append(R, x)) = FlattenSeq(R) \o x
  BY <1>1, <1>6, FlattenAppend
<1> QED
  BY <1>7, <1>8 DEF R, x, r

LEMMA FramesAppend ==
  ASSUME NEW q \in Seq(Block2), NEW b \in Block2
  PROVE  FlattenSeq(Frames2(Append(q, b))) =
           FlattenSeq(Frames2(q)) \o (Frame(b) \o Record2(b))
<1> DEFINE part(y) == Frame(y) \o Record2(y)
           x == part(b)
           r == Append(q, b)
           m == Len(q)
           R == Frames2(q)
<1>1. \A y \in Block2 : part(y) \in Seq(Byte)
  <2> SUFFICES ASSUME NEW y \in Block2
               PROVE  Frame(y) \o Record2(y) \in Seq(Byte)
    OBVIOUS
  <2>1. Frame(y) \in Seq(Byte) /\ Record2(y) \in Seq(Byte)
    BY Record2Bytes
  <2> QED
    BY <2>1, ConcatProperties
<1>2. /\ r \in Seq(Block2) /\ Len(r) = m + 1 /\ m \in Nat
      /\ \A n \in 1 .. m : r[n] = q[n]
      /\ r[m + 1] = b
  BY AppendProperties
<1>3. \A n \in 1 .. m : q[n] \in Block2
  BY ElementOfSeq
<1> HIDE DEF r
<1>4. R = [n \in 1 .. m |-> part(q[n])] /\ Frames2(r) = [n \in 1 .. Len(r) |-> part(r[n])]
  BY DEF Frames2
<1> HIDE DEF part
<1>5. x \in Seq(Byte) /\ \A n \in 1 .. m : part(q[n]) \in Seq(Byte)
  BY <1>1, <1>3
<1> HIDE DEF x, R, m
<1>6. R \in Seq(Seq(Byte)) /\ Len(R) = m
  BY <1>2, <1>4, <1>5
<1>7. Frames2(r) = Append(R, x)
  <2>1. Frames2(r) = [n \in 1 .. m + 1 |-> part(r[n])]
    BY <1>2, <1>4
  <2>2. Append(R, x) = [n \in 1 .. m + 1 |-> IF n <= m THEN R[n] ELSE x]
    BY <1>5, <1>6, AppendIs
  <2>3. \A n \in 1 .. m + 1 : part(r[n]) = IF n <= m THEN R[n] ELSE x
    <3> SUFFICES ASSUME NEW n \in 1 .. m + 1
                 PROVE  part(r[n]) = IF n <= m THEN R[n] ELSE x
      OBVIOUS
    <3>1. CASE n <= m
      <4>1. n \in 1 .. m
        BY <1>2, <3>1
      <4> QED
        BY <1>2, <1>4, <3>1, <4>1
    <3>2. CASE ~(n <= m)
      <4>1. n = m + 1
        BY <1>2, <3>2
      <4> QED
        BY <1>2, <3>2, <4>1 DEF x
    <3> QED
      BY <3>1, <3>2
  <2> QED
    BY <2>1, <2>2, <2>3
<1>8. FlattenSeq(Append(R, x)) = FlattenSeq(R) \o x
  BY <1>5, <1>6, FlattenAppend
<1> QED
  BY <1>7, <1>8 DEF R, x, r, part

LEMMA PlainOutput ==
  ASSUME NEW n \in Nat, NEW size \in Nat \ {0}
  PROVE  Output(0, n, size) \in Seq(Byte2) /\ Len(Output(0, n, size)) = size
<1> DEFINE type == 0
<1>1. type \in Nat
  OBVIOUS
<1> HIDE DEF type
<1>2. Output(type, n, size) \in Seq(Byte2) /\ Len(Output(type, n, size)) = size
  BY <1>1, OutputIs
<1> QED
  BY <1>2 DEF type

-----------------------------------------------------------------------------
(* One output written, the others as they were                             *)
LEMMA SliceSame ==
  ASSUME NEW S, NEW r \in Nat, NEW s \in [1 .. r -> S], NEW t \in [1 .. r -> S],
         NEW a \in Nat, NEW b \in Nat, a + b <= r, \A k \in a + 1 .. a + b : s[k] = t[k]
  PROVE  SubSeq(s, a + 1, a + b) = SubSeq(t, a + 1, a + b)
<1> DEFINE x == SubSeq(s, a + 1, a + b)
           y == SubSeq(t, a + 1, a + b)
<1>1. /\ x \in Seq(S) /\ Len(x) = b /\ \A k \in 1 .. b : x[k] = s[a + k]
      /\ y \in Seq(S) /\ Len(y) = b /\ \A k \in 1 .. b : y[k] = t[a + k]
  BY Slice
<1> HIDE DEF x, y
<1>2. \A k \in 1 .. b : a + k \in a + 1 .. a + b
  OBVIOUS
<1>3. \A k \in 1 .. b : x[k] = y[k]
  BY <1>1, <1>2
<1>4. x = y
  BY <1>1, <1>3, SeqEqual
<1> QED
  BY <1>4 DEF x, y

LEMMA OutputWritten ==
  ASSUME NEW r \in Nat, NEW s, NEW t \in [1 .. r -> Byte2], NEW from \in Nat,
         NEW size \in Nat \ {0}, from + size <= r, NEW O \in Seq(Byte2), Len(O) = size,
         \A k \in 1 .. r :
           t[k] = IF k \in from + 1 .. from + size THEN O[k - from] ELSE s[k]
  PROVE  SubSeq(t, from + 1, from + size) = O
<1>1. \A k \in 1 .. size : from + k \in 1 .. r /\ from + k \in from + 1 .. from + size
                           /\ (from + k) - from = k
  OBVIOUS
<1>2. \A k \in 1 .. size : t[from + k] = O[k]
  BY <1>1
<1>3. size \in Nat
  OBVIOUS
<1> QED
  BY <1>2, <1>3, SliceIs

(* Outputs that fit do not overlap.                                        *)
LEMMA Apart ==
  ASSUME NEW m \in Nat \ {0}, NEW n \in Nat \ {0}, m # n,
         NEW x \in Nat, NEW y \in Nat, x <= block2Size, y <= block2Size
  PROVE  \A k \in dst(m - 1) + 1 .. dst(m - 1) + x :
           k \notin dst(n - 1) + 1 .. dst(n - 1) + y
<1>1. \A a, b \in Nat \ {0} :
        a < b => dst(a - 1) \in Nat /\ dst(b - 1) \in Nat /\ dst(a - 1) + block2Size <= dst(b - 1)
  <2> SUFFICES ASSUME NEW a \in Nat \ {0}, NEW b \in Nat \ {0}, a < b
               PROVE  /\ dst(a - 1) \in Nat /\ dst(b - 1) \in Nat
                      /\ dst(a - 1) + block2Size <= dst(b - 1)
    OBVIOUS
  <2> DEFINE B == block2Size
             c == b - a - 1
  <2>1. B \in Nat /\ c \in Nat /\ a - 1 \in Nat /\ b - 1 \in Nat
    BY Sizes
  <2>2. Slack \in Nat
    BY FramesAssumption
  <2> HIDE DEF B
  <2>3. (b - 1) * B = (a - 1) * B + (c * B + B)
    BY <2>1
  <2>4. (a - 1) * B \in Nat /\ c * B \in Nat
    BY <2>1
  <2>5. (b - 1) * B \in Nat
    BY <2>1
  <2> HIDE DEF c
  <2>6. (a - 1) * B + B <= (b - 1) * B
    BY <2>1, <2>3, <2>4, <2>5
  <2>7. dst(a - 1) = (a - 1) * B + Slack /\ dst(b - 1) = (b - 1) * B + Slack
    BY DEF dst, B
  <2> QED
    BY <2>1, <2>2, <2>4, <2>5, <2>6, <2>7 DEF B
<1>2. block2Size \in Nat
  BY Sizes
<1>3. CASE m < n
  BY <1>1, <1>2, <1>3
<1>4. CASE n < m
  BY <1>1, <1>2, <1>4
<1> QED
  BY <1>3, <1>4

-----------------------------------------------------------------------------
(* Two pushes, the queue as long after them as with both: both went in.    *)
LEMMA BothPushed ==
  ASSUME NEW S, NEW q \in Seq(S), NEW x \in Seq(S), NEW y \in Seq(S), Len(x) = 1,
         NEW r, r = q \/ r = q \o x \/ r = q \o y \/ r = (q \o x) \o y,
         ~(Len(r) < Len(q) + 1 + Len(y))
  PROVE  r = q \o (x \o y)
<1>1. Len(q) \in Nat /\ Len(y) \in Nat /\ q \o x \in Seq(S) /\ Len(q \o x) = Len(q) + 1
  <2>1. Len(q) \in Nat /\ Len(y) \in Nat
    BY LenProperties
  <2>2. q \o x \in Seq(S) /\ Len(q \o x) = Len(q) + Len(x)
    BY ConcatProperties
  <2> QED
    BY <2>1, <2>2
<1>2. Len(q \o y) = Len(q) + Len(y)
  BY ConcatProperties
<1>3. CASE r = q
  BY <1>1, <1>3
<1>4. CASE r = q \o x
  <2>1. Len(y) = 0
    BY <1>1, <1>4
  <2>2. y = <<>>
    BY <2>1
  <2>3. x \o y = x
    BY <2>2, ConcatEmptySeq
  <2> QED
    BY <1>4, <2>3
<1>5. CASE r = q \o y
  BY <1>1, <1>2, <1>5
<1>6. CASE r = (q \o x) \o y
  <2>1. (q \o x) \o y = q \o (x \o y)
    BY ConcatAssociative
  <2> QED
    BY ONLY <1>6, <2>1, Zenon
<1> QED
  BY <1>3, <1>4, <1>5, <1>6
-----------------------------------------------------------------------------
(* The bytes of the files                                                  *)
LEMMA FileIs ==
  ASSUME NEW f \in 1 .. Len(Files)
  PROVE  Files[f].size \in Nat /\ f \in Nat
<1> DEFINE File == [dir : Nat, name : Nat, size : Nat]
<1>1. Files \in Seq(File)
  BY FramesAssumption
<1> HIDE DEF File
<1>2. Files[f] \in File /\ Len(Files) \in Nat
  BY <1>1, ElementOfSeq, LenProperties
<1> QED
  BY <1>2 DEF File

LEMMA DataIs ==
  ASSUME NEW f \in Nat, NEW from \in Nat, NEW n \in Nat
  PROVE  /\ DataBytes(f, from, n) \in Seq(Byte1)
         /\ Len(DataBytes(f, from, n)) = n
         /\ \A k \in 1 .. n : DataBytes(f, from, n)[k] = [file |-> f, at |-> from + k]
<1>1. \A k \in 1 .. n : [file |-> f, at |-> from + k] \in Byte1
  BY DEF Byte1
<1> QED
  BY <1>1 DEF DataBytes

LEMMA DataJoin ==
  ASSUME NEW f \in Nat, NEW a \in Nat, NEW n \in Nat
  PROVE  DataBytes(f, 0, a) \o DataBytes(f, a, n) = DataBytes(f, 0, a + n)
<1> DEFINE x == DataBytes(f, 0, a)
           y == DataBytes(f, a, n)
           z == DataBytes(f, 0, a + n)
<1>1. /\ x \in Seq(Byte1) /\ Len(x) = a
      /\ \A k \in 1 .. a : x[k] = [file |-> f, at |-> 0 + k]
  BY DataIs
<1>2. /\ y \in Seq(Byte1) /\ Len(y) = n
      /\ \A k \in 1 .. n : y[k] = [file |-> f, at |-> a + k]
  BY DataIs
<1>3. /\ z \in Seq(Byte1) /\ Len(z) = a + n
      /\ \A k \in 1 .. a + n : z[k] = [file |-> f, at |-> 0 + k]
  <2>1. a + n \in Nat
    OBVIOUS
  <2> QED
    BY <2>1, DataIs
<1> HIDE DEF x, y, z
<1>4. /\ x \o y \in Seq(Byte1) /\ Len(x \o y) = a + n
      /\ \A k \in 1 .. a + n : (x \o y)[k] = IF k <= a THEN x[k] ELSE y[k - a]
  BY <1>1, <1>2, ConcatProperties
<1>5. ASSUME NEW k \in 1 .. a + n
      PROVE  (x \o y)[k] = z[k]
  <2>1. CASE k <= a
    BY <1>1, <1>3, <1>4, <2>1
  <2>2. CASE ~(k <= a)
    <3>1. k - a \in 1 .. n /\ a + (k - a) = 0 + k
      BY <2>2
    <3> QED
      BY <1>2, <1>3, <1>4, <2>2, <3>1
  <2> QED
    BY <2>1, <2>2
<1>6. x \o y = z
  BY <1>3, <1>4, <1>5, SeqEqual
<1> QED
  BY <1>6 DEF x, y, z

(* A record adds to its file only, if no two files have a name.            *)
DifferentNames ==
  \A f, g \in DOMAIN Files : Files[f].name = Files[g].name => f = g
=============================================================================
