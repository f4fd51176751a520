----------------------- MODULE QueueRoundTrip_proofs -----------------------
(***************************************************************************)
(* That test3 restores the files from what the pipeline sent, in whatever  *)
(* order its jobs finished, as long as they left each other's outputs      *)
(* alone, and that it notices what did not arrive: for any files, sizes,   *)
(* codecs, capacities and numbers of jobs at once.                         *)
(***************************************************************************)
EXTENDS QueueRoundTrip, Frames_proofs, FiniteSetTheorems

(* The records on compressQueue1                                           *)
Arrived == [k \in 1 .. Len(arrived1) |-> block1Storage[arrived1[k]]]

Room == cap.b2 * block2Size + Slack

Job == [n : Nat \ {0}, type : CompressTypes, size : CompressedSizes]

QTypes ==
  /\ cap \in Capacities /\ threads \in Threads
  /\ arrived1 \in Seq(1 .. Len(block1Storage))
  /\ compressQueue1 \in Seq(Byte)
  /\ compressedBuffer \in [1 .. Room -> Byte2]
  /\ compressing \subseteq Job /\ IsFiniteSet(compressing)
  /\ copied \subseteq Block2
  /\ arrived2 \in Seq(Block2)
  /\ transferQueue1 \in Seq(Byte)

EachOnce ==
  /\ \A j, k \in 1 .. Len(arrived1) : arrived1[j] = arrived1[k] => j = k
  /\ \A j, k \in 1 .. Len(arrived2) : arrived2[j].blockNum = arrived2[k].blockNum => j = k
  /\ \A b, c \in copied : b.blockNum = c.blockNum => b = c
  /\ \A j, k \in compressing : j.n = k.n => j = k
  /\ \A b \in copied : \A k \in 1 .. Len(arrived2) : arrived2[k].blockNum # b.blockNum
  /\ \A j \in compressing : \A b \in copied : b.blockNum # j.n - 1
  /\ \A j \in compressing : \A k \in 1 .. Len(arrived2) : arrived2[k].blockNum # j.n - 1

(* Of the pieces, and of a size the codecs may give                        *)
InSlot(j) == j.n <= Len(Pieces2) /\ dst(j.n - 1) + j.size <= Room

OfPiece(b) ==
  b.blockNum < Len(Pieces2) /\ b.blockSize \in CompressedSizes /\ Filled(b)

AllNumbered ==
  /\ \A j \in compressing : InSlot(j)
  /\ \A b \in copied : OfPiece(b)
  /\ \A k \in 1 .. Len(arrived2) : OfPiece(arrived2[k])

(* No job has written over the output of another.                          *)
Undisturbed ==
  \/ threads = 1
  \/ /\ \A j \in compressing : j.size <= block2Size
     /\ \A b \in copied : b.blockSize <= block2Size
     /\ \A k \in 1 .. Len(arrived2) : arrived2[k].blockSize <= block2Size

HasOutput(j) ==
  SubSeq(compressedBuffer, dst(j.n - 1) + 1, dst(j.n - 1) + j.size)
    = Output(j.type, j.n - 1, j.size)

IsCompressed(b) == b.buffer = Output(b.compressType, b.blockNum, b.blockSize)

AllCompressed ==
  /\ \A j \in compressing : HasOutput(j)
  /\ \A b \in copied : IsCompressed(b)
  /\ \A k \in 1 .. Len(arrived2) : IsCompressed(arrived2[k])

(* Both queues hold all that arrived, and addFile cut all there is.        *)
NothingRefused ==
  /\ Len(Cuts) <= cap.b1
  /\ compressQueue1 = FlattenSeq(Records1(Arrived))
  /\ transferQueue1 = FlattenSeq(Frames2(arrived2))

AllArrived ==
  /\ Len(arrived1) = Len(block1Storage)
  /\ Len(arrived2) = Len(Pieces2)
  /\ compressing = {} /\ copied = {}
  /\ served \subseteq DOMAIN block3Storage

QueueInv ==
  /\ QTypes
  /\ EachOnce
  /\ AllNumbered
  /\ Undisturbed => AllCompressed
  /\ refused \/ NothingRefused
  /\ sent => AllArrived
-----------------------------------------------------------------------------
(* What addFile cuts: pieces of one file, which together are the file.     *)
CutSet == {s \in Seq(Byte1) : Len(s) \in 1 .. block1Size /\ s[1].file \in 1 .. Len(Files)}

CutsOf(f) ==
  [k \in 1 .. (Files[f].size + block1Size - 1) \div block1Size |->
    DataBytes(f, (k - 1) * block1Size,
              Least(block1Size, Files[f].size - (k - 1) * block1Size))]

LEMMA DataPart ==
  ASSUME NEW f \in Nat, NEW size \in Nat, NEW a \in Nat, NEW b \in Nat, a + b <= size
  PROVE  SubSeq(DataBytes(f, 0, size), a + 1, a + b) = DataBytes(f, a, b)
<1> DEFINE s == DataBytes(f, 0, size)
           o == DataBytes(f, a, b)
<1>1. /\ s \in Seq(Byte1) /\ Len(s) = size
      /\ \A k \in 1 .. size : s[k] = [file |-> f, at |-> 0 + k]
  BY DataIs
<1>2. /\ o \in Seq(Byte1) /\ Len(o) = b
      /\ \A k \in 1 .. b : o[k] = [file |-> f, at |-> a + k]
  BY DataIs
<1> HIDE DEF s, o
<1>3. s \in [1 .. size -> Byte1]
  BY <1>1, LenProperties
<1>4. \A k \in 1 .. b : s[a + k] = o[k]
  <2> SUFFICES ASSUME NEW k \in 1 .. b
               PROVE  s[a + k] = o[k]
    OBVIOUS
  <2>1. a + k \in 1 .. size /\ 0 + (a + k) = a + k
    OBVIOUS
  <2> QED
    BY <1>1, <1>2, <2>1
<1>5. SubSeq(s, a + 1, a + b) = o
  BY <1>2, <1>3, <1>4, SliceIs
<1> QED
  BY <1>5 DEF s, o

LEMMA CutsOfIs ==
  ASSUME NEW f \in 1 .. Len(Files)
  PROVE  /\ CutsOf(f) \in Seq(CutSet)
         /\ \A k \in 1 .. Len(CutsOf(f)) : CutsOf(f)[k][1].file = f
         /\ FlattenSeq(CutsOf(f)) = DataBytes(f, 0, Files[f].size)
<1> DEFINE z == Files[f].size
           n == block1Size
           s == DataBytes(f, 0, z)
           P == Pieces(s, n)
           C == CutsOf(f)
<1>1. f \in Nat /\ z \in Nat /\ n \in Nat \ {0}
  BY FileIs, Sizes
<1>2. s \in Seq(Byte1) /\ Len(s) = z
  BY <1>1, DataIs
<1>3. C = [k \in 1 .. (z + n - 1) \div n |->
             DataBytes(f, (k - 1) * n, Least(n, z - (k - 1) * n))]
  BY DEF CutsOf
<1> HIDE DEF n, z, s, P, C
<1>4. /\ P \in Seq(Seq(Byte1)) /\ Len(P) = (z + n - 1) \div n
      /\ \A i \in 1 .. Len(P) :
           /\ P[i] = SubSeq(s, (i - 1) * n + 1, Least(i * n, Len(s)))
           /\ (i - 1) * n \in Nat /\ i * n \in Nat /\ (i - 1) * n < Len(s)
  BY <1>1, <1>2, PieceIs DEF P
<1> DEFINE c == (z + n - 1) \div n
<1>5. c \in Nat /\ C = [k \in 1 .. c |-> C[k]] /\ P = [k \in 1 .. c |-> P[k]]
  BY <1>3, <1>4, LenProperties
<1>6. ASSUME NEW k \in 1 .. c
      PROVE  C[k] = P[k] /\ C[k] \in CutSet /\ C[k][1].file = f
  <2> DEFINE a == (k - 1) * n
             b == Least(n, z - a)
  <2>1. a \in Nat /\ k * n \in Nat /\ a < z /\ P[k] = SubSeq(s, a + 1, Least(k * n, z))
    BY <1>2, <1>4
  <2>2. k * n = a + n
    BY <1>1, <1>5
  <2> HIDE DEF a
  <2>3. b \in 1 .. n /\ a + b <= z /\ Least(k * n, z) = a + b
    BY <1>1, <2>1, <2>2 DEF Least
  <2>4. C[k] = DataBytes(f, a, b)
    BY <1>3 DEF a
  <2> HIDE DEF b
  <2>5. P[k] = DataBytes(f, a, b)
    <3>1. b \in Nat /\ a \in Nat /\ a + b <= z
      BY <1>1, <2>1, <2>3
    <3>2. f \in Nat /\ z \in Nat /\ a \in Nat /\ b \in Nat /\ a + b <= z
      BY <1>1, <3>1
    <3>4. SubSeq(DataBytes(f, 0, z), a + 1, a + b) = DataBytes(f, a, b)
      BY <3>2, DataPart
    <3>3. P[k] = SubSeq(s, a + 1, a + b)
      BY <2>1, <2>3
    <3> QED
      BY <3>3, <3>4 DEF s
  <2> DEFINE d == DataBytes(f, a, b)
  <2>6. /\ d \in Seq(Byte1) /\ Len(d) = b
        /\ \A j \in 1 .. b : d[j] = [file |-> f, at |-> a + j]
    <3>1. b \in Nat /\ a \in Nat
      BY <1>1, <2>1, <2>3
    <3> QED
      BY <1>1, <3>1, DataIs
  <2> HIDE DEF d
  <2>7. d[1].file = f
    BY <2>3, <2>6
  <2>8. d \in CutSet
    BY <2>3, <2>6, <2>7 DEF CutSet, n
  <2> QED
    BY <2>4, <2>5, <2>7, <2>8 DEF d
<1>7. C = P
  BY <1>5, <1>6
<1>8. FlattenSeq(P) = s
  BY <1>1, <1>2, FlattenPieces DEF P
<1>9. Len(C) = c /\ C \in Seq(CutSet)
  <2>1. \A k \in 1 .. c : C[k] \in CutSet
    BY <1>6
  <2> HIDE DEF c
  <2> QED
    BY <1>5, <2>1
<1> QED
  BY <1>6, <1>7, <1>8, <1>9 DEF C, s, z

(* Sequences joined one after the other                                    *)
LEMMA FlattenConcat ==
  ASSUME NEW S, NEW q \in Seq(Seq(S)), NEW r \in Seq(Seq(S))
  PROVE  FlattenSeq(q \o r) = FlattenSeq(q) \o FlattenSeq(r)
<1> DEFINE m == Len(r)
           g == FlattenSeq(q)
           T == {k \in 0 .. m : FlattenSeq(q \o SubSeq(r, 1, k)) = g \o Joined(r, k)}
<1>1. m \in Nat /\ g \in Seq(S)
  BY LenProperties, FlattenType
<1> HIDE DEF g
<1>2. 0 \in T
  <2>1. SubSeq(r, 1, 0) = <<>> /\ Joined(r, 0) = <<>>
    BY PrefixEnds, JoinedSteps
  <2>2. q \o <<>> = q /\ g \o <<>> = g
    BY <1>1, ConcatEmptySeq
  <2>3. FlattenSeq(q \o SubSeq(r, 1, 0)) = g
    BY <2>1, <2>2 DEF g
  <2>4. g \o Joined(r, 0) = g
    BY <2>1, <2>2
  <2> QED
    BY <1>1, <2>3, <2>4
<1>3. ASSUME NEW k \in 0 .. m - 1, k \in T
      PROVE  k + 1 \in T
  <2> DEFINE p == SubSeq(r, 1, k)
             x == r[k + 1]
             j == Joined(r, k)
  <2>1. p \in Seq(Seq(S)) /\ x \in Seq(S) /\ SubSeq(r, 1, k + 1) = Append(p, x)
    BY <1>1
  <2>2. j \in Seq(S) /\ Joined(r, k + 1) = j \o x
    <3>1. k \in 0 .. m
      BY <1>1
    <3> QED
      BY <3>1, JoinedType, JoinedSteps
  <2>3. FlattenSeq(q \o p) = g \o j
    BY <1>3
  <2> HIDE DEF p, x, j
  <2>4. q \o p \in Seq(Seq(S)) /\ q \o Append(p, x) = Append(q \o p, x)
    <3> DEFINE Z == Seq(S)
    <3>1. q \in Seq(Z) /\ p \in Seq(Z) /\ x \in Z
      BY <2>1
    <3> HIDE DEF Z
    <3>2. q \o p \in Seq(Z) /\ q \o Append(p, x) = Append(q \o p, x)
      BY ONLY <3>1
    <3> QED
      BY <3>2 DEF Z
  <2>5. FlattenSeq(Append(q \o p, x)) = FlattenSeq(q \o p) \o x
    BY <2>1, <2>4, FlattenAppend
  <2>6. (g \o j) \o x = g \o (j \o x)
    <3>1. g \in Seq(S) /\ j \in Seq(S) /\ x \in Seq(S)
      BY <1>1, <2>1, <2>2
    <3> QED
      BY <3>1, ConcatAssociative
  <2>7. k + 1 \in 0 .. m
    BY <1>1
  <2> QED
    BY <2>1, <2>2, <2>3, <2>4, <2>5, <2>6, <2>7
<1> HIDE DEF m, T
<1>4. \A k \in 0 .. m : k \in T
  BY <1>1, <1>2, <1>3, Climb
<1>5. m \in T
  BY <1>1, <1>4
<1>6. SubSeq(r, 1, m) = r /\ Joined(r, m) = FlattenSeq(r)
  BY PrefixEnds, JoinedSteps DEF m
<1> QED
  BY <1>5, <1>6 DEF T, g

(* The cuts of one file, and nothing in place of the others                *)
Only(f, s) == [n \in 1 .. Len(s) |-> IF s[n][1].file = f THEN s[n] ELSE <<>>]

LEMMA OnlyIs ==
  ASSUME NEW f, NEW s \in Seq(CutSet)
  PROVE  /\ Only(f, s) \in Seq(Seq(Byte1)) /\ Len(Only(f, s)) = Len(s)
         /\ \A n \in 1 .. Len(s) : Only(f, s)[n] = IF s[n][1].file = f THEN s[n] ELSE <<>>
<1> DEFINE m == Len(s)
           O == Only(f, s)
<1>1. m \in Nat /\ \A n \in 1 .. m : s[n] \in Seq(Byte1)
  BY LenProperties, ElementOfSeq DEF CutSet
<1>2. O = [n \in 1 .. m |-> IF s[n][1].file = f THEN s[n] ELSE <<>>]
  BY DEF Only
<1> HIDE DEF O, m
<1>3. \A n \in 1 .. m : O[n] \in Seq(Byte1)
  <2>1. <<>> \in Seq(Byte1)
    OBVIOUS
  <2> QED
    BY <1>1, <1>2, <2>1
<1>4. O \in Seq(Seq(Byte1)) /\ Len(O) = m
  BY <1>1, <1>2, <1>3
<1> QED
  BY <1>2, <1>4 DEF O, m

LEMMA OnlyConcat ==
  ASSUME NEW f, NEW s \in Seq(CutSet), NEW t \in Seq(CutSet)
  PROVE  FlattenSeq(Only(f, s \o t)) = FlattenSeq(Only(f, s)) \o FlattenSeq(Only(f, t))
<1> DEFINE u == s \o t
           A == Only(f, s)
           B == Only(f, t)
           C == Only(f, u)
           S == Seq(Byte1)
<1>1. /\ A \in Seq(Seq(Byte1)) /\ Len(A) = Len(s)
      /\ \A n \in 1 .. Len(s) : A[n] = IF s[n][1].file = f THEN s[n] ELSE <<>>
  BY OnlyIs
<1>2. /\ B \in Seq(Seq(Byte1)) /\ Len(B) = Len(t)
      /\ \A n \in 1 .. Len(t) : B[n] = IF t[n][1].file = f THEN t[n] ELSE <<>>
  BY OnlyIs
<1>3. /\ u \in Seq(CutSet) /\ Len(u) = Len(s) + Len(t)
      /\ \A n \in 1 .. Len(s) + Len(t) : u[n] = IF n <= Len(s) THEN s[n] ELSE t[n - Len(s)]
  BY ConcatProperties
<1> HIDE DEF u
<1>4. /\ C \in Seq(Seq(Byte1)) /\ Len(C) = Len(u)
      /\ \A n \in 1 .. Len(u) : C[n] = IF u[n][1].file = f THEN u[n] ELSE <<>>
  <2>1. u \in Seq(CutSet)
    BY <1>3
  <2> QED
    BY <2>1, OnlyIs
<1> HIDE DEF A, B, C, S
<1>5. /\ A \o B \in Seq(S) /\ Len(A \o B) = Len(A) + Len(B)
      /\ \A n \in 1 .. Len(A) + Len(B) :
           (A \o B)[n] = IF n <= Len(A) THEN A[n] ELSE B[n - Len(A)]
  <2>1. A \in Seq(S) /\ B \in Seq(S)
    BY <1>1, <1>2 DEF S
  <2> QED
    BY <2>1, ConcatProperties
<1>6. Len(s) \in Nat /\ Len(t) \in Nat
  BY LenProperties
<1>7. ASSUME NEW n \in 1 .. Len(s) + Len(t)
      PROVE  C[n] = (A \o B)[n]
  <2>1. CASE n <= Len(s)
    <3>1. n \in 1 .. Len(s)
      BY <1>6, <2>1
    <3> QED
      BY <1>1, <1>2, <1>3, <1>4, <1>5, <2>1, <3>1
  <2>2. CASE ~(n <= Len(s))
    <3> DEFINE k == n - Len(s)
    <3>1. k \in 1 .. Len(t)
      BY <1>6, <2>2
    <3>2. u[n] = t[k] /\ (A \o B)[n] = B[k]
      BY <1>1, <1>2, <1>3, <1>5, <2>2
    <3> HIDE DEF k
    <3> QED
      BY <1>2, <1>3, <1>4, <3>1, <3>2
  <2> QED
    BY <2>1, <2>2
<1>8. C = A \o B
  <2>1. C \in Seq(S)
    BY <1>4 DEF S
  <2> QED
    <3>1. /\ A \o B \in Seq(S) /\ Len(A \o B) = Len(C)
          /\ \A n \in 1 .. Len(C) : C[n] = (A \o B)[n]
      BY <1>1, <1>2, <1>3, <1>4, <1>5, <1>7
    <3> QED
      BY <2>1, <3>1, SeqEqual
<1>9. FlattenSeq(A \o B) = FlattenSeq(A) \o FlattenSeq(B)
  BY <1>1, <1>2, FlattenConcat
<1> QED
  BY <1>8, <1>9 DEF A, B, C, u

LEMMA FlattenNothing ==
  ASSUME NEW S, NEW q \in Seq(Seq(S)), \A n \in 1 .. Len(q) : q[n] = <<>>
  PROVE  FlattenSeq(q) = <<>>
<1> DEFINE m == Len(q)
           T == {k \in 0 .. m : Joined(q, k) = <<>>}
<1>1. m \in Nat /\ Joined(q, m) = FlattenSeq(q) /\ Joined(q, 0) = <<>>
      /\ \A k \in 0 .. m - 1 : Joined(q, k + 1) = Joined(q, k) \o q[k + 1]
  BY LenProperties, JoinedSteps
<1>2. \A n \in 1 .. m : q[n] = <<>>
  OBVIOUS
<1> HIDE DEF m
<1>3. 0 \in T
  BY <1>1
<1>4. ASSUME NEW k \in 0 .. m - 1, k \in T
      PROVE  k + 1 \in T
  <2>1. k + 1 \in 1 .. m /\ k + 1 \in 0 .. m
    BY <1>1
  <2>2. <<>> \o <<>> = <<>>
    OBVIOUS
  <2>3. Joined(q, k + 1) = Joined(q, k) \o q[k + 1] /\ q[k + 1] = <<>>
    BY <1>1, <1>2, <2>1
  <2>4. Joined(q, k) = <<>>
    BY <1>4
  <2> QED
    BY <2>1, <2>2, <2>3, <2>4
<1> HIDE DEF T
<1>5. \A k \in 0 .. m : k \in T
  BY <1>1, <1>3, <1>4, Climb
<1>6. m \in T
  BY <1>1, <1>5
<1> QED
  BY <1>1, <1>6 DEF T

LEMMA OnlyOne ==
  ASSUME NEW f \in 1 .. Len(Files), NEW g \in 1 .. Len(Files)
  PROVE  FlattenSeq(Only(f, CutsOf(g))) =
           IF g = f THEN DataBytes(f, 0, Files[f].size) ELSE <<>>
<1> DEFINE C == CutsOf(g)
           O == Only(f, C)
           S == Seq(Byte1)
<1>1. /\ C \in Seq(CutSet)
      /\ \A k \in 1 .. Len(C) : C[k][1].file = g
      /\ FlattenSeq(C) = DataBytes(g, 0, Files[g].size)
  BY CutsOfIs
<1> HIDE DEF C
<1>2. /\ O \in Seq(S) /\ Len(O) = Len(C)
      /\ \A k \in 1 .. Len(C) : O[k] = IF C[k][1].file = f THEN C[k] ELSE <<>>
  BY <1>1, OnlyIs
<1> HIDE DEF O
<1>3. CASE g = f
  <2>1. C \in Seq(S)
    <3>1. CutSet \subseteq S
      BY DEF CutSet
    <3> HIDE DEF S
    <3> QED
      BY <1>1, <3>1, SeqMonotonic
  <2> HIDE DEF S
  <2>2. \A k \in 1 .. Len(C) : O[k] = C[k]
    BY <1>1, <1>2, <1>3
  <2>3. O = C
    BY <1>2, <2>1, <2>2, SeqEqual
  <2> QED
    BY <1>1, <1>3, <2>3 DEF O, C
<1>4. CASE g # f
  <2>1. \A k \in 1 .. Len(O) : O[k] = <<>>
    BY <1>1, <1>2, <1>4
  <2>2. FlattenSeq(O) = <<>>
    BY <1>2, <2>1, FlattenNothing
  <2> QED
    BY <1>4, <2>2 DEF O, C
<1> QED
  BY <1>3, <1>4

LEMMA CutsAre ==
  /\ Cuts \in Seq(CutSet)
  /\ \A f \in 1 .. Len(Files) : FlattenSeq(Only(f, Cuts)) = DataBytes(f, 0, Files[f].size)
<1> DEFINE m == Len(Files)
           C == [f \in 1 .. m |-> CutsOf(f)]
<1>1. m \in Nat /\ DOMAIN Files = 1 .. m
  BY FramesAssumption, LenProperties
<1>2. Cuts = FlattenSeq(C)
  BY <1>1 DEF Cuts, CutsOf
<1>3. \A f \in 1 .. m : CutsOf(f) \in Seq(CutSet)
  BY CutsOfIs
<1>4. C \in Seq(Seq(CutSet)) /\ Len(C) = m /\ \A f \in 1 .. m : C[f] = CutsOf(f)
  <2> DEFINE S == Seq(CutSet)
  <2>1. m \in Nat /\ \A f \in 1 .. m : CutsOf(f) \in S
    BY <1>1, <1>3
  <2> HIDE DEF S, m
  <2>2. C \in Seq(S) /\ Len(C) = m /\ \A f \in 1 .. m : C[f] = CutsOf(f)
    BY <2>1
  <2> QED
    BY <2>2 DEF S
<1> HIDE DEF C
<1>5. Cuts \in Seq(CutSet)
  BY <1>2, <1>4, FlattenType
<1>6. ASSUME NEW f \in 1 .. Len(Files)
      PROVE  FlattenSeq(Only(f, Cuts)) = DataBytes(f, 0, Files[f].size)
  <2> DEFINE D == DataBytes(f, 0, Files[f].size)
             is(k) == IF f <= k THEN D ELSE <<>>
             T == {k \in 0 .. m : FlattenSeq(Only(f, Joined(C, k))) = is(k)}
  <2>1. D \in Seq(Byte1) /\ f \in Nat /\ f \in 1 .. m
    BY FileIs, DataIs
  <2>2. /\ Joined(C, 0) = <<>> /\ Joined(C, m) = Cuts
        /\ \A k \in 0 .. m - 1 : Joined(C, k + 1) = Joined(C, k) \o C[k + 1]
    BY <1>2, <1>4, JoinedSteps
  <2>3. \A k \in 0 .. m : Joined(C, k) \in Seq(CutSet)
    BY <1>4, JoinedType
  <2> HIDE DEF D, m
  <2>4. 0 \in T
    <3> DEFINE e == <<>>
    <3>1. e \in Seq(CutSet) /\ Len(e) = 0
      OBVIOUS
    <3> HIDE DEF e
    <3>2. Only(f, e) \in Seq(Seq(Byte1)) /\ Len(Only(f, e)) = 0
      BY <3>1, OnlyIs
    <3>3. Only(f, e) = <<>>
      <4> DEFINE o == Only(f, e)
                 S == Seq(Byte1)
      <4>1. o \in Seq(S) /\ Len(o) = 0
        BY <3>2
      <4> HIDE DEF o, S
      <4>2. o = <<>>
        BY <4>1, EmptySeq
      <4> QED
        BY <4>2 DEF o
    <3>4. is(0) = <<>>
      BY <2>1
    <3> HIDE DEF is
    <3>5. FlattenSeq(Only(f, Joined(C, 0))) = is(0)
      BY <2>2, <3>3, <3>4, FlattenEmpty DEF e
    <3> QED
      BY <1>1, <3>5 DEF m
  <2>5. ASSUME NEW k \in 0 .. m - 1, k \in T
        PROVE  k + 1 \in T
    <3> DEFINE x == Joined(C, k)
               y == CutsOf(k + 1)
    <3>1. k + 1 \in 1 .. m /\ k + 1 \in 0 .. m /\ k \in 0 .. m
      BY <1>1 DEF m
    <3>2. x \in Seq(CutSet) /\ y \in Seq(CutSet) /\ Joined(C, k + 1) = x \o y
      BY <1>3, <1>4, <2>2, <2>3, <3>1 DEF m
    <3>3. FlattenSeq(Only(f, y)) = IF k + 1 = f THEN D ELSE <<>>
      BY <3>1, OnlyOne DEF D, m
    <3>4. FlattenSeq(Only(f, x)) = is(k)
      BY <2>5
    <3> HIDE DEF x, y
    <3>5. FlattenSeq(Only(f, x \o y)) = FlattenSeq(Only(f, x)) \o FlattenSeq(Only(f, y))
      BY <3>2, OnlyConcat
    <3>6. D \o <<>> = D /\ <<>> \o D = D /\ <<>> \o <<>> = <<>>
      BY <2>1, ConcatEmptySeq
    <3>7. FlattenSeq(Only(f, x \o y)) = is(k + 1)
      <4>1. CASE f <= k
        <5>1. f <= k + 1 /\ k + 1 # f
          BY <2>1, <3>1, <4>1
        <5> QED
          BY <3>3, <3>4, <3>5, <3>6, <4>1, <5>1
      <4>2. CASE f = k + 1
        <5>1. ~(f <= k) /\ f <= k + 1
          BY <2>1, <3>1, <4>2
        <5> QED
          BY <3>3, <3>4, <3>5, <3>6, <4>2, <5>1
      <4>3. CASE ~(f <= k + 1)
        <5>1. ~(f <= k) /\ k + 1 # f
          BY <2>1, <3>1, <4>3
        <5> QED
          BY <3>3, <3>4, <3>5, <3>6, <4>3, <5>1
      <4> QED
        BY <2>1, <3>1, <4>1, <4>2, <4>3
    <3> QED
      BY <3>1, <3>2, <3>7
  <2> HIDE DEF T
  <2>6. \A k \in 0 .. m : k \in T
    BY <1>1, <2>4, <2>5, Climb DEF m
  <2>7. m \in T /\ f <= m
    BY <1>1, <2>1, <2>6 DEF m
  <2> QED
    BY <2>2, <2>7 DEF T, D
<1> QED
  BY <1>5, <1>6

LEMMA StorageIs ==
  ASSUME cap \in Capacities
  PROVE  /\ block1Storage \in Seq(Block1)
         /\ Len(block1Storage) = Least(Len(Cuts), cap.b1) /\ Len(block1Storage) \in Nat
         /\ \A n \in 1 .. Len(block1Storage) :
              /\ n \in 1 .. Len(Cuts)
              /\ block1Storage[n].file = Cuts[n][1].file
              /\ block1Storage[n].file \in 1 .. Len(Files)
              /\ block1Storage[n].blockNum = n - 1
              /\ block1Storage[n].buffer = Cuts[n]
              /\ Filled(block1Storage[n]) /\ block1Storage[n].blockSize <= block1Size
<1> DEFINE c == Cuts
           m == Least(Len(c), cap.b1)
           B == block1Storage
<1>1. c \in Seq(CutSet) /\ Len(c) \in Nat
  BY CutsAre, LenProperties
<1>2. B = [n \in 1 .. m |-> block1(c[n][1].file, n - 1, c[n])]
  BY DEF block1Storage
<1>3. cap.b1 \in Nat
  BY RoundTripAssumption
<1> HIDE DEF c, B
<1>4. m \in Nat /\ m <= Len(c)
  BY <1>1, <1>3 DEF Least
<1> HIDE DEF m
<1>5. ASSUME NEW n \in 1 .. m
      PROVE  /\ n \in 1 .. Len(c) /\ B[n] \in Block1
             /\ B[n].file = c[n][1].file /\ B[n].file \in 1 .. Len(Files)
             /\ B[n].blockNum = n - 1 /\ B[n].buffer = c[n]
             /\ Filled(B[n]) /\ B[n].blockSize <= block1Size
  <2> DEFINE d == c[n]
             k == n - 1
             f == d[1].file
  <2>1. n \in 1 .. Len(c) /\ k \in Nat
    BY <1>1, <1>4
  <2>2. d \in CutSet
    BY <1>1, <2>1, ElementOfSeq
  <2>3. B[n] = block1(f, k, d)
    BY <1>2
  <2> HIDE DEF d, k
  <2>4. d \in Seq(Byte1) /\ Len(d) \in Nat /\ Len(d) <= block1Size
    BY <2>2, Sizes DEF CutSet
  <2>5. f \in 1 .. Len(Files)
    BY <2>2 DEF CutSet
  <2>6. f \in Nat
    BY <2>5, FileIs
  <2> HIDE DEF f
  <2>7. B[n] = [file |-> f, blockNum |-> k, blockSize |-> Len(d), buffer |-> d]
    BY <2>3 DEF block1
  <2>8. B[n] \in Block1
    <3> DEFINE S == Seq(Byte1)
    <3>1. d \in S
      BY <2>4
    <3> HIDE DEF S
    <3>2. B[n] \in [file : Nat, blockNum : Nat, blockSize : Nat, buffer : S]
      BY <2>1, <2>4, <2>6, <2>7, <3>1
    <3> QED
      BY <3>2 DEF Block1, S
  <2>9. Filled(B[n])
    BY <2>7 DEF Filled
  <2> QED
    BY <2>1, <2>4, <2>5, <2>7, <2>8, <2>9 DEF f, d, k
<1>6. B \in Seq(Block1) /\ Len(B) = m
  <2>1. \A n \in 1 .. m : B[n] \in Block1
    BY <1>5
  <2>2. B = [n \in 1 .. m |-> B[n]]
    BY <1>2
  <2> HIDE DEF B
  <2> QED
    BY <1>4, <2>1, <2>2
<1>7. Len(B) \in Nat
  BY <1>4, <1>6
<1> QED
  BY <1>5, <1>6, <1>7 DEF B, m, c

LEMMA PiecesGrow ==
  ASSUME NEW s \in Seq(Byte), NEW t \in Seq(Byte), Len(s) <= Len(t), NEW n \in Nat \ {0}
  PROVE  Len(Pieces(s, n)) <= Len(Pieces(t, n))
<1> DEFINE l == Len(s)
           k == Len(t)
           c == (l + n - 1) \div n
           d == (k + n - 1) \div n
<1>1. l \in Nat /\ k \in Nat /\ l <= k
  BY LenProperties
<1>2. Len(Pieces(s, n)) = c /\ Len(Pieces(t, n)) = d
  BY PieceCount
<1> HIDE DEF l, k
<1>3. /\ c \in Nat
      /\ \A i \in 1 .. c : (i - 1) * n \in Nat /\ (i - 1) * n < l
  BY <1>1, Ceiling
<1>4. d \in Nat /\ d * n >= k
  BY <1>1, Ceiling
<1> HIDE DEF c, d
<1>5. ASSUME ~(c <= d)
      PROVE  FALSE
  <2> DEFINE e == c - 1
             x == e - d
  <2>1. e \in Nat /\ x \in Nat /\ c \in 1 .. c /\ e = d + x
    BY <1>3, <1>4, <1>5
  <2>2. e * n < l
    BY <1>3, <2>1
  <2> HIDE DEF e, x
  <2>3. e * n = d * n + x * n /\ x * n \in Nat /\ d * n \in Nat
    BY <1>4, <2>1
  <2> QED
    BY <1>1, <1>4, <2>2, <2>3
<1> QED
  BY <1>2, <1>5

(* The records of some numbers                                             *)
LEMMA Picked ==
  ASSUME NEW S, NEW b \in Seq(S), NEW s \in Seq(1 .. Len(b))
  PROVE  /\ [k \in 1 .. Len(s) |-> b[s[k]]] \in Seq(S)
         /\ Len([k \in 1 .. Len(s) |-> b[s[k]]]) = Len(s)
         /\ \A k \in 1 .. Len(s) : s[k] \in 1 .. Len(b)
<1> DEFINE m == Len(s)
           D == 1 .. Len(b)
<1>1. \A d \in D : b[d] \in S
  BY ElementOfSeq
<1>2. s \in Seq(D)
  OBVIOUS
<1> HIDE DEF D
<1>3. m \in Nat /\ \A k \in 1 .. m : s[k] \in D
  BY <1>2, LenProperties, ElementOfSeq
<1> HIDE DEF m
<1>4. \A k \in 1 .. m : b[s[k]] \in S
  BY <1>1, <1>3
<1>5. [k \in 1 .. m |-> b[s[k]]] \in Seq(S) /\ Len([k \in 1 .. m |-> b[s[k]]]) = m
  BY <1>3, <1>4
<1> QED
  BY <1>3, <1>5 DEF m, D

(* One more number, one more record                                        *)
LEMMA OneMore ==
  ASSUME NEW S, NEW b \in Seq(S), NEW s \in Seq(1 .. Len(b)), NEW n \in 1 .. Len(b)
  PROVE  /\ Append(s, n) \in Seq(1 .. Len(b))
         /\ [k \in 1 .. Len(s) |-> b[s[k]]] \in Seq(S)
         /\ Len([k \in 1 .. Len(s) |-> b[s[k]]]) = Len(s)
         /\ [k \in 1 .. Len(Append(s, n)) |-> b[Append(s, n)[k]]]
              = Append([k \in 1 .. Len(s) |-> b[s[k]]], b[n])
<1> DEFINE D == 1 .. Len(b)
           m == Len(s)
           t == Append(s, n)
           A == [k \in 1 .. m |-> b[s[k]]]
<1>1. \A d \in D : b[d] \in S
  BY ElementOfSeq
<1>2. s \in Seq(D) /\ n \in D
  OBVIOUS
<1> HIDE DEF D
<1>3. /\ t \in Seq(D) /\ Len(t) = m + 1 /\ m \in Nat
      /\ \A k \in 1 .. m : t[k] = s[k]
      /\ t[m + 1] = n
  BY <1>2, AppendProperties, LenProperties
<1>4. \A k \in 1 .. m : s[k] \in D
  BY <1>2, ElementOfSeq
<1> HIDE DEF t, m
<1>6. \A k \in 1 .. m : A[k] = b[s[k]]
  OBVIOUS
<1>7. A \in Seq(S) /\ Len(A) = m
  BY <1>2, Picked DEF D, m
<1> HIDE DEF A
<1>8. b[n] \in S
  BY <1>1, <1>2
<1>9. Append(A, b[n]) = [k \in 1 .. m + 1 |-> IF k <= m THEN A[k] ELSE b[n]]
  BY <1>7, <1>8, AppendIs
<1>10. \A k \in 1 .. m + 1 : b[t[k]] = IF k <= m THEN A[k] ELSE b[n]
  <2> SUFFICES ASSUME NEW k \in 1 .. m + 1
               PROVE  b[t[k]] = IF k <= m THEN A[k] ELSE b[n]
    OBVIOUS
  <2>1. CASE k <= m
    <3>1. k \in 1 .. m
      BY <1>3, <2>1
    <3> QED
      BY <1>3, <1>6, <2>1, <3>1
  <2>2. CASE ~(k <= m)
    <3>1. k = m + 1
      BY <1>3, <2>2
    <3> QED
      BY <1>3, <2>2, <3>1
  <2> QED
    BY <2>1, <2>2
<1>11. [k \in 1 .. Len(t) |-> b[t[k]]] = Append(A, b[n])
  BY <1>3, <1>9, <1>10
<1> QED
  BY <1>3, <1>7, <1>11 DEF A, t, m, D
-----------------------------------------------------------------------------
(* QueueInv is inductive.                                                  *)
LEMMA QueueInit ==
  ASSUME Init PROVE QueueInv
<1>1. /\ cap \in Capacities /\ threads \in Threads
      /\ arrived1 = <<>> /\ compressQueue1 = <<>>
      /\ compressedBuffer = [k \in 1 .. Room |-> NoByte]
      /\ compressing = {} /\ copied = {}
      /\ arrived2 = <<>> /\ transferQueue1 = <<>> /\ sent = FALSE
      /\ refused = (Len(Cuts) > cap.b1)
  BY DEF Init, Room
<1>2. Len(<<>>) = 0 /\ \A n : n \notin 1 .. 0
  OBVIOUS
<1>3. QTypes
  <2>1. \A S : <<>> \in Seq(S)
    OBVIOUS
  <2>2. compressedBuffer \in [1 .. Room -> Byte2]
    <3>1. NoByte \in Byte2
      BY DEF Byte2
    <3> QED
      BY <1>1, <3>1
  <2>3. IsFiniteSet({})
    BY FS_EmptySet
  <2> QED
    BY <1>1, <2>1, <2>2, <2>3 DEF QTypes
<1>4. refused \/ NothingRefused
  <2>1. Len(Cuts) \in Nat /\ cap.b1 \in Nat
    BY <1>1, CutsAre, LenProperties, RoundTripAssumption
  <2>2. refused \/ Len(Cuts) <= cap.b1
    <3>1. Len(Cuts) > cap.b1 \/ Len(Cuts) <= cap.b1
      BY <2>1
    <3> QED
      BY <1>1, <3>1, Zenon
  <2>3. Arrived = <<>>
    BY <1>1, <1>2 DEF Arrived
  <2>4. Records1(<<>>) = <<>> /\ Frames2(<<>>) = <<>>
    BY <1>2 DEF Records1, Frames2
  <2> QED
    BY <1>1, <2>2, <2>3, <2>4, FlattenEmpty DEF NothingRefused
<1>5. EachOnce /\ AllNumbered /\ AllCompressed
  BY <1>1, <1>2 DEF EachOnce, AllNumbered, AllCompressed
<1> QED
  BY <1>1, <1>3, <1>4, <1>5 DEF QueueInv

(* What stays as it is                                                     *)
LEMMA SameQueues ==
  ASSUME QueueInv, UNCHANGED <<setting, stage1, stage2, served, refused, sent>>
  PROVE  QueueInv'
<1>1. /\ cap' = cap /\ threads' = threads
      /\ arrived1' = arrived1 /\ compressQueue1' = compressQueue1
      /\ compressedBuffer' = compressedBuffer /\ compressing' = compressing
      /\ copied' = copied /\ arrived2' = arrived2 /\ transferQueue1' = transferQueue1
      /\ served' = served /\ refused' = refused /\ sent' = sent
  BY DEF setting, stage1, stage2
<1>2. /\ block1Storage' = block1Storage /\ Pieces2' = Pieces2 /\ Arrived' = Arrived
      /\ block3Storage' = block3Storage /\ Room' = Room
  BY <1>1 DEF block1Storage, Pieces2, Arrived, block3Storage, Room
<1>3. QTypes' /\ EachOnce'
  BY <1>1, <1>2 DEF QueueInv, QTypes, EachOnce
<1>4. AllNumbered'
  BY <1>1, <1>2 DEF QueueInv, AllNumbered, InSlot, OfPiece
<1>5. (Undisturbed => AllCompressed)'
  BY <1>1 DEF QueueInv, Undisturbed, AllCompressed, HasOutput
<1>6. (refused \/ NothingRefused)'
  BY <1>1, <1>2 DEF QueueInv, NothingRefused
<1>7. (sent => AllArrived)'
  BY <1>1, <1>2 DEF QueueInv, AllArrived
<1> QED
  BY <1>3, <1>4, <1>5, <1>6, <1>7 DEF QueueInv

LEMMA ReadStep ==
  ASSUME QueueInv, ~sent, NEW n \in DOMAIN block1Storage, ReadBlock(n) PROVE QueueInv'
<1> DEFINE B == block1Storage
           q == compressQueue1
           r == Record1(block1Storage[n])
           full == Refuses(compressQueue1, r, cap.b1 * block1Bytes)
<1>1. /\ cap \in Capacities /\ arrived1 \in Seq(1 .. Len(B)) /\ q \in Seq(Byte)
      /\ copied \subseteq Block2 /\ compressing \subseteq Job
      /\ arrived2 \in Seq(Block2) /\ transferQueue1 \in Seq(Byte)
  BY DEF QueueInv, QTypes
<1>2. /\ B \in Seq(Block1) /\ n \in 1 .. Len(B)
  <2>1. B \in Seq(Block1)
    BY <1>1, StorageIs
  <2> QED
    BY <2>1, LenProperties
<1>3. /\ n \notin Range(arrived1) /\ arrived1' = Append(arrived1, n)
      /\ compressQueue1' = q \o (IF full THEN <<>> ELSE r)
      /\ refused' = (refused \/ full)
      /\ cap' = cap /\ threads' = threads
      /\ compressedBuffer' = compressedBuffer /\ compressing' = compressing
      /\ copied' = copied /\ arrived2' = arrived2 /\ transferQueue1' = transferQueue1
      /\ served' = served /\ sent' = sent
  BY DEF ReadBlock, setting, stage2
<1>4. block1Storage' = B /\ Room' = Room
  BY <1>3 DEF block1Storage, Room
<1>5. r \in Seq(Byte)
  <2>1. block1Storage[n] \in Block1
    BY <1>2, ElementOfSeq
  <2> QED
    BY <2>1, Record1Bytes
<1>6. \/ refused' /\ compressQueue1' = q
      \/ (refused => refused') /\ compressQueue1' = q \o r
  <2>1. q \o <<>> = q
    BY <1>1, ConcatEmptySeq
  <2> HIDE DEF full, q, r
  <2>2. CASE full
    <3>1. refused'
      BY <1>3, <2>2, Zenon
    <3>2. compressQueue1' = q
      BY <1>3, <2>1, <2>2, Zenon
    <3> QED
      BY <3>1, <3>2
  <2>3. CASE ~full
    <3>1. refused => refused'
      BY <1>3, Zenon
    <3>2. compressQueue1' = q \o r
      BY <1>3, <2>3, Zenon
    <3> QED
      BY <3>1, <3>2
  <2> QED
    BY <2>2, <2>3
<1>7. compressQueue1' \in Seq(Byte) /\ Len(q) <= Len(compressQueue1')
  <2>1. q \o r \in Seq(Byte) /\ Len(q \o r) = Len(q) + Len(r) /\ Len(q) \in Nat /\ Len(r) \in Nat
    BY <1>1, <1>5, ConcatProperties, LenProperties
  <2> HIDE DEF full, r, q
  <2>2. compressQueue1' = q \/ compressQueue1' = q \o r
    BY <1>6
  <2>3. q \in Seq(Byte) /\ Len(q) <= Len(q) /\ Len(q) <= Len(q \o r)
    BY <1>1, <2>1
  <2> QED
    BY <2>1, <2>2, <2>3
<1> HIDE DEF full, r, q
<1>8. arrived1' \in Seq(1 .. Len(B))
  BY <1>1, <1>2, <1>3, OneMore
<1>9. QTypes'
  BY <1>3, <1>4, <1>7, <1>8 DEF QueueInv, QTypes
<1>10. EachOnce'
  <2> DEFINE m == Len(arrived1)
             D == 1 .. Len(B)
  <2>1. arrived1 \in Seq(D) /\ n \in D
    BY <1>1, <1>2
  <2> HIDE DEF D
  <2>2. /\ m \in Nat /\ Len(arrived1') = m + 1
        /\ \A k \in 1 .. m : arrived1'[k] = arrived1[k]
        /\ arrived1'[m + 1] = n
    BY <1>3, <2>1, AppendProperties, LenProperties
  <2>3. \A k \in 1 .. m : arrived1[k] # n
    <3>1. DOMAIN arrived1 = 1 .. m
      BY <2>1, LenProperties
    <3> QED
      BY <1>3, <3>1 DEF Range
  <2>4. \A j, k \in 1 .. m : arrived1[j] = arrived1[k] => j = k
    BY DEF QueueInv, EachOnce
  <2> HIDE DEF m
  <2>5. ASSUME NEW j \in 1 .. m + 1, NEW k \in 1 .. m + 1, arrived1'[j] = arrived1'[k]
        PROVE  j = k
    <3>1. (j \in 1 .. m \/ j = m + 1) /\ (k \in 1 .. m \/ k = m + 1)
      BY <2>2
    <3> QED
      BY <2>2, <2>3, <2>4, <2>5, <3>1
  <2>6. \A j, k \in 1 .. Len(arrived1') : arrived1'[j] = arrived1'[k] => j = k
    BY <2>2, <2>5
  <2> QED
    BY <1>3, <2>6 DEF QueueInv, EachOnce
<1>11. AllNumbered'
  <2>1. Len(Pieces2) <= Len(Pieces2')
    BY <1>1, <1>7, Sizes, PiecesGrow DEF Pieces2, q
  <2>2. Len(Pieces2) \in Nat /\ Len(Pieces2') \in Nat
    BY <1>1, <1>7, Sizes, PieceCount DEF Pieces2, q
  <2>3. ASSUME NEW b \in Block2, OfPiece(b)
        PROVE  OfPiece(b)'
    <3>1. b.blockNum \in Nat /\ b.blockNum < Len(Pieces2)
      BY <2>3 DEF OfPiece, Block2
    <3>2. b.blockNum < Len(Pieces2')
      BY <2>1, <2>2, <3>1
    <3> QED
      BY <2>3, <3>2 DEF OfPiece
  <2>4. ASSUME NEW j \in compressing
        PROVE  InSlot(j)'
    <3>1. j.n \in Nat /\ InSlot(j)
      BY <1>1 DEF Job, QueueInv, AllNumbered
    <3>2. j.n <= Len(Pieces2')
      BY <2>1, <2>2, <3>1 DEF InSlot
    <3> QED
      BY <1>4, <3>1, <3>2 DEF InSlot
  <2>5. \A k \in 1 .. Len(arrived2) : arrived2[k] \in Block2
    BY <1>1, ElementOfSeq
  <2> QED
    BY <1>1, <1>3, <2>3, <2>4, <2>5 DEF QueueInv, AllNumbered
<1>13. (Undisturbed => AllCompressed)'
  BY <1>3 DEF QueueInv, Undisturbed, AllCompressed, HasOutput
<1>12. ASSUME ~refused'
       PROVE  NothingRefused'
  <2>1. NothingRefused /\ compressQueue1' = q \o r
    BY <1>6, <1>12 DEF QueueInv
  <2>2. Arrived \in Seq(Block1) /\ Arrived' = Append(Arrived, B[n])
    BY <1>1, <1>2, <1>3, <1>4, OneMore DEF Arrived
  <2>3. B[n] \in Block1
    BY <1>2, ElementOfSeq
  <2> HIDE DEF B
  <2>4. FlattenSeq(Records1(Append(Arrived, B[n]))) = FlattenSeq(Records1(Arrived)) \o Record1(B[n])
    BY <2>2, <2>3, RecordsAppend
  <2>5. compressQueue1' = FlattenSeq(Records1(Arrived'))
    BY <2>1, <2>2, <2>4 DEF NothingRefused, q, r, B
  <2> QED
    BY <1>3, <2>1, <2>5 DEF NothingRefused
<1> QED
  BY <1>3, <1>9, <1>10, <1>11, <1>12, <1>13 DEF QueueInv

(* What no job has begun                                                   *)
LEMMA NotBegun ==
  ASSUME QueueInv, NEW n \in Nat \ {0}, ~Begun(n)
  PROVE  /\ \A j \in compressing : j.n # n
         /\ \A b \in copied : b.blockNum # n - 1
         /\ \A k \in 1 .. Len(arrived2) : arrived2[k].blockNum # n - 1
<1>1. DOMAIN arrived2 = 1 .. Len(arrived2)
  BY LenProperties DEF QueueInv, QTypes
<1>2. \A k \in 1 .. Len(arrived2) : arrived2[k] \in ToSet(arrived2)
  BY <1>1 DEF ToSet
<1> QED
  BY <1>2 DEF Begun

LEMMA CompressStep ==
  ASSUME QueueInv, ~sent, NEW n \in DOMAIN Pieces2, CompressBlock(n) PROVE QueueInv'
<1> DEFINE from == dst(n - 1)
<1>1. /\ cap \in Capacities /\ arrived1 \in Seq(1 .. Len(block1Storage))
      /\ compressQueue1 \in Seq(Byte)
      /\ compressedBuffer \in [1 .. Room -> Byte2]
      /\ compressing \subseteq Job /\ IsFiniteSet(compressing)
      /\ copied \subseteq Block2
      /\ arrived2 \in Seq(Block2) /\ transferQueue1 \in Seq(Byte)
  BY DEF QueueInv, QTypes
<1>2. PICK type \in CompressTypes, size \in CompressedSizes :
         IF size > BLOCK2_MAX_SIZE \/ from + size > Len(compressedBuffer)
           THEN exited' = TRUE /\ UNCHANGED <<compressedBuffer, compressing>>
           ELSE /\ compressedBuffer' = [k \in DOMAIN compressedBuffer |->
                     IF k \in from + 1 .. from + size THEN Output(type, n - 1, size)[k - from]
                     ELSE compressedBuffer[k]]
                /\ compressing' = compressing \cup {[n |-> n, type |-> type, size |-> size]}
                /\ UNCHANGED exited
  BY DEF CompressBlock
<1>3. /\ cap' = cap /\ threads' = threads
      /\ arrived1' = arrived1 /\ compressQueue1' = compressQueue1
      /\ copied' = copied /\ arrived2' = arrived2 /\ transferQueue1' = transferQueue1
      /\ served' = served /\ refused' = refused /\ sent' = sent
  BY DEF CompressBlock, setting, stage1
<1>4. /\ block1Storage' = block1Storage /\ Pieces2' = Pieces2 /\ Arrived' = Arrived
      /\ block3Storage' = block3Storage /\ Room' = Room
  BY <1>3 DEF block1Storage, Pieces2, Arrived, block3Storage, Room
<1>5. CASE size > BLOCK2_MAX_SIZE \/ from + size > Len(compressedBuffer)
  BY <1>2, <1>3, <1>5, SameQueues DEF setting, stage1, stage2
<1>6. CASE ~(size > BLOCK2_MAX_SIZE \/ from + size > Len(compressedBuffer))
  <2> DEFINE j == [n |-> n, type |-> type, size |-> size]
             O == Output(type, n - 1, size)
             t == compressedBuffer'
  <2>1. /\ t = [k \in DOMAIN compressedBuffer |->
                 IF k \in from + 1 .. from + size THEN O[k - from] ELSE compressedBuffer[k]]
        /\ compressing' = compressing \cup {j}
    BY <1>2, <1>6
  <2>2. n \in 1 .. Len(Pieces2) /\ Len(Pieces2) \in Nat
    <3>1. Pieces2 \in Seq(Seq(Byte))
      BY <1>1, Sizes, PieceIs DEF Pieces2
    <3> DEFINE P == Pieces2
               S == Seq(Byte)
    <3>2. P \in Seq(S) /\ n \in DOMAIN P
      BY <3>1
    <3> HIDE DEF P, S
    <3>3. n \in 1 .. Len(P) /\ Len(P) \in Nat
      BY <3>2, LenProperties
    <3> QED
      BY <3>3 DEF P
  <2>3. n \in Nat \ {0} /\ n - 1 \in Nat
    BY <2>2
  <2>4. type \in Nat /\ size \in Nat \ {0}
    BY RoundTripAssumption
  <2>5. O \in Seq(Byte2) /\ Len(O) = size
    BY <2>3, <2>4, OutputIs
  <2>6. j \in Job /\ j.n = n /\ j.type = type /\ j.size = size
    BY <2>3 DEF Job
  <2>7. from \in Nat /\ Room \in Nat
    <3> DEFINE l == n - 1
    <3>1. l \in Nat /\ cap.b2 \in Nat
      BY <1>1, <2>3, RoundTripAssumption
    <3> HIDE DEF l
    <3>2. dst(l) \in Nat /\ Room \in Nat
      BY <3>1, Sizes, Products DEF dst, Room
    <3> QED
      BY <3>2 DEF l
  <2>8. from + size <= Room
    <3>1. Len(compressedBuffer) = Room
      BY <1>1, <2>7
    <3>2. ~(from + size > Room)
      BY <1>6, <3>1
    <3> HIDE DEF from
    <3> QED
      BY <2>4, <2>7, <3>2
  <2> HIDE DEF O, j
  <2>9. /\ t \in [1 .. Room -> Byte2]
        /\ \A k \in 1 .. Room :
             t[k] = IF k \in from + 1 .. from + size THEN O[k - from] ELSE compressedBuffer[k]
    <3>1. DOMAIN compressedBuffer = 1 .. Room
      BY <1>1
    <3> HIDE DEF from, t
    <3>2. \A k \in 1 .. Room :
            (IF k \in from + 1 .. from + size THEN O[k - from] ELSE compressedBuffer[k]) \in Byte2
      <4> SUFFICES ASSUME NEW k \in 1 .. Room
                   PROVE  (IF k \in from + 1 .. from + size THEN O[k - from]
                           ELSE compressedBuffer[k]) \in Byte2
        OBVIOUS
      <4>1. CASE k \in from + 1 .. from + size
        <5>1. k - from \in 1 .. Len(O)
          BY <2>4, <2>5, <2>7, <4>1
        <5>2. O[k - from] \in Byte2
          BY <2>5, <5>1, ElementOfSeq
        <5> QED
          BY <4>1, <5>2
      <4>2. CASE k \notin from + 1 .. from + size
        BY <1>1, <4>2
      <4> QED
        BY <4>1, <4>2
    <3> QED
      BY <2>1, <3>1, <3>2
  <2>10. /\ \A k \in compressing : k.n # n
         /\ \A b \in copied : b.blockNum # n - 1
         /\ \A k \in 1 .. Len(arrived2) : arrived2[k].blockNum # n - 1
    <3>1. ~Begun(n)
      BY DEF CompressBlock
    <3> QED
      BY <2>3, <3>1, NotBegun
  <2>11. QTypes'
    <3>1. compressing' \subseteq Job /\ IsFiniteSet(compressing')
      BY <1>1, <2>1, <2>6, FS_AddElement
    <3>2. t \in [1 .. Room' -> Byte2]
      BY <1>4, <2>9
    <3> QED
      BY <1>3, <1>4, <3>1, <3>2 DEF QueueInv, QTypes, t
  <2>12. EachOnce'
    <3>1. \A k, l \in compressing' : k.n = l.n => k = l
      BY <2>1, <2>6, <2>10 DEF QueueInv, EachOnce
    <3>2. \A k \in compressing' : \A b \in copied : b.blockNum # k.n - 1
      BY <2>1, <2>6, <2>10 DEF QueueInv, EachOnce
    <3>3. \A l \in compressing' : \A k \in 1 .. Len(arrived2) : arrived2[k].blockNum # l.n - 1
      BY <2>1, <2>6, <2>10 DEF QueueInv, EachOnce
    <3> QED
      BY <1>3, <3>1, <3>2, <3>3 DEF QueueInv, EachOnce
  <2>13. AllNumbered'
    <3>1. InSlot(j)
      BY <2>2, <2>6, <2>8 DEF InSlot
    <3>2. \A k \in compressing' : InSlot(k)
      BY <2>1, <3>1 DEF QueueInv, AllNumbered
    <3> QED
      BY <1>3, <1>4, <3>2 DEF QueueInv, AllNumbered, InSlot, OfPiece
  <2>14. ASSUME Undisturbed'
         PROVE  AllCompressed'
    <3>1. AllCompressed
      <4>1. Undisturbed
        BY <1>3, <2>1, <2>14 DEF Undisturbed
      <4> QED
        BY <4>1 DEF QueueInv
    <3>2. HasOutput(j)'
      <4>1. SubSeq(t, from + 1, from + size) = O
        <5> HIDE DEF from, t
        <5> QED
          BY <2>4, <2>5, <2>7, <2>8, <2>9, OutputWritten
      <4> QED
        BY <2>6, <4>1 DEF HasOutput, O, t, from
    <3>3. ASSUME NEW k \in compressing
          PROVE  HasOutput(k)'
      <4> DEFINE a == dst(k.n - 1)
                 y == k.size
                 u == compressedBuffer
                 r == Room
      <4>1. k.n \in Nat \ {0} /\ y \in Nat \ {0} /\ k.n # n
        BY <1>1, <2>10, RoundTripAssumption DEF Job
      <4>2. a \in Nat
        <5> DEFINE l == k.n - 1
        <5>1. l \in Nat
          BY <4>1
        <5> HIDE DEF l
        <5>2. dst(l) \in Nat
          BY <5>1, Sizes, Products DEF dst
        <5> QED
          BY <5>2 DEF l
      <4>3. a + y <= Room
        BY DEF QueueInv, AllNumbered, InSlot
      <4>4. y <= block2Size /\ size <= block2Size
        <5>1. CASE threads = 1
          <6>1. Cardinality(compressing) < 1
            BY <5>1 DEF CompressBlock
          <6>2. Cardinality(compressing) \in Nat /\ Cardinality(compressing) # 0
            BY <1>1, FS_CardinalityType, FS_EmptySet
          <6> QED
            BY <6>1, <6>2
        <5>2. CASE threads # 1
          BY <1>3, <2>1, <2>6, <2>14, <5>2 DEF Undisturbed
        <5> QED
          BY <5>1, <5>2
      <4>5. \A i \in a + 1 .. a + y : i \notin from + 1 .. from + size
        <5>1. n \in Nat \ {0} /\ size \in Nat /\ y \in Nat
          BY <2>3, <2>4, <4>1
        <5> HIDE DEF y
        <5> QED
          BY <4>1, <4>4, <5>1, Apart
      <4> HIDE DEF a, y, from, t
      <4>6. \A i \in a + 1 .. a + y : i \in 1 .. Room
        BY <2>7, <4>1, <4>2, <4>3
      <4>7. \A i \in a + 1 .. a + y : t[i] = compressedBuffer[i]
        BY <2>9, <4>5, <4>6
      <4>8. /\ r \in Nat /\ a \in Nat /\ y \in Nat /\ a + y <= r
            /\ u \in [1 .. r -> Byte2] /\ t \in [1 .. r -> Byte2]
            /\ \A i \in a + 1 .. a + y : t[i] = u[i]
        BY <1>1, <2>7, <2>9, <4>1, <4>2, <4>3, <4>7
      <4> HIDE DEF u, r
      <4>9. SubSeq(t, a + 1, a + y) = SubSeq(u, a + 1, a + y)
        BY <4>8, SliceSame
      <4>10. SubSeq(u, a + 1, a + y) = Output(k.type, k.n - 1, k.size)
        BY <3>1 DEF AllCompressed, HasOutput, a, y, u
      <4> QED
        BY <4>9, <4>10 DEF HasOutput, a, y, t
    <3>4. \A k \in compressing' : HasOutput(k)'
      BY <2>1, <3>2, <3>3
    <3> QED
      BY <1>3, <3>1, <3>4 DEF AllCompressed, IsCompressed
  <2>15. (refused \/ NothingRefused)' /\ (sent => AllArrived)'
    BY <1>3, <1>4 DEF QueueInv, NothingRefused
  <2> QED
    BY <2>11, <2>12, <2>13, <2>14, <2>15 DEF QueueInv
<1> QED
  BY <1>5, <1>6

LEMMA CopyStep ==
  ASSUME QueueInv, ~sent, NEW j \in compressing, CopyBlock(j) PROVE QueueInv'
<1> DEFINE from == dst(j.n - 1)
           l == j.n - 1
           buffer == SubSeq(compressedBuffer, from + 1, from + j.size)
           b == block2(l, j.type, buffer)
<1>1. /\ cap \in Capacities
      /\ compressedBuffer \in [1 .. Room -> Byte2]
      /\ compressing \subseteq Job /\ IsFiniteSet(compressing)
      /\ copied \subseteq Block2
  BY DEF QueueInv, QTypes
<1>2. /\ compressing' = compressing \ {j} /\ copied' = copied \cup {b}
      /\ cap' = cap /\ threads' = threads
      /\ arrived1' = arrived1 /\ compressQueue1' = compressQueue1
      /\ compressedBuffer' = compressedBuffer
      /\ arrived2' = arrived2 /\ transferQueue1' = transferQueue1
      /\ served' = served /\ refused' = refused /\ sent' = sent
  BY DEF CopyBlock, setting, stage1
<1>3. /\ block1Storage' = block1Storage /\ Pieces2' = Pieces2 /\ Arrived' = Arrived
      /\ block3Storage' = block3Storage /\ Room' = Room
  BY <1>2 DEF block1Storage, Pieces2, Arrived, block3Storage, Room
<1>4. /\ j.n \in Nat \ {0} /\ l \in Nat /\ j.type \in Nat
      /\ j.size \in CompressedSizes /\ j.size \in Nat \ {0}
      /\ j.n <= Len(Pieces2) /\ from + j.size <= Room
  <2>1. j.n \in Nat \ {0} /\ j.type \in CompressTypes /\ j.size \in CompressedSizes
    BY <1>1 DEF Job
  <2>2. InSlot(j)
    BY DEF QueueInv, AllNumbered
  <2>3. l \in Nat
    BY <2>1
  <2> QED
    BY <2>1, <2>2, <2>3, RoundTripAssumption DEF InSlot
<1>5. from \in Nat /\ Room \in Nat
  <2>1. cap.b2 \in Nat /\ l \in Nat
    BY <1>1, <1>4, RoundTripAssumption
  <2> HIDE DEF l
  <2>2. dst(l) \in Nat /\ Room \in Nat
    BY <2>1, Sizes, Products DEF dst, Room
  <2> QED
    BY <2>2 DEF l
<1>6. buffer \in Seq(Byte2) /\ Len(buffer) = j.size
  <2> DEFINE y == j.size
             r == Room
             s == compressedBuffer
  <2>1. /\ r \in Nat /\ s \in [1 .. r -> Byte2] /\ from \in Nat /\ y \in Nat /\ from + y <= r
    BY <1>1, <1>4, <1>5
  <2> HIDE DEF y, r, s, from
  <2>2. /\ SubSeq(s, from + 1, from + y) \in Seq(Byte2)
        /\ Len(SubSeq(s, from + 1, from + y)) = y
    BY <2>1, Slice
  <2> QED
    BY <2>2 DEF s, y
<1> HIDE DEF buffer
<1>7. /\ b \in Block2 /\ b.blockNum = l /\ b.blockSize = j.size
      /\ b.compressType = j.type /\ b.buffer = buffer
  <2> DEFINE S == Seq(Byte2)
  <2>1. b = [blockNum |-> l, blockSize |-> j.size, compressType |-> j.type, buffer |-> buffer]
    BY <1>6 DEF block2
  <2>2. buffer \in S
    BY <1>6
  <2> HIDE DEF b, l, S
  <2>3. b \in [blockNum : Nat, blockSize : Nat, compressType : Nat, buffer : S]
    BY <1>4, <2>1, <2>2
  <2> QED
    BY <2>1, <2>3 DEF Block2, S
<1> HIDE DEF b
<1>8. QTypes'
  <2>1. compressing' \subseteq Job /\ IsFiniteSet(compressing')
    BY <1>1, <1>2, FS_RemoveElement
  <2>2. copied' \subseteq Block2
    BY <1>1, <1>2, <1>7
  <2> QED
    BY <1>2, <1>3, <2>1, <2>2 DEF QueueInv, QTypes
<1>9. EachOnce'
  <2>1. \A c, d \in copied' : c.blockNum = d.blockNum => c = d
    BY <1>2, <1>7 DEF QueueInv, EachOnce
  <2>2. \A c \in copied' : \A k \in 1 .. Len(arrived2) : arrived2[k].blockNum # c.blockNum
    BY <1>2, <1>7 DEF QueueInv, EachOnce
  <2>3. \A k \in compressing' : \A c \in copied' : c.blockNum # k.n - 1
    <3> SUFFICES ASSUME NEW k \in compressing', NEW c \in copied'
                 PROVE  c.blockNum # k.n - 1
      OBVIOUS
    <3>1. k \in compressing /\ k # j /\ k.n \in Nat /\ k.n # j.n
      BY <1>1, <1>2 DEF Job, QueueInv, EachOnce
    <3>2. CASE c = b
      BY <1>4, <1>7, <3>1, <3>2
    <3>3. CASE c \in copied
      BY <3>1, <3>3 DEF QueueInv, EachOnce
    <3> QED
      BY <1>2, <3>2, <3>3
  <2> QED
    BY <1>2, <2>1, <2>2, <2>3 DEF QueueInv, EachOnce
<1>10. AllNumbered'
  <2>1. OfPiece(b)
    <3>1. Len(Pieces2) \in Nat
      BY Sizes, PieceCount DEF QueueInv, QTypes, Pieces2
    <3>2. l < Len(Pieces2)
      BY <1>4, <3>1
    <3> QED
      BY <1>4, <1>6, <1>7, <3>2 DEF OfPiece, Filled
  <2>2. \A c \in copied' : OfPiece(c)
    BY <1>2, <2>1 DEF QueueInv, AllNumbered
  <2> QED
    BY <1>2, <1>3, <2>2 DEF QueueInv, AllNumbered, InSlot, OfPiece
<1>11. ASSUME Undisturbed'
       PROVE  AllCompressed'
  <2>1. AllCompressed
    <3>1. Undisturbed
      <4>1. CASE threads = 1
        BY <4>1 DEF Undisturbed
      <4>2. CASE threads # 1
        <5>1. /\ \A k \in compressing \ {j} : k.size <= block2Size
              /\ \A c \in copied \cup {b} : c.blockSize <= block2Size
              /\ \A k \in 1 .. Len(arrived2) : arrived2[k].blockSize <= block2Size
          BY <1>2, <1>11, <4>2 DEF Undisturbed
        <5> QED
          BY <1>7, <5>1 DEF Undisturbed
      <4> QED
        BY <4>1, <4>2
    <3> QED
      BY <3>1 DEF QueueInv
  <2>2. IsCompressed(b)
    BY <1>7, <2>1 DEF AllCompressed, HasOutput, IsCompressed, buffer
  <2>3. \A c \in copied' : IsCompressed(c)
    BY <1>2, <2>1, <2>2 DEF AllCompressed
  <2> QED
    BY <1>2, <2>1, <2>3 DEF AllCompressed, HasOutput
<1>12. (refused \/ NothingRefused)' /\ (sent => AllArrived)'
  BY <1>2, <1>3 DEF QueueInv, NothingRefused
<1> QED
  BY <1>8, <1>9, <1>10, <1>11, <1>12 DEF QueueInv

LEMMA FrameStep ==
  ASSUME QueueInv, ~sent, NEW b \in copied, FrameBlock(b) PROVE QueueInv'
<1>1. /\ copied \subseteq Block2 /\ b \in Block2
      /\ arrived2 \in Seq(Block2) /\ transferQueue1 \in Seq(Byte)
  BY DEF QueueInv, QTypes
<1>2. /\ cap' = cap /\ threads' = threads
      /\ arrived1' = arrived1 /\ compressQueue1' = compressQueue1
      /\ compressedBuffer' = compressedBuffer /\ compressing' = compressing
      /\ copied' = copied \ {b}
      /\ served' = served /\ sent' = sent
  BY DEF FrameBlock, setting, stage1
<1>3. /\ block1Storage' = block1Storage /\ Pieces2' = Pieces2 /\ Arrived' = Arrived
      /\ Room' = Room
  BY <1>2 DEF block1Storage, Pieces2, Arrived, Room
<1> DEFINE x == Frame(b)
           y == Record2(b)
           h == transferQueue_push(transferQueue1, x)
           q == transferQueue_push(h, y)
<1>4. /\ arrived2' = Append(arrived2, b) /\ transferQueue1' = q
      /\ refused' = (refused \/ Len(q) < Len(transferQueue1) + 1 + dataSize(b))
  BY DEF FrameBlock
<1>5. /\ x \in Seq(Byte) /\ Len(x) = 1
      /\ y \in Seq(Byte) /\ Len(y) = dataSize(b)
  BY <1>1, UnpackRecord2
<1> HIDE DEF x, y
<1>6. h = transferQueue1 \/ h = transferQueue1 \o x
  BY DEF transferQueue_push
<1> HIDE DEF h
<1>7. q = h \/ q = h \o y
  BY DEF transferQueue_push
<1> HIDE DEF q
<1>8. q \in Seq(Byte)
  <2>1. h \in Seq(Byte)
    BY <1>1, <1>5, <1>6, ConcatProperties
  <2> QED
    BY <1>5, <1>7, <2>1, ConcatProperties
<1>9. QTypes'
  <2>1. Append(arrived2, b) \in Seq(Block2)
    BY <1>1, AppendProperties
  <2>2. copied' \subseteq Block2
    BY <1>1, <1>2
  <2> QED
    BY <1>2, <1>3, <1>4, <1>8, <2>1, <2>2 DEF QueueInv, QTypes
<1> DEFINE m == Len(arrived2)
<1>10. /\ m \in Nat /\ Len(arrived2') = m + 1
       /\ \A k \in 1 .. m : arrived2'[k] = arrived2[k]
       /\ arrived2'[m + 1] = b
       /\ \A k \in 1 .. m + 1 : k \in 1 .. m \/ k = m + 1
  BY <1>1, <1>4, AppendProperties, LenProperties
<1>11. /\ \A k \in 1 .. m : arrived2[k].blockNum # b.blockNum
       /\ \A j, k \in 1 .. m : arrived2[j].blockNum = arrived2[k].blockNum => j = k
       /\ \A c \in copied : \A k \in 1 .. m : arrived2[k].blockNum # c.blockNum
       /\ \A j \in compressing : \A c \in copied : c.blockNum # j.n - 1
       /\ \A j \in compressing : \A k \in 1 .. m : arrived2[k].blockNum # j.n - 1
       /\ \A c, d \in copied : c.blockNum = d.blockNum => c = d
  BY DEF QueueInv, EachOnce
<1> HIDE DEF m
<1>12. EachOnce'
  <2>1. ASSUME NEW j \in 1 .. m + 1, NEW k \in 1 .. m + 1,
               arrived2'[j].blockNum = arrived2'[k].blockNum
        PROVE  j = k
    BY <1>10, <1>11, <2>1
  <2>2. \A c \in copied' : \A k \in 1 .. m + 1 : arrived2'[k].blockNum # c.blockNum
    <3> SUFFICES ASSUME NEW c \in copied', NEW k \in 1 .. m + 1
                 PROVE  arrived2'[k].blockNum # c.blockNum
      OBVIOUS
    <3>1. c \in copied /\ c # b
      BY <1>2
    <3> QED
      BY <1>10, <1>11, <3>1
  <2>3. \A j \in compressing : \A k \in 1 .. m + 1 : arrived2'[k].blockNum # j.n - 1
    BY <1>10, <1>11
  <2>4. \A j, k \in 1 .. Len(arrived2') :
          arrived2'[j].blockNum = arrived2'[k].blockNum => j = k
    BY <1>10, <2>1
  <2> QED
    BY <1>2, <1>10, <2>2, <2>3, <2>4 DEF QueueInv, EachOnce
<1>13. AllNumbered'
  <2>1. OfPiece(b)
    BY DEF QueueInv, AllNumbered
  <2>2. \A k \in 1 .. m : OfPiece(arrived2[k])
    BY DEF QueueInv, AllNumbered, m
  <2>3. \A k \in 1 .. m + 1 : OfPiece(arrived2'[k])
    BY <1>10, <2>1, <2>2
  <2> QED
    BY <1>2, <1>3, <1>10, <2>3 DEF QueueInv, AllNumbered, InSlot, OfPiece
<1>14. ASSUME Undisturbed'
       PROVE  AllCompressed'
  <2>1. AllCompressed
    <3>1. Undisturbed
      <4>1. CASE threads = 1
        BY <4>1 DEF Undisturbed
      <4>2. CASE threads # 1
        <5>1. /\ \A j \in compressing : j.size <= block2Size
              /\ \A c \in copied \ {b} : c.blockSize <= block2Size
              /\ \A k \in 1 .. m + 1 : arrived2'[k].blockSize <= block2Size
          BY <1>2, <1>10, <1>14, <4>2 DEF Undisturbed
        <5>2. m + 1 \in 1 .. m + 1 /\ \A k \in 1 .. m : k \in 1 .. m + 1
          BY <1>10
        <5>3. /\ b.blockSize <= block2Size
              /\ \A k \in 1 .. m : arrived2[k].blockSize <= block2Size
          BY <1>10, <5>1, <5>2
        <5> QED
          BY <5>1, <5>3 DEF Undisturbed, m
      <4> QED
        BY <4>1, <4>2
    <3> QED
      BY <3>1 DEF QueueInv
  <2>2. IsCompressed(b) /\ \A k \in 1 .. m : IsCompressed(arrived2[k])
    BY <2>1 DEF AllCompressed, m
  <2>3. \A k \in 1 .. m + 1 : IsCompressed(arrived2'[k])
    BY <1>10, <2>2
  <2> QED
    BY <1>2, <1>10, <2>1, <2>3 DEF AllCompressed, HasOutput, IsCompressed
<1>15. ASSUME ~refused'
       PROVE  NothingRefused'
  <2> DEFINE t == transferQueue1
  <2>1. ~refused /\ ~(Len(q) < Len(t) + 1 + dataSize(b))
    BY <1>4, <1>15, Zenon
  <2>2. t \in Seq(Byte) /\ ~(Len(q) < Len(t) + 1 + Len(y))
    BY <1>1, <1>5, <2>1
  <2>3. q = t \/ q = t \o x \/ q = t \o y \/ q = (t \o x) \o y
    BY <1>6, <1>7
  <2> HIDE DEF t
  <2>4. q = t \o (x \o y)
    BY <1>5, <2>2, <2>3, BothPushed
  <2>5. NothingRefused
    BY <2>1 DEF QueueInv
  <2>6. FlattenSeq(Frames2(Append(arrived2, b))) = FlattenSeq(Frames2(arrived2)) \o (x \o y)
    BY <1>1, FramesAppend DEF x, y
  <2>7. transferQueue1' = FlattenSeq(Frames2(arrived2'))
    BY <1>4, <2>4, <2>5, <2>6 DEF NothingRefused, t
  <2> QED
    BY <1>2, <1>3, <2>5, <2>7 DEF NothingRefused
<1> QED
  BY <1>2, <1>9, <1>12, <1>13, <1>14, <1>15 DEF QueueInv

LEMMA EveryNumber ==
  ASSUME NEW n \in Nat, NEW f \in [1 .. n -> 1 .. n],
         \A j, k \in 1 .. n : f[j] = f[k] => j = k
  PROVE  \A y \in 1 .. n : \E x \in 1 .. n : f[x] = y
<1>1. IsFiniteSet(1 .. n) /\ Cardinality(1 .. n) = Cardinality(1 .. n)
  BY FS_Interval
<1>2. f \in Injection(1 .. n, 1 .. n)
  BY DEF Injection, IsInjective
<1>3. f \in Surjection(1 .. n, 1 .. n)
  BY <1>1, <1>2, FS_Injection
<1> QED
  BY <1>3 DEF Surjection

(* When as many blocks have arrived as there are pieces, none is left on   *)
(* its way.                                                                *)
LEMMA TransferStep ==
  ASSUME QueueInv, Transfer PROVE QueueInv'
<1>1. /\ Len(arrived1) = Len(block1Storage) /\ Len(arrived2) = Len(Pieces2)
      /\ served' \subseteq DOMAIN block3Storage
  BY DEF Transfer
<1>2. /\ cap' = cap /\ threads' = threads
      /\ arrived1' = arrived1 /\ compressQueue1' = compressQueue1
      /\ compressedBuffer' = compressedBuffer /\ compressing' = compressing
      /\ copied' = copied /\ arrived2' = arrived2 /\ transferQueue1' = transferQueue1
      /\ refused' = refused
  BY DEF Transfer, setting, stage1, stage2
<1>3. /\ block1Storage' = block1Storage /\ Pieces2' = Pieces2 /\ Arrived' = Arrived
      /\ block3Storage' = block3Storage /\ Room' = Room
  BY <1>2 DEF block1Storage, Pieces2, Arrived, block3Storage, Room
<1>4. QTypes' /\ EachOnce'
  BY <1>1, <1>2, <1>3 DEF QueueInv, QTypes, EachOnce
<1>5. AllNumbered' /\ (Undisturbed => AllCompressed)'
  BY <1>2, <1>3 DEF QueueInv, AllNumbered, InSlot, OfPiece, Undisturbed, AllCompressed, HasOutput
<1>6. (refused \/ NothingRefused)'
  BY <1>1, <1>2, <1>3 DEF QueueInv, NothingRefused
<1>7. compressing = {} /\ copied = {}
  <2> DEFINE m == Len(arrived2)
             f == [k \in 1 .. m |-> arrived2[k].blockNum + 1]
  <2>1. m \in Nat /\ \A k \in 1 .. m : arrived2[k] \in Block2
    BY ElementOfSeq, LenProperties DEF QueueInv, QTypes
  <2>2. \A k \in 1 .. m : arrived2[k].blockNum \in Nat /\ arrived2[k].blockNum < m
    BY <1>1, <2>1 DEF QueueInv, AllNumbered, OfPiece, Block2
  <2>3. \A j, k \in 1 .. m : arrived2[j].blockNum = arrived2[k].blockNum => j = k
    BY DEF QueueInv, EachOnce
  <2> HIDE DEF m
  <2>4. f \in [1 .. m -> 1 .. m] /\ \A j, k \in 1 .. m : f[j] = f[k] => j = k
    BY <2>1, <2>2, <2>3
  <2>5. \A k \in 1 .. m : f[k] = arrived2[k].blockNum + 1
    OBVIOUS
  <2> HIDE DEF f
  <2>6. \A y \in 1 .. m : \E x \in 1 .. m : f[x] = y
    BY ONLY <2>1, <2>4, EveryNumber
  <2>7. ASSUME NEW l \in Nat, l < m
        PROVE  \E k \in 1 .. m : arrived2[k].blockNum = l
    <3>1. l + 1 \in 1 .. m
      BY <2>1, <2>7
    <3>2. PICK k \in 1 .. m : f[k] = l + 1
      BY <2>6, <3>1
    <3> QED
      BY <2>2, <2>5, <3>2
  <2>8. ASSUME NEW j \in compressing
        PROVE  FALSE
    <3>1. j.n \in Nat \ {0} /\ j.n <= m
      BY <1>1 DEF QueueInv, QTypes, Job, AllNumbered, InSlot, m
    <3>2. j.n - 1 \in Nat /\ j.n - 1 < m
      BY <2>1, <3>1
    <3>3. PICK k \in 1 .. m : arrived2[k].blockNum = j.n - 1
      BY <2>7, <3>2
    <3> QED
      BY <3>3 DEF QueueInv, EachOnce, m
  <2>9. ASSUME NEW b \in copied
        PROVE  FALSE
    <3>1. b.blockNum \in Nat /\ b.blockNum < m
      BY <1>1 DEF QueueInv, QTypes, Block2, AllNumbered, OfPiece, m
    <3>2. PICK k \in 1 .. m : arrived2[k].blockNum = b.blockNum
      BY <2>7, <3>1
    <3> QED
      BY <3>2 DEF QueueInv, EachOnce, m
  <2> QED
    BY <2>8, <2>9
<1>8. AllArrived'
  BY <1>1, <1>2, <1>3, <1>7 DEF AllArrived
<1> QED
  BY <1>4, <1>5, <1>6, <1>8 DEF QueueInv

(* Each block is cut, compressed, copied and framed once, as long as its   *)
(* number goes; if one job compresses at a time or no output is longer     *)
(* than block2Size, each holds what its codec made of its piece.  As long  *)
(* as nothing is refused, both byte queues hold the records and frames in  *)
(* the order in which they came; the POSTs begin when all have come.       *)
THEOREM QueueInvariant == Spec => []QueueInv
<1>1. Init => QueueInv
  BY QueueInit
<1>2. QueueInv /\ [Next]_vars => QueueInv'
  <2> SUFFICES ASSUME QueueInv, [Next]_vars PROVE QueueInv'
    OBVIOUS
  <2>1. CASE Transfer
    BY <2>1, TransferStep
  <2>2. ASSUME ~sent, NEW n \in DOMAIN block1Storage, ReadBlock(n) PROVE QueueInv'
    BY <2>2, ReadStep
  <2>3. ASSUME ~sent, NEW n \in DOMAIN Pieces2, CompressBlock(n) PROVE QueueInv'
    BY <2>3, CompressStep
  <2>4. ASSUME ~sent, NEW j \in compressing, CopyBlock(j) PROVE QueueInv'
    BY <2>4, CopyStep
  <2>5. ASSUME ~sent, NEW b \in copied, FrameBlock(b) PROVE QueueInv'
    BY <2>5, FrameStep
  <2>6. CASE UNCHANGED vars
    BY <2>6, SameQueues DEF vars, setting, stage1, stage2
  <2> QED
    BY <2>1, <2>2, <2>3, <2>4, <2>5, <2>6 DEF Next
<1> QED
  BY <1>1, <1>2, PTL DEF Spec
-----------------------------------------------------------------------------
(* What test3 makes of all that was sent                                   *)
LEMMA InPlaceIs ==
  ASSUME NEW S, NEW s \in Seq(S), NEW m \in Nat, Len(s) = m,
         \A k \in 1 .. m : s[k].blockNum \in Nat /\ s[k].blockNum < m,
         \A j, k \in 1 .. m : s[j].blockNum = s[k].blockNum => j = k
  PROVE  /\ DOMAIN InPlace(s) = 1 .. m /\ InPlace(s) = [n \in 1 .. m |-> InPlace(s)[n]]
         /\ \A n \in 1 .. m :
              \E k \in 1 .. m : s[k].blockNum = n - 1 /\ InPlace(s)[n] = s[k]
<1> DEFINE at(n) == {k \in DOMAIN s : s[k].blockNum = n - 1}
           last(n) == CHOOSE k \in at(n) : \A l \in at(n) : l <= k
           I == InPlace(s)
<1>1. DOMAIN s = 1 .. m
  BY LenProperties
<1>2. I = [n \in DOMAIN s |-> IF at(n) = {} THEN Bad ELSE s[last(n)]]
  BY DEF InPlace
<1>3. ASSUME NEW n \in 1 .. m
      PROVE  \E k \in 1 .. m : s[k].blockNum = n - 1 /\ at(n) = {k}
  <2> DEFINE f == [k \in 1 .. m |-> s[k].blockNum + 1]
  <2>1. f \in [1 .. m -> 1 .. m]
    OBVIOUS
  <2>2. \A j, k \in 1 .. m : f[j] = f[k] => j = k
    OBVIOUS
  <2>3. \A k \in 1 .. m : f[k] = s[k].blockNum + 1
    OBVIOUS
  <2> HIDE DEF f
  <2>4. PICK k \in 1 .. m : f[k] = n
    <3>0. /\ m \in Nat /\ f \in [1 .. m -> 1 .. m]
          /\ \A j, k \in 1 .. m : f[j] = f[k] => j = k
      BY <2>1, <2>2
    <3>1. \A y \in 1 .. m : \E x \in 1 .. m : f[x] = y
      BY ONLY <3>0, EveryNumber
    <3> QED
      BY <3>1
  <2>5. s[k].blockNum = n - 1
    BY <2>3, <2>4
  <2>6. at(n) = {k}
    BY <1>1, <2>5
  <2> QED
    BY <2>5, <2>6
<1>4. ASSUME NEW n \in 1 .. m
      PROVE  \E k \in 1 .. m : s[k].blockNum = n - 1 /\ I[n] = s[k]
  <2>1. PICK k \in 1 .. m : s[k].blockNum = n - 1 /\ at(n) = {k}
    BY <1>3
  <2>2. last(n) = k
    <3> DEFINE A == at(n)
    <3>1. A = {k} /\ k <= k
      BY <2>1
    <3> HIDE DEF A
    <3>2. (CHOOSE i \in A : \A l \in A : l <= i) = k
      BY <3>1
    <3> QED
      BY <3>2 DEF A
  <2> HIDE DEF last
  <2>3. I[n] = IF at(n) = {} THEN Bad ELSE s[last(n)]
    BY <1>1, <1>2
  <2>4. at(n) # {}
    BY <2>1
  <2> QED
    BY <2>1, <2>2, <2>3, <2>4
<1>5. DOMAIN I = 1 .. m /\ I = [n \in 1 .. m |-> I[n]]
  BY <1>1, <1>2
<1> QED
  BY <1>4, <1>5

LEMMA AllFetched ==
  ASSUME transferQueue1 \in Seq(Byte), served = DOMAIN block3Storage
  PROVE  Fetched = transferQueue1
<1> DEFINE P == Pieces(transferQueue1, block3Size)
           m == Len(P)
<1>1. P \in Seq(Seq(Byte)) /\ FlattenSeq(P) = transferQueue1
  BY Sizes, PieceIs, FlattenPieces
<1>2. P = block3Storage
  BY DEF block3Storage
<1> HIDE DEF P
<1>3. P = [n \in DOMAIN P |-> P[n]]
  <2> DEFINE S == Seq(Byte)
  <2>1. P \in Seq(S)
    BY <1>1
  <2> HIDE DEF S
  <2> QED
    BY <2>1
<1>4. [n \in DOMAIN P |-> IF n \in DOMAIN P THEN P[n] ELSE <<>>] = P
  BY <1>3
<1> QED
  BY <1>1, <1>2, <1>4 DEF Fetched

(* The records of stage 1 come out in the order of addFile.                *)
LEMMA ArrivedBack ==
  ASSUME QueueInv, sent, ~refused
  PROVE  InPlace(Blocks1(compressQueue1)) = block1Storage
<1> DEFINE B == block1Storage
           A == Arrived
           m == Len(B)
<1>1. /\ arrived1 \in Seq(1 .. m) /\ Len(arrived1) = m
      /\ \A j, k \in 1 .. m : arrived1[j] = arrived1[k] => j = k
      /\ compressQueue1 = FlattenSeq(Records1(A))
  BY DEF QueueInv, QTypes, EachOnce, AllArrived, NothingRefused
<1>2. /\ B \in Seq(Block1) /\ m \in Nat
      /\ \A n \in 1 .. m : /\ B[n].blockNum = n - 1
                           /\ Filled(B[n]) /\ B[n].blockSize <= block1Size
  BY StorageIs DEF QueueInv, QTypes
<1>3. A = [k \in 1 .. m |-> B[arrived1[k]]]
  BY <1>1 DEF Arrived
<1>4. /\ [k \in 1 .. Len(arrived1) |-> B[arrived1[k]]] \in Seq(Block1)
      /\ Len([k \in 1 .. Len(arrived1) |-> B[arrived1[k]]]) = Len(arrived1)
      /\ \A k \in 1 .. Len(arrived1) : arrived1[k] \in 1 .. m
  BY <1>1, <1>2, Picked
<1>5. A \in Seq(Block1) /\ Len(A) = m /\ \A k \in 1 .. m : arrived1[k] \in 1 .. m
  BY <1>1, <1>3, <1>4
<1>6. \A k \in 1 .. m : A[k] = B[arrived1[k]]
  BY <1>3
<1> HIDE DEF A, B, m
<1>7. \A k \in 1 .. m : /\ A[k].blockNum = arrived1[k] - 1
                        /\ Filled(A[k]) /\ A[k].blockSize <= block1Size
  BY <1>2, <1>5, <1>6
<1>8. Blocks1(compressQueue1) = A
  BY <1>1, <1>5, <1>7, Blocks1Back
<1>9. \A k \in 1 .. m : A[k].blockNum \in Nat /\ A[k].blockNum < m
  BY <1>2, <1>5, <1>7
<1>10. \A j, k \in 1 .. m : A[j].blockNum = A[k].blockNum => j = k
  BY <1>1, <1>2, <1>5, <1>7
<1>11. /\ InPlace(A) = [n \in 1 .. m |-> InPlace(A)[n]]
       /\ \A n \in 1 .. m :
            \E k \in 1 .. m : A[k].blockNum = n - 1 /\ InPlace(A)[n] = A[k]
  BY <1>2, <1>5, <1>9, <1>10, InPlaceIs
<1>12. ASSUME NEW n \in 1 .. m
       PROVE  InPlace(A)[n] = B[n]
  <2>1. PICK k \in 1 .. m : A[k].blockNum = n - 1 /\ InPlace(A)[n] = A[k]
    BY <1>11
  <2>2. arrived1[k] \in 1 .. m /\ arrived1[k] - 1 = n - 1
    BY <1>5, <1>7, <2>1
  <2>3. arrived1[k] = n
    BY <1>2, <2>2
  <2> QED
    BY <1>6, <2>1, <2>3
<1>13. B = [n \in 1 .. m |-> B[n]]
  BY <1>2 DEF m
<1>14. InPlace(A) = B
  BY <1>11, <1>12, <1>13
<1> QED
  BY <1>8, <1>14 DEF B

(* The blocks of stage 2 come out in the order of the pieces, and each     *)
(* codec gives its piece back, if no other job wrote over its output.      *)
LEMMA PlainBack ==
  ASSUME QueueInv, sent, ~refused, Undisturbed
  PROVE  LET blocks == InPlace(arrived2)
             type(b) == IF b = Bad THEN 0 ELSE b.compressType
         IN /\ Blocks2(transferQueue1) = arrived2
            /\ DOMAIN blocks = 1 .. Len(arrived2)
            /\ [n \in DOMAIN blocks |-> Decompress(Pieces2, type(blocks[n]), blocks[n])] = Pieces2
<1> DEFINE s == arrived2
           m == Len(s)
           P == Pieces2
           I == InPlace(s)
           type(b) == IF b = Bad THEN 0 ELSE b.compressType
<1>1. /\ s \in Seq(Block2) /\ Len(P) = m /\ compressQueue1 \in Seq(Byte)
      /\ \A j, k \in 1 .. m : s[j].blockNum = s[k].blockNum => j = k
      /\ \A k \in 1 .. m : IsCompressed(s[k]) /\ OfPiece(s[k])
      /\ transferQueue1 = FlattenSeq(Frames2(s))
  BY DEF QueueInv, QTypes, EachOnce, AllArrived, NothingRefused, AllNumbered, AllCompressed
<1>2. P \in Seq(Seq(Byte)) /\ m \in Nat
  BY <1>1, Sizes, PieceIs, LenProperties DEF Pieces2
<1> HIDE DEF m
<1>3. ASSUME NEW k \in 1 .. m
      PROVE  /\ s[k].blockNum \in Nat /\ s[k].blockNum < m /\ s[k] # Bad
             /\ Filled(s[k])
             /\ Decompress(P, s[k].compressType, s[k]) = P[s[k].blockNum + 1]
  <2> DEFINE b == s[k]
             type0 == b.compressType
             l == b.blockNum
             size == b.blockSize
  <2>1. b \in Block2
    BY <1>1, ElementOfSeq DEF m
  <2>2. l < Len(P) /\ size \in CompressedSizes /\ b.buffer = Output(type0, l, size)
    BY <1>1 DEF IsCompressed, OfPiece
  <2>3. type0 \in Nat /\ l \in Nat /\ size \in Nat \ {0}
    BY <2>1, <2>2, RoundTripAssumption DEF Block2
  <2>4. b # Bad
    <3>1. "compressType" \in DOMAIN b /\ "compressType" \notin DOMAIN Bad
      BY <2>1 DEF Block2, Bad
    <3> QED
      BY <3>1
  <2> HIDE DEF b, type0, l, size
  <2>5. P[l + 1] \in Seq(Byte)
    <3>1. l + 1 \in 1 .. Len(P)
      BY <1>1, <1>2, <2>2, <2>3
    <3> DEFINE S == Seq(Byte)
    <3>2. P \in Seq(S)
      BY <1>2
    <3> HIDE DEF S, P
    <3>3. P[l + 1] \in S
      BY <3>1, <3>2, ElementOfSeq
    <3> QED
      BY <3>3 DEF S
  <2>6. Decompress(P, type0, b) = P[l + 1]
    BY <2>2, <2>3, <2>5, DecompressOutput
  <2>7. Len(Output(type0, l, size)) = size
    BY <2>3, OutputIs
  <2> QED
    BY <1>1, <2>2, <2>3, <2>4, <2>6, <2>7 DEF Filled, b, type0, l, size
<1>4. Blocks2(transferQueue1) = s
  BY <1>1, <1>3, Blocks2Back DEF m
<1>5. /\ DOMAIN I = 1 .. m
      /\ \A n \in 1 .. m : \E k \in 1 .. m : s[k].blockNum = n - 1 /\ I[n] = s[k]
  <2>1. Len(s) = m /\ \A k \in 1 .. m : s[k].blockNum \in Nat /\ s[k].blockNum < m
    BY <1>3 DEF m
  <2> QED
    BY <1>1, <1>2, <2>1, InPlaceIs
<1> HIDE DEF I, P
<1>6. ASSUME NEW n \in 1 .. m
      PROVE  Decompress(P, type(I[n]), I[n]) = P[n]
  <2>1. PICK k \in 1 .. m : s[k].blockNum = n - 1 /\ I[n] = s[k]
    BY <1>5
  <2>2. type(I[n]) = s[k].compressType
    BY <1>3, <2>1
  <2>3. s[k].blockNum + 1 = n
    BY <1>2, <2>1
  <2> QED
    BY <1>3, <2>1, <2>2, <2>3
<1>7. P = [n \in 1 .. m |-> P[n]]
  <2> DEFINE S == Seq(Byte)
  <2>1. P \in Seq(S)
    BY <1>2
  <2> HIDE DEF S
  <2> QED
    BY <1>1, <2>1
<1>8. [n \in DOMAIN I |-> Decompress(P, type(I[n]), I[n])] = P
  BY <1>5, <1>6, <1>7
<1> QED
  BY <1>4, <1>5, <1>8 DEF I, P, m

(* Every file comes back, if no two have a name.                           *)
LEMMA CutsBack ==
  ASSUME QueueInv, ~refused, DifferentNames
  PROVE  Restored(block1Storage) = Original
<1> DEFINE B == block1Storage
           m == Len(B)
<1>1. /\ B \in Seq(Block1) /\ m \in Nat /\ DOMAIN B = 1 .. m
      /\ m = Least(Len(Cuts), cap.b1)
      /\ \A n \in 1 .. m : /\ n \in 1 .. Len(Cuts)
                           /\ B[n].file = Cuts[n][1].file /\ B[n].file \in 1 .. Len(Files)
                           /\ B[n].buffer = Cuts[n]
  BY StorageIs, LenProperties DEF QueueInv, QTypes
<1>2. m = Len(Cuts)
  <2>1. Len(Cuts) <= cap.b1
    BY DEF QueueInv, NothingRefused
  <2> QED
    BY <1>1, <2>1 DEF Least
<1> HIDE DEF B, m
<1>3. B # Exit
  <2>1. B \in Seq(Byte)
    BY <1>1, SeqMonotonic DEF Byte
  <2> QED
    BY <2>1, NoExit
<1>4. DOMAIN Files = 1 .. Len(Files)
  BY FramesAssumption, LenProperties
<1>5. ASSUME NEW f \in DOMAIN Files, NEW name, name = Files[f].name
      PROVE  Written(B, name) = DataBytes(f, 0, Files[f].size)
  <2>1. ASSUME NEW n \in 1 .. m
        PROVE  (IF B[n] # Bad /\ Files[B[n].file].name = name THEN B[n].buffer ELSE <<>>)
               = IF Cuts[n][1].file = f THEN Cuts[n] ELSE <<>>
    <3> DEFINE b == B[n]
    <3>1. b \in Block1
      BY <1>1, ElementOfSeq DEF m
    <3>2. b.file \in DOMAIN Files /\ b.buffer = Cuts[n] /\ b.file = Cuts[n][1].file
      BY <1>1, <1>4
    <3> HIDE DEF b
    <3>3. b # Bad
      <4>1. "file" \in DOMAIN b /\ "file" \notin DOMAIN Bad
        BY <3>1 DEF Block1, Bad
      <4> QED
        BY <4>1
    <3>4. Files[b.file].name = name <=> b.file = f
      BY <1>5, <3>2 DEF DifferentNames
    <3> QED
      BY <3>2, <3>3, <3>4 DEF b
  <2>2. Written(B, name) = FlattenSeq(Only(f, Cuts))
    BY <1>1, <1>2, <2>1 DEF Written, Only
  <2>3. FlattenSeq(Only(f, Cuts)) = DataBytes(f, 0, Files[f].size)
    BY <1>4, CutsAre
  <2> QED
    BY <2>2, <2>3
<1>6. ASSUME NEW name \in Names
      PROVE  Written(B, name) =
               LET f == CHOOSE f \in DOMAIN Files : Files[f].name = name
               IN DataBytes(f, 0, Files[f].size)
  <2> DEFINE f == CHOOSE f \in DOMAIN Files : Files[f].name = name
  <2>1. f \in DOMAIN Files /\ Files[f].name = name
    BY DEF Names
  <2> HIDE DEF f
  <2>2. Written(B, name) = DataBytes(f, 0, Files[f].size)
    BY <1>5, <2>1
  <2> QED
    BY <2>2 DEF f
<1>7. Restored(B) = Original
  BY <1>3, <1>6 DEF Restored, Original
<1> QED
  BY <1>7 DEF B

(* Whatever order the jobs of both stages finish in, and whichever codec   *)
(* each block got, test3 restores the files from what the server has, if   *)
(* nothing was refused and everything sent, and one job compresses at a    *)
(* time or no output is longer than block2Size: for any files of different *)
(* names, any sizes, codecs, capacities and numbers of jobs at once.       *)
THEOREM RestoredInAnyOrderCorrect ==
  ASSUME DifferentNames PROVE Spec => []RestoredInAnyOrder
<1>1. QueueInv => RestoredInAnyOrder
  <2> SUFFICES ASSUME QueueInv, sent, ~refused, served = DOMAIN block3Storage,
                      threads = 1 \/ OutputsFit
               PROVE  Restored(test3) = Original
    BY DEF RestoredInAnyOrder
  <2>0. Undisturbed
    <3>1. CASE threads = 1
      BY <3>1 DEF Undisturbed
    <3>2. CASE OutputsFit
      <4>1. DOMAIN arrived2 = 1 .. Len(arrived2)
        BY LenProperties DEF QueueInv, QTypes
      <4> QED
        BY <3>2, <4>1 DEF QueueInv, AllArrived, Undisturbed, OutputsFit
    <3> QED
      BY <3>1, <3>2
  <2> DEFINE blocks == InPlace(arrived2)
             type(b) == IF b = Bad THEN 0 ELSE b.compressType
             plain == [n \in DOMAIN blocks |-> Decompress(Pieces2, type(blocks[n]), blocks[n])]
  <2>1. /\ transferQueue1 \in Seq(Byte) /\ compressQueue1 \in Seq(Byte)
        /\ arrived2 \in Seq(Block2)
    BY DEF QueueInv, QTypes
  <2>2. /\ Blocks2(transferQueue1) = arrived2
        /\ DOMAIN blocks = 1 .. Len(arrived2)
        /\ plain = Pieces2
    BY <2>0, PlainBack
  <2>3. Fetched = transferQueue1
    BY <2>1, AllFetched
  <2>4. CountFits(blocks)
    <3>1. blocks = [n \in DOMAIN arrived2 |-> blocks[n]] /\ Len(arrived2) \in Nat
          /\ DOMAIN arrived2 = 1 .. Len(arrived2)
      BY <2>1, LenProperties DEF InPlace
    <3> HIDE DEF blocks
    <3>2. Len(blocks) = Len(arrived2)
      BY <3>1
    <3> QED
      BY <3>2 DEF CountFits
  <2>5. Exit \notin Range(plain)
    <3> DEFINE P == Pieces2
    <3>1. \A n \in 1 .. Len(P) : P[n] \in Seq(Byte)
      BY <2>1, Sizes, PieceBytes DEF Pieces2
    <3>2. \A n \in 1 .. Len(P) : P[n] # Exit
      BY <3>1, NoExit
    <3>3. DOMAIN P = 1 .. Len(P)
      <4> DEFINE S == Seq(Byte)
      <4>1. P \in Seq(S)
        BY <2>1, Sizes, PieceIs DEF Pieces2
      <4> HIDE DEF S, P
      <4> QED
        BY <4>1, LenProperties
    <3> QED
      BY <2>2, <3>2, <3>3 DEF Range
  <2>6. FlattenSeq(Pieces2) = compressQueue1
    BY <2>1, Sizes, FlattenPieces DEF Pieces2
  <2>7. test3 = InPlace(Blocks1(FlattenSeq(plain)))
    BY <2>2, <2>3, <2>4, <2>5 DEF test3
  <2> HIDE DEF plain
  <2>8. test3 = block1Storage
    BY <2>2, <2>6, <2>7, ArrivedBack
  <2> QED
    BY <2>8, CutsBack
<1> QED
  BY <1>1, QueueInvariant, PTL
-----------------------------------------------------------------------------
(* What is left of a stream when pieces of it are lost: e says where in t  *)
(* the bytes of s were.                                                    *)
Embeds(e, s, t) ==
  /\ e \in [1 .. Len(s) -> 1 .. Len(t)]
  /\ \A p \in 1 .. Len(s) : s[p] = t[e[p]]
  /\ \A i, j \in 1 .. Len(s) : i <= j => e[j] - e[i] >= j - i

LEMMA PieceLost ==
  ASSUME NEW S, NEW s \in Seq(S), NEW t \in Seq(S), NEW x \in Seq(S),
         NEW e, Embeds(e, s, t)
  PROVE  Embeds(e, s, t \o x)
<1> DEFINE u == t \o x
<1>1. Len(s) \in Nat /\ Len(t) \in Nat /\ Len(x) \in Nat
  BY LenProperties
<1>2. Len(u) = Len(t) + Len(x) /\ \A i \in 1 .. Len(t) : u[i] = t[i]
  BY <1>1, ConcatProperties
<1> HIDE DEF u
<1>3. e \in [1 .. Len(s) -> 1 .. Len(u)]
  <2>1. 1 .. Len(t) \subseteq 1 .. Len(u)
    BY <1>1, <1>2
  <2> QED
    BY <2>1 DEF Embeds
<1>4. \A p \in 1 .. Len(s) : s[p] = u[e[p]]
  BY <1>2 DEF Embeds
<1> QED
  BY <1>3, <1>4 DEF Embeds, u

LEMMA PieceKept ==
  ASSUME NEW S, NEW s \in Seq(S), NEW t \in Seq(S), NEW x \in Seq(S),
         NEW e, Embeds(e, s, t)
  PROVE  \E f : Embeds(f, s \o x, t \o x)
<1> DEFINE u == t \o x
           r == s \o x
           a == Len(s)
           b == Len(t)
           c == Len(x)
           f == [p \in 1 .. a + c |-> IF p <= a THEN e[p] ELSE p - a + b]
<1>1. a \in Nat /\ b \in Nat /\ c \in Nat
  BY LenProperties
<1>2. /\ Len(u) = b + c
      /\ \A i \in 1 .. b + c : u[i] = IF i <= b THEN t[i] ELSE x[i - b]
  BY ConcatProperties
<1>3. /\ Len(r) = a + c
      /\ \A i \in 1 .. a + c : r[i] = IF i <= a THEN s[i] ELSE x[i - a]
  BY ConcatProperties
<1>4. /\ \A p \in 1 .. a : e[p] \in 1 .. b /\ s[p] = t[e[p]]
      /\ \A i, j \in 1 .. a : i <= j => e[j] - e[i] >= j - i
  BY DEF Embeds
<1>5. \A p \in 1 .. a + c : f[p] = IF p <= a THEN e[p] ELSE p - a + b
  OBVIOUS
<1>6. f = [p \in 1 .. a + c |-> f[p]]
  OBVIOUS
<1> HIDE DEF u, r, a, b, c, f
<1>7. ASSUME NEW p \in 1 .. a + c
      PROVE  f[p] \in 1 .. b + c /\ r[p] = u[f[p]]
  <2>1. CASE p <= a
    <3>1. p \in 1 .. a /\ f[p] = e[p]
      BY <1>1, <1>5, <2>1
    <3>2. e[p] \in 1 .. b /\ e[p] \in 1 .. b + c /\ e[p] <= b /\ s[p] = t[e[p]]
      BY <1>1, <1>4, <3>1
    <3> QED
      BY <1>2, <1>3, <2>1, <3>1, <3>2
  <2>2. CASE ~(p <= a)
    <3>1. f[p] = p - a + b
      BY <1>5, <2>2
    <3> DEFINE i == p - a + b
    <3>2. i \in 1 .. b + c /\ ~(i <= b) /\ i - b = p - a
      BY <1>1, <2>2
    <3> HIDE DEF i
    <3>3. u[i] = x[p - a]
      BY <1>2, <3>2
    <3>4. r[p] = x[p - a]
      BY <1>3, <2>2
    <3>5. f[p] = i
      BY <3>1 DEF i
    <3> QED
      BY <3>2, <3>3, <3>4, <3>5
  <2> QED
    BY <2>1, <2>2
<1>8. ASSUME NEW i \in 1 .. a + c, NEW j \in 1 .. a + c, i <= j
      PROVE  f[j] - f[i] >= j - i
  <2>1. CASE j <= a
    <3>1. i \in 1 .. a /\ j \in 1 .. a /\ i <= a
      BY <1>1, <1>8, <2>1
    <3> QED
      BY <1>4, <1>5, <1>8, <2>1, <3>1
  <2>2. CASE i > a
    <3>1. f[i] = i - a + b /\ f[j] = j - a + b
      BY <1>1, <1>5, <1>8, <2>2
    <3> QED
      BY <1>1, <3>1
  <2>3. CASE i <= a /\ ~(j <= a)
    <3>1. f[i] = e[i] /\ f[j] = j - a + b
      BY <1>5, <2>3
    <3>2. i \in 1 .. a /\ a \in 1 .. a /\ i <= a
      BY <1>1, <2>3
    <3>3. e[a] - e[i] >= a - i /\ e[a] \in 1 .. b /\ e[i] \in 1 .. b
      BY <1>4, <3>2
    <3> QED
      BY <1>1, <3>1, <3>3
  <2> QED
    BY <1>1, <2>1, <2>2, <2>3
<1>9. f \in [1 .. a + c -> 1 .. b + c]
  BY <1>6, <1>7
<1>10. Embeds(f, r, u)
  BY <1>2, <1>3, <1>7, <1>8, <1>9 DEF Embeds
<1> QED
  BY <1>10 DEF r, u

(* The pieces in K, and nothing in place of the others                     *)
Kept(P, K) == [n \in DOMAIN P |-> IF n \in K THEN P[n] ELSE <<>>]

LEMMA KeptEmbeds ==
  ASSUME NEW S, NEW P \in Seq(Seq(S)), NEW K, \A n \in 1 .. Len(P) : P[n] # <<>>
  PROVE  /\ FlattenSeq(Kept(P, K)) \in Seq(S)
         /\ \E e : Embeds(e, FlattenSeq(Kept(P, K)), FlattenSeq(P))
         /\ (\E n \in 1 .. Len(P) : n \notin K)
              => Len(FlattenSeq(Kept(P, K))) < Len(FlattenSeq(P))
<1> DEFINE Q == Kept(P, K)
           m == Len(P)
           s(k) == Joined(Q, k)
           t(k) == Joined(P, k)
           A(k) == \E e : Embeds(e, s(k), t(k))
           B(k) == /\ Len(s(k)) <= Len(t(k))
                   /\ (\E n \in 1 .. k : n \notin K) => Len(s(k)) < Len(t(k))
           T == {k \in 0 .. m : A(k) /\ B(k)}
<1>1. m \in Nat /\ DOMAIN P = 1 .. m /\ \A n \in 1 .. m : P[n] \in Seq(S)
  <2> DEFINE Z == Seq(S)
  <2>1. P \in Seq(Z)
    OBVIOUS
  <2> HIDE DEF Z
  <2>2. m \in Nat /\ DOMAIN P = 1 .. m /\ \A n \in 1 .. m : P[n] \in Z
    BY <2>1
  <2> QED
    BY <2>2 DEF Z
<1>2. \A n \in 1 .. m : Q[n] = IF n \in K THEN P[n] ELSE <<>>
  BY <1>1 DEF Kept
<1>3. Q \in Seq(Seq(S)) /\ Len(Q) = m
  <2>1. \A n \in 1 .. m : Q[n] \in Seq(S)
    <3>1. <<>> \in Seq(S)
      OBVIOUS
    <3> HIDE DEF Q, m
    <3> QED
      BY <1>1, <1>2, <3>1
  <2>2. Q = [n \in 1 .. m |-> Q[n]]
    BY <1>1 DEF Kept
  <2> DEFINE Z == Seq(S)
  <2>3. \A n \in 1 .. m : Q[n] \in Z
    BY <2>1
  <2> HIDE DEF Q, m, Z
  <2>4. m \in Nat /\ Q = [n \in 1 .. m |-> Q[n]] /\ \A n \in 1 .. m : Q[n] \in Z
    BY <1>1, <2>2, <2>3
  <2>5. Q \in Seq(Z) /\ Len(Q) = m
    BY ONLY <2>4
  <2> QED
    BY <2>5 DEF Z
<1> HIDE DEF Q
<1>4. /\ s(0) = <<>> /\ t(0) = <<>>
      /\ \A k \in 0 .. m - 1 : s(k + 1) = s(k) \o Q[k + 1] /\ t(k + 1) = t(k) \o P[k + 1]
      /\ s(m) = FlattenSeq(Q) /\ t(m) = FlattenSeq(P)
  BY <1>3, JoinedSteps
<1>5. \A k \in 0 .. m : s(k) \in Seq(S) /\ t(k) \in Seq(S)
  BY <1>3, JoinedType
<1>6. \A n \in 1 .. m : P[n] # <<>>
  OBVIOUS
<1> HIDE DEF m, s, t
<1>7. 0 \in T
  <2> DEFINE e == [i \in 1 .. 0 |-> 0]
  <2>1. Len(<<>>) = 0 /\ 1 .. 0 = {}
    OBVIOUS
  <2>2. e \in [1 .. 0 -> 1 .. 0]
    BY <2>1
  <2> HIDE DEF e
  <2>3. Embeds(e, <<>>, <<>>)
    BY <2>1, <2>2 DEF Embeds
  <2>4. A(0)
    BY <1>4, <2>3
  <2>5. B(0)
    BY <1>4, <2>1
  <2> QED
    BY <1>1, <2>4, <2>5
<1>8. ASSUME NEW k \in 0 .. m - 1, k \in T
      PROVE  k + 1 \in T
  <2> DEFINE x == P[k + 1]
             y == Q[k + 1]
             u == s(k)
             v == t(k)
  <2>1. k + 1 \in 1 .. m /\ k + 1 \in 0 .. m /\ k \in 0 .. m /\ k \in Nat
    BY <1>1
  <2>2. /\ u \in Seq(S) /\ v \in Seq(S) /\ x \in Seq(S)
        /\ s(k + 1) = u \o y /\ t(k + 1) = v \o x
        /\ y = IF k + 1 \in K THEN x ELSE <<>>
    BY <1>1, <1>2, <1>4, <1>5, <2>1
  <2>3. x # <<>>
    BY <1>6, <2>1
  <2>4. A(k) /\ B(k)
    BY <1>8
  <2>5. PICK e : Embeds(e, u, v)
    BY <2>4
  <2>6. Len(u) <= Len(v) /\ ((\E n \in 1 .. k : n \notin K) => Len(u) < Len(v))
    BY <2>4
  <2> HIDE DEF x, y, u, v
  <2>7. Len(x) \in Nat /\ Len(x) # 0 /\ Len(u) \in Nat /\ Len(v) \in Nat
        /\ Len(v \o x) = Len(v) + Len(x)
    BY <2>2, <2>3, LenProperties, EmptySeq, ConcatProperties
  <2>8. CASE k + 1 \in K
    <3>1. y = x /\ Len(u \o x) = Len(u) + Len(x)
      BY <2>2, <2>8, ConcatProperties
    <3>2. A(k + 1)
      BY <2>2, <2>5, <3>1, PieceKept
    <3>3. (\E n \in 1 .. k + 1 : n \notin K) => \E n \in 1 .. k : n \notin K
      BY <2>1, <2>8
    <3>4. B(k + 1)
      BY <2>2, <2>6, <2>7, <3>1, <3>3
    <3> QED
      BY <2>1, <3>2, <3>4
  <2>9. CASE k + 1 \notin K
    <3>1. u \o y = u
      BY <2>2, <2>9, ConcatEmptySeq
    <3>2. A(k + 1)
      BY <2>2, <2>5, <3>1, PieceLost
    <3>3. B(k + 1)
      BY <2>2, <2>6, <2>7, <3>1
    <3> QED
      BY <2>1, <3>2, <3>3
  <2> QED
    BY <2>8, <2>9
<1> HIDE DEF T
<1>9. \A k \in 0 .. m : k \in T
  BY <1>1, <1>7, <1>8, Climb
<1>10. m \in T /\ m \in 0 .. m
  BY <1>1, <1>9
<1>11. A(m) /\ B(m)
  BY <1>10 DEF T
<1> QED
  BY <1>4, <1>5, <1>10, <1>11 DEF Q, m

-----------------------------------------------------------------------------
(* Where the parts of a joined sequence begin                              *)
LEMMA JoinedWhere ==
  ASSUME NEW S, NEW q \in Seq(Seq(S)), NEW i \in 1 .. Len(FlattenSeq(q))
  PROVE  \E k \in 1 .. Len(q) : \E j \in 1 .. Len(q[k]) :
           i = Len(Joined(q, k - 1)) + j /\ FlattenSeq(q)[i] = q[k][j]
<1> DEFINE m == Len(q)
           l(k) == Len(Joined(q, k))
           Found(k) == \E n \in 1 .. k : \E j \in 1 .. Len(q[n]) : i = l(n - 1) + j
           T == {k \in 0 .. m : i <= l(k) => Found(k)}
<1>1. /\ m \in Nat /\ l(0) = 0 /\ l(m) = Len(FlattenSeq(q))
      /\ i \in Nat /\ 1 <= i /\ i <= l(m)
  <2>1. m \in Nat /\ Joined(q, 0) = <<>> /\ Joined(q, m) = FlattenSeq(q)
    BY LenProperties, JoinedSteps
  <2>2. i \in Nat /\ 1 <= i /\ i <= Len(FlattenSeq(q))
    BY FlattenType, LenProperties
  <2> QED
    BY <2>1, <2>2
<1>2. \A k \in 0 .. m : l(k) \in Nat
  BY JoinedType
<1>3. \A k \in 1 .. m : l(k) = l(k - 1) + Len(q[k])
  BY JoinedPart
<1>4. \A k \in 1 .. m : Len(q[k]) \in Nat
  <2> DEFINE Z == Seq(S)
  <2>1. q \in Seq(Z) /\ \A x \in Z : Len(x) \in Nat
    OBVIOUS
  <2> HIDE DEF Z
  <2> QED
    BY <2>1
<1> HIDE DEF m, l
<1>5. 0 \in T
  BY <1>1
<1>6. ASSUME NEW k \in 0 .. m - 1, k \in T
      PROVE  k + 1 \in T
  <2>1. k + 1 \in 1 .. m /\ k + 1 \in 0 .. m /\ k \in 0 .. m /\ k + 1 - 1 = k
    BY <1>1
  <2> SUFFICES ASSUME i <= l(k + 1)
               PROVE  Found(k + 1)
    BY <2>1
  <2>2. CASE i <= l(k)
    <3>1. Found(k) /\ 1 .. k \subseteq 1 .. k + 1
      BY <1>6, <2>1, <2>2
    <3> QED
      BY <3>1
  <2>3. CASE ~(i <= l(k))
    <3> DEFINE j == i - l(k)
    <3>1. l(k + 1) = l(k) + Len(q[k + 1]) /\ l(k) \in Nat /\ Len(q[k + 1]) \in Nat
      BY <1>2, <1>3, <1>4, <2>1
    <3>2. j \in 1 .. Len(q[k + 1]) /\ i = l(k) + j
      BY <1>1, <2>3, <3>1
    <3>3. k + 1 \in 1 .. k + 1 /\ i = l(k + 1 - 1) + j
      BY <2>1, <3>2
    <3> HIDE DEF j
    <3> QED
      BY <3>2, <3>3
  <2> QED
    BY <2>2, <2>3
<1>7. m \in T
  <2> HIDE DEF T
  <2>1. \A k \in 0 .. m : k \in T
    BY <1>1, <1>5, <1>6, Climb
  <2> QED
    BY <1>1, <2>1
<1>8. PICK n \in 1 .. m : \E j \in 1 .. Len(q[n]) : i = l(n - 1) + j
  BY <1>1, <1>7
<1>9. PICK j \in 1 .. Len(q[n]) : i = l(n - 1) + j
  BY <1>8
<1>10. FlattenSeq(q)[Len(Joined(q, n - 1)) + j] = q[n][j]
  <2>1. n \in 1 .. Len(q)
    BY DEF m
  <2> QED
    BY <2>1, JoinedPart
<1> QED
  BY <1>9, <1>10 DEF l, m

LEMMA JoinedGrows ==
  ASSUME NEW S, NEW q \in Seq(Seq(S)), NEW j \in 0 .. Len(q), NEW k \in j .. Len(q)
  PROVE  Len(Joined(q, j)) <= Len(Joined(q, k))
<1> DEFINE m == Len(q)
           l(i) == Len(Joined(q, i))
           T == {i \in 0 .. m : j <= i => l(j) <= l(i)}
<1>1. m \in Nat /\ j \in 0 .. m /\ k \in j .. m
  BY LenProperties
<1>2. \A i \in 0 .. m : l(i) \in Nat
  BY JoinedType
<1>3. \A i \in 1 .. m : l(i) = l(i - 1) + Len(q[i])
  BY JoinedPart
<1>4. \A i \in 1 .. m : Len(q[i]) \in Nat
  <2> DEFINE Z == Seq(S)
  <2>1. q \in Seq(Z) /\ \A x \in Z : Len(x) \in Nat
    OBVIOUS
  <2> HIDE DEF Z
  <2> QED
    BY <2>1
<1> HIDE DEF m, l
<1>5. 0 \in T
  BY <1>1, <1>2
<1>6. ASSUME NEW i \in 0 .. m - 1, i \in T
      PROVE  i + 1 \in T
  <2>1. i + 1 \in 1 .. m /\ i + 1 \in 0 .. m /\ i \in 0 .. m /\ i + 1 - 1 = i
    BY <1>1
  <2>2. l(i + 1) = l(i) + Len(q[i + 1]) /\ l(i) \in Nat /\ Len(q[i + 1]) \in Nat /\ l(j) \in Nat
    BY <1>1, <1>2, <1>3, <1>4, <2>1
  <2>3. CASE j <= i
    BY <1>6, <2>1, <2>2, <2>3
  <2>4. CASE ~(j <= i)
    <3>1. j <= i + 1 => j = i + 1
      BY <1>1, <2>1, <2>4
    <3>2. l(i + 1) <= l(i + 1)
      BY <2>2
    <3> QED
      BY <2>1, <3>1, <3>2
  <2> QED
    BY <2>3, <2>4
<1> HIDE DEF T
<1>7. \A i \in 0 .. m : i \in T
  BY <1>1, <1>5, <1>6, Climb
<1>8. k \in T /\ j <= k
  BY <1>1, <1>7
<1> QED
  BY <1>8 DEF T, l

LEMMA InFront ==
  ASSUME NEW S, NEW x \in S, NEW y \in Seq(S), NEW z, z = <<x>> \o y
  PROVE  /\ z \in Seq(S) /\ Len(y) \in Nat /\ Len(z) = Len(y) + 1
         /\ z[1] = x
         /\ \A j \in 1 .. Len(y) : z[j + 1] = y[j]
<1> DEFINE w == <<x>>
           l == Len(y)
<1>1. w \in Seq(S) /\ Len(w) = 1 /\ w[1] = x /\ z = w \o y /\ l \in Nat
  BY LenProperties
<1> HIDE DEF w
<1>2. /\ z \in Seq(S) /\ Len(z) = 1 + l
      /\ \A i \in 1 .. 1 + l : z[i] = IF i <= 1 THEN w[i] ELSE y[i - 1]
  BY <1>1, ConcatProperties
<1> HIDE DEF l
<1>3. z[1] = x
  <2>1. 1 \in 1 .. 1 + l /\ 1 <= 1
    BY <1>1
  <2> QED
    BY <1>1, <1>2, <2>1
<1>4. ASSUME NEW j \in 1 .. l
      PROVE  z[j + 1] = y[j]
  <2> DEFINE i == j + 1
  <2>1. i \in 1 .. 1 + l /\ ~(i <= 1) /\ i - 1 = j
    BY <1>1
  <2> HIDE DEF i
  <2>2. z[i] = y[i - 1]
    BY <1>2, <2>1
  <2> QED
    BY <2>1, <2>2 DEF i
<1> QED
  BY <1>1, <1>2, <1>3, <1>4 DEF l

(* Frames whose first byte is a structure's                                *)
Headed(f) == f # <<>> /\ "blockSize" \in DOMAIN f[1]
AllHeaded(frames) == \A n \in DOMAIN frames : Headed(frames[n])

LEMMA HeadedInFront ==
  ASSUME NEW Z, NEW f \in Z, NEW g \in Seq(Z)
  PROVE  /\ <<f>> \o g \in Seq(Z) /\ Len(<<f>> \o g) = Len(g) + 1
         /\ AllHeaded(<<f>> \o g) => Headed(f) /\ AllHeaded(g)
<1> DEFINE h == <<f>> \o g
<1>1. h = <<f>> \o g
  OBVIOUS
<1> HIDE DEF h
<1>2. /\ h \in Seq(Z) /\ Len(g) \in Nat /\ Len(h) = Len(g) + 1 /\ h[1] = f
      /\ \A j \in 1 .. Len(g) : h[j + 1] = g[j]
  BY <1>1, InFront
<1>3. DOMAIN h = 1 .. Len(g) + 1 /\ DOMAIN g = 1 .. Len(g)
  BY <1>2, LenProperties
<1>4. ASSUME AllHeaded(h)
      PROVE  Headed(f) /\ AllHeaded(g)
  <2>1. 1 \in DOMAIN h /\ \A j \in DOMAIN g : j + 1 \in DOMAIN h
    BY <1>2, <1>3
  <2>2. Headed(f)
    BY <1>2, <1>4, <2>1 DEF AllHeaded
  <2>3. ASSUME NEW j \in DOMAIN g
        PROVE  Headed(g[j])
    <3>1. h[j + 1] = g[j] /\ j + 1 \in DOMAIN h
      BY <1>2, <1>3, <2>1
    <3> QED
      BY <1>4, <3>1 DEF AllHeaded
  <2> QED
    BY <2>2, <2>3 DEF AllHeaded
<1> QED
  BY <1>2, <1>4 DEF h

(* Frames of which bytes were lost are fewer, or one of them has lost its  *)
(* structure: as many structures as there were are all of them, in their   *)
(* order, and behind the first header, which is its own, each frame takes  *)
(* what it took, so that none of its bytes can be lost.                    *)
LEMMA FewerFrames ==
  ASSUME NEW S, \A x \in S : FrameSized(x),
         NEW bodies \in Seq(Seq(S)), NEW q \in Seq(Seq(S)), Len(q) = Len(bodies),
         \A n \in 1 .. Len(q) : q[n] = <<[frame |-> Len(bodies[n])]>> \o bodies[n],
         \A n \in 1 .. Len(q) : \A j \in 1 .. Len(bodies[n]) :
           "blockSize" \in DOMAIN bodies[n][j] => j = 1,
         NEW s \in Seq(S), NEW e, Embeds(e, s, FlattenSeq(q)), Len(s) < Len(FlattenSeq(q))
  PROVE  /\ Len(Unframe(s)) \in Nat /\ DOMAIN Unframe(s) = 1 .. Len(Unframe(s))
         /\ Len(Unframe(s)) = Len(q) => ~AllHeaded(Unframe(s))
<1> DEFINE t == FlattenSeq(q)
           m == Len(q)
           a == Len(s)
           b == Len(t)
           head(k) == Len(Joined(q, k - 1)) + 1
           was(p) == IF p <= a THEN e[p] ELSE b + 1
           Z == Seq(S) \cup {Exit}
<1>1. /\ m \in Nat /\ a \in Nat /\ b \in Nat /\ a < b /\ t \in Seq(S)
      /\ \A p \in 1 .. a : s[p] \in S
  BY LenProperties, FlattenType, ElementOfSeq
<1>2. ASSUME NEW k \in 1 .. m
      PROVE  /\ head(k) \in Nat /\ head(k + 1) \in Nat
             /\ head(k + 1) = head(k) + Len(bodies[k]) + 1
             /\ Len(bodies[k]) \in Nat /\ Len(q[k]) = Len(bodies[k]) + 1
             /\ q[k][1] = [frame |-> Len(bodies[k])]
             /\ \A j \in 1 .. Len(bodies[k]) : q[k][j + 1] = bodies[k][j]
  <2> DEFINE x == bodies[k]
             f == [frame |-> Len(x)]
  <2>1. x \in Seq(S)
    <3> DEFINE Y == Seq(S)
    <3>1. bodies \in Seq(Y) /\ k \in 1 .. Len(bodies)
      OBVIOUS
    <3> HIDE DEF Y
    <3>2. bodies[k] \in Y
      BY <3>1, ElementOfSeq
    <3> QED
      BY <3>2 DEF Y
  <2>2. q[k] = <<f>> \o x
    OBVIOUS
  <2> HIDE DEF x, f
  <2>3. f \in {f} \cup S /\ x \in Seq({f} \cup S)
    <3>1. S \subseteq {f} \cup S
      OBVIOUS
    <3> QED
      BY <2>1, <3>1, SeqMonotonic
  <2>4. /\ Len(x) \in Nat /\ Len(q[k]) = Len(x) + 1 /\ q[k][1] = f
        /\ \A j \in 1 .. Len(x) : q[k][j + 1] = x[j]
    BY <2>2, <2>3, InFront
  <2>8. /\ Len(Joined(q, k - 1)) \in Nat
        /\ Len(Joined(q, k)) = Len(Joined(q, k - 1)) + Len(q[k])
    <3>1. k - 1 \in 0 .. Len(q) /\ k \in 1 .. Len(q)
      BY <1>1
    <3> QED
      BY <3>1, JoinedType, JoinedPart
  <2>9. k + 1 - 1 = k
    BY <1>1
  <2>10. Len(bodies[k]) = Len(x) /\ bodies[k] = x /\ f = [frame |-> Len(bodies[k])]
    BY DEF x, f
  <2>11. head(k) = Len(Joined(q, k - 1)) + 1 /\ head(k + 1) = Len(Joined(q, k)) + 1
    BY <2>9
  <2>12. head(k) \in Nat /\ head(k + 1) \in Nat /\ head(k + 1) = head(k) + Len(x) + 1
    <3> DEFINE u == Len(Joined(q, k - 1))
               v == Len(Joined(q, k))
               l == Len(x)
    <3>1. u \in Nat /\ l \in Nat /\ v = u + (l + 1)
      BY <2>4, <2>8
    <3>2. head(k) = u + 1 /\ head(k + 1) = v + 1
      BY <2>11
    <3> HIDE DEF head, u, v, l
    <3>3. head(k) \in Nat /\ head(k + 1) \in Nat /\ head(k + 1) = head(k) + l + 1
      BY ONLY <3>1, <3>2
    <3> QED
      BY <3>3 DEF l
  <2> QED
    BY <2>4, <2>10, <2>12
<1>3. head(1) = 1 /\ head(m + 1) = b + 1
  <2>1. 1 - 1 = 0 /\ m + 1 - 1 = m
    BY <1>1
  <2>2. Joined(q, 0) = <<>> /\ Joined(q, m) = t
    BY JoinedSteps
  <2>3. Len(<<>>) = 0 /\ 0 + 1 = 1
    OBVIOUS
  <2> QED
    BY <2>1, <2>2, <2>3
<1>4. ASSUME NEW k \in 1 .. m + 1
      PROVE  head(k) \in Nat /\ head(k) <= b + 1
  <2>1. k - 1 \in 0 .. Len(q) /\ Len(q) \in k - 1 .. Len(q)
    BY <1>1
  <2>2. Len(Joined(q, k - 1)) <= Len(Joined(q, Len(q))) /\ Len(Joined(q, k - 1)) \in Nat
    BY <2>1, JoinedGrows, JoinedType
  <2>3. Joined(q, Len(q)) = t
    BY JoinedSteps
  <2> QED
    BY <1>1, <2>2, <2>3
<1>5. ASSUME NEW k \in 1 .. m, NEW l \in 1 .. m + 1, k < l
      PROVE  head(k) < head(l)
  <2>1. k \in 0 .. Len(q) /\ l - 1 \in k .. Len(q) /\ k + 1 - 1 = k
    BY <1>1, <1>5
  <2>2. Len(Joined(q, k)) <= Len(Joined(q, l - 1))
    BY <2>1, JoinedGrows
  <2>3. Len(Joined(q, k)) \in Nat /\ Len(Joined(q, l - 1)) \in Nat
    <3>1. l - 1 \in 0 .. Len(q)
      BY <1>1
    <3> QED
      BY <2>1, <3>1, JoinedType
  <2>4. head(k + 1) <= head(l)
    BY <2>1, <2>2, <2>3
  <2>5. head(l) \in Nat
    BY <1>4
  <2>6. /\ head(k) \in Nat /\ head(k + 1) \in Nat /\ Len(bodies[k]) \in Nat
        /\ head(k + 1) = head(k) + Len(bodies[k]) + 1
    BY <1>2
  <2> HIDE DEF head
  <2>7. head(k) < head(k + 1)
    BY <2>6
  <2> QED
    BY <2>4, <2>5, <2>6, <2>7
<1>6. ASSUME NEW i \in 1 .. b, "blockSize" \in DOMAIN t[i]
      PROVE  \E k \in 1 .. m : i = head(k) + 1
  <2>1. PICK k \in 1 .. Len(q) : \E j \in 1 .. Len(q[k]) :
           i = Len(Joined(q, k - 1)) + j /\ t[i] = q[k][j]
    BY JoinedWhere
  <2>2. PICK j \in 1 .. Len(q[k]) : i = Len(Joined(q, k - 1)) + j /\ t[i] = q[k][j]
    BY <2>1
  <2>3. k \in 1 .. m
    BY <2>1
  <2> HIDE DEF t, b, m
  <2>4. /\ Len(bodies[k]) \in Nat /\ Len(q[k]) = Len(bodies[k]) + 1
        /\ q[k][1] = [frame |-> Len(bodies[k])]
        /\ \A l \in 1 .. Len(bodies[k]) : q[k][l + 1] = bodies[k][l]
    BY <1>2, <2>3
  <2>5. CASE j = 1
    <3>1. t[i] = [frame |-> Len(bodies[k])]
      BY <2>2, <2>4, <2>5
    <3> QED
      BY <1>6, <3>1
  <2>6. CASE j # 1
    <3> DEFINE l == j - 1
    <3>1. l \in 1 .. Len(bodies[k]) /\ l + 1 = j
      BY <2>2, <2>4, <2>6
    <3> HIDE DEF l
    <3>2. t[i] = bodies[k][l]
      BY <2>2, <2>4, <3>1
    <3>3. l = 1
      BY <1>6, <2>3, <3>1, <3>2 DEF m
    <3> DEFINE u == Len(Joined(q, k - 1))
    <3>4. u \in Nat /\ i = u + j /\ head(k) = u + 1
      <4>1. k - 1 \in 0 .. Len(q)
        OBVIOUS
      <4> QED
        BY <2>2, <4>1, JoinedType
    <3> HIDE DEF u, head
    <3>5. i = head(k) + 1
      BY <3>1, <3>3, <3>4
    <3> QED
      BY <2>3, <3>5
  <2> QED
    BY <2>5, <2>6
<1>16. ASSUME NEW k \in 1 .. m
       PROVE  t[head(k)] = [frame |-> Len(bodies[k])]
  <2> DEFINE l == Len(q[k])
             c == Len(bodies[k])
  <2>1. c \in Nat /\ l = c + 1 /\ q[k][1] = [frame |-> c]
    BY <1>2
  <2>2. \A j \in 1 .. l : t[Len(Joined(q, k - 1)) + j] = q[k][j]
    BY JoinedPart
  <2> HIDE DEF l, c, t
  <2>3. 1 \in 1 .. l
    BY <2>1
  <2>4. t[Len(Joined(q, k - 1)) + 1] = q[k][1]
    BY <2>2, <2>3
  <2> QED
    BY <2>1, <2>4 DEF c
<1>7. /\ \A p \in 1 .. a : e[p] \in 1 .. b /\ s[p] = t[e[p]]
      /\ \A i, j \in 1 .. a : i <= j => e[j] - e[i] >= j - i
  BY DEF Embeds
<1>8. PICK g : IsAfter(g, s) /\ Unframe(s) = g[1]
  <2>1. Len(s) \in Nat /\ \A p \in 1 .. Len(s) : FrameSized(s[p])
    BY <1>1
  <2> QED
    BY <2>1, UnframeIs
<1>9. \A p \in 1 .. a + 1 : g[p] = AfterStep(g, s, p)
  BY <1>8 DEF IsAfter
<1> HIDE DEF head
<1> DEFINE After(p, k) == was(p) > head(k) => Len(g[p]) <= m - k
           From(p, k) == was(p) >= head(k) /\ Len(g[p]) = m - k + 1 => a - p >= b - head(k)
           Behind(p) == /\ g[p] \in Seq(Z)
                        /\ AllHeaded(g[p]) => /\ \A k \in 1 .. m : After(p, k)
                                              /\ \A k \in 1 .. m + 1 : From(p, k)
           T == {d \in 0 .. a : \A p \in a + 1 - d .. a + 1 : Behind(p)}
<1>10. Behind(a + 1)
  <2>1. g[a + 1] = <<>>
    <3>1. a + 1 \in 1 .. a + 1 /\ a + 1 > a
      BY <1>1
    <3> QED
      BY <1>9, <3>1 DEF AfterStep
  <2>2. Len(<<>>) = 0 /\ <<>> \in Seq(Z)
    OBVIOUS
  <2>3. ASSUME NEW k \in 1 .. m
        PROVE  After(a + 1, k)
    BY <1>1, <2>1, <2>2
  <2>4. ASSUME NEW k \in 1 .. m + 1
        PROVE  From(a + 1, k)
    <3>1. 0 = m - k + 1 => a - (a + 1) >= b - head(k)
      <4>1. 0 = m - k + 1 => k = m + 1
        BY <1>1
      <4> QED
        BY <1>1, <1>3, <4>1
    <3> QED
      BY <2>1, <2>2, <3>1
  <2> QED
    BY <2>1, <2>2, <2>3, <2>4
<1>11. ASSUME NEW p \in 1 .. a, \A r \in p + 1 .. a + 1 : Behind(r)
       PROVE  Behind(p)
  <2> DEFINE x == s[p]
             d == headerSize(x)
  <2>1. p \in 1 .. a + 1 /\ ~(p > a) /\ p <= a /\ p \in Nat
    BY <1>1
  <2>2. g[p] = AfterStep(g, s, p) /\ was(p) = e[p] /\ e[p] \in 1 .. b /\ x = t[e[p]]
    BY <1>7, <1>9, <2>1
  <2>3. x \in S /\ d \in Nat
    BY <1>1 DEF FrameSized
  <2>4. CASE p + d > a
    <3>1. g[p] = <<Exit>>
      BY <2>1, <2>2, <2>4 DEF AfterStep
    <3> DEFINE z == Exit
    <3>2. z \in Z
      OBVIOUS
    <3>3. ~Headed(z)
      <4>1. DOMAIN Exit[1] = {"exit"}
        BY DEF Exit
      <4> QED
        BY <4>1 DEF Headed
    <3> HIDE DEF z, Z
    <3>4. <<z>> \in Seq(Z) /\ <<z>>[1] = z /\ 1 \in DOMAIN <<z>>
      BY <3>2
    <3>5. ~AllHeaded(<<z>>)
      BY <3>3, <3>4 DEF AllHeaded
    <3> QED
      BY <3>1, <3>4, <3>5 DEF z
  <2>5. CASE ~(p + d > a)
    <3> DEFINE r == p + d + 1
               h == SubSeq(s, p + 1, p + d)
    <3>1. p + d <= a
      BY <1>1, <2>1, <2>3, <2>5
    <3>2. s \in [1 .. a -> S]
      BY LenProperties
    <3>3. g[p] = <<h>> \o g[r]
      BY <2>1, <2>2, <2>5 DEF AfterStep, x, d
    <3> HIDE DEF x, d
    <3>4. /\ r \in p + 1 .. a + 1 /\ r \in Nat /\ p \in Nat
          /\ 1 <= r /\ p <= r /\ r - p = d + 1
      <4> HIDE DEF a
      <4> QED
        BY <1>1, <2>1, <2>3, <3>1
    <3>5. h \in Z /\ h \in Seq(S) /\ Len(h) = d /\ \A j \in 1 .. d : h[j] = s[p + j]
      <4>1. a \in Nat /\ p \in Nat /\ d \in Nat /\ p + d <= a
        BY <1>1, <2>1, <2>3, <3>1
      <4> HIDE DEF a
      <4>2. /\ SubSeq(s, p + 1, p + d) \in Seq(S) /\ Len(SubSeq(s, p + 1, p + d)) = d
            /\ \A j \in 1 .. d : SubSeq(s, p + 1, p + d)[j] = s[p + j]
        BY ONLY <3>2, <4>1, Slice
      <4> QED
        BY <4>2
    <3>6. Behind(r)
      BY <1>11, <3>4
    <3> HIDE DEF h, Z
    <3>7. /\ g[p] \in Seq(Z) /\ Len(g[p]) = Len(g[r]) + 1 /\ Len(g[r]) \in Nat
          /\ AllHeaded(g[p]) => Headed(h) /\ AllHeaded(g[r])
      BY <3>3, <3>5, <3>6, HeadedInFront, LenProperties
    <3> HIDE DEF r
    <3>8. SUFFICES ASSUME AllHeaded(g[p])
                   PROVE  /\ \A k \in 1 .. m : After(p, k)
                          /\ \A k \in 1 .. m + 1 : From(p, k)
      BY <3>7
    <3>9. d # 0 /\ "blockSize" \in DOMAIN s[p + 1]
      <4>1. Headed(h)
        BY <3>7, <3>8
      <4>2. Len(h) # 0
        BY <3>5, <4>1, EmptySeq DEF Headed
      <4>3. 1 \in 1 .. d
        BY <2>3, <3>5, <4>2
      <4> QED
        BY <3>5, <4>1, <4>2, <4>3 DEF Headed
    <3>10. p + 1 \in 1 .. a /\ r >= p + 2
      BY <1>1, <2>1, <2>3, <3>1, <3>4, <3>9
    <3>11. PICK j \in 1 .. m : e[p + 1] = head(j) + 1
      BY <1>6, <1>7, <3>9, <3>10
    <3>12. e[p + 1] > e[p] /\ e[p] \in Nat
      <4> DEFINE x1 == e[p + 1]
                 x2 == e[p]
      <4>1. x1 \in Nat /\ x2 \in Nat
        <5>1. x1 \in 1 .. b /\ x2 \in 1 .. b
          BY <1>7, <2>2, <3>10
        <5> HIDE DEF x1, x2, b
        <5> QED
          BY <5>1
      <4>2. x1 - x2 >= (p + 1) - p
        <5>1. p \in 1 .. a /\ p + 1 \in 1 .. a /\ p <= p + 1
          BY <2>1, <3>10
        <5> QED
          BY <1>7, <5>1
      <4> HIDE DEF x1, x2
      <4>3. x1 > x2
        BY <2>1, <4>1, <4>2
      <4> QED
        BY <4>1, <4>3 DEF x1, x2
    <3>13. was(r) > head(j)
      <4>1. head(j) \in Nat /\ j \in 1 .. m + 1
        <5>1. head(j) \in Nat
          BY <1>2
        <5>2. j \in 1 .. m + 1
          BY <1>1
        <5> QED
          BY <5>1, <5>2
      <4>2. CASE r <= a
        <5> DEFINE x1 == e[r]
                   x2 == e[p + 1]
        <5>1. r \in 1 .. a /\ p + 1 <= r
          BY <1>1, <3>4, <4>2
        <5>2. x1 - x2 >= r - (p + 1) /\ x1 \in Nat
          BY <1>1, <1>7, <3>10, <5>1
        <5>3. x2 = head(j) + 1 /\ was(r) = x1
          BY <3>11, <4>2
        <5> HIDE DEF x1, x2, head, was
        <5>4. x1 >= x2
          BY <2>1, <3>4, <3>10, <4>1, <5>2, <5>3
        <5> QED
          BY <4>1, <5>2, <5>3, <5>4
      <4>3. CASE ~(r <= a)
        <5>1. was(r) = b + 1 /\ head(m + 1) = b + 1
          BY <1>3, <4>3
        <5>2. m + 1 \in 1 .. m + 1 /\ j < m + 1
          BY <1>1
        <5>3. head(j) < head(m + 1)
          BY <1>5, <5>2
        <5>4. b + 1 \in Nat
          BY <1>1
        <5> HIDE DEF was, b
        <5> QED
          BY <4>1, <5>1, <5>3, <5>4
      <4> QED
        BY <4>2, <4>3
    <3>14. Len(g[r]) <= m - j
      BY <3>6, <3>7, <3>8, <3>13
    <3>15. ASSUME NEW k \in 1 .. m, was(p) > head(k)
           PROVE  Len(g[p]) <= m - k
      <4>1. head(k) \in Nat /\ head(j) \in Nat
        BY <1>2
      <4>2. head(k) < head(j)
        <5> DEFINE y == was(p)
        <5>1. y = e[p] /\ y > head(k)
          BY <2>2, <3>15
        <5>2. y \in Nat /\ head(j) + 1 > y
          BY <3>11, <3>12, <5>1
        <5> HIDE DEF y, head
        <5> QED
          BY ONLY <4>1, <5>1, <5>2
      <4>3. j < k => head(j) < head(k)
        <5>1. k \in 1 .. m + 1
          BY <1>1
        <5> QED
          BY <1>5, <5>1
      <4>4. j # k /\ ~(j < k)
        <5> HIDE DEF head
        <5> QED
          BY <4>1, <4>2, <4>3
      <4>5. k < j /\ k \in Nat /\ j \in Nat
        BY <1>1, <4>4
      <4> DEFINE n == Len(g[r])
      <4>6. n \in Nat /\ n <= m - j /\ Len(g[p]) = n + 1
        BY <3>7, <3>14
      <4> HIDE DEF n, m
      <4> QED
        BY <1>1, <4>5, <4>6
    <3>16. ASSUME NEW k \in 1 .. m + 1, was(p) >= head(k), Len(g[p]) = m - k + 1
           PROVE  a - p >= b - head(k)
      <4> DEFINE n == Len(g[r])
      <4>1. n \in Nat /\ n + 1 = m - k + 1
        BY <3>7, <3>16
      <4>2. k \in 1 .. m /\ n = m - k /\ k + 1 \in 1 .. m + 1 /\ n = m - (k + 1) + 1
        <5>1. k \in 1 .. m + 1 /\ m \in Nat
          BY <1>1
        <5> HIDE DEF n, m
        <5>2. k = m - n /\ k \in 1 .. m
          BY ONLY <4>1, <5>1
        <5> QED
          BY ONLY <4>1, <5>1, <5>2
      <4>3. /\ head(k) \in Nat /\ head(k + 1) \in Nat
            /\ head(k + 1) = head(k) + Len(bodies[k]) + 1
            /\ Len(bodies[k]) \in Nat
        BY <1>2, <4>2
      <4>4. e[p] = head(k)
        <5>1. ~(was(p) > head(k))
          <6>1. was(p) > head(k) => n + 1 <= m - k
            BY <3>7, <3>15, <4>2
          <6>2. ~(n + 1 <= m - k)
            <7> HIDE DEF n
            <7> QED
              BY <4>1, <4>2
          <6> QED
            BY <6>1, <6>2
        <5>2. was(p) = e[p] /\ e[p] \in Nat
          BY <2>2, <3>12
        <5> HIDE DEF was, head
        <5> QED
          BY <3>16, <4>3, <5>1, <5>2
      <4>5. d = Len(bodies[k])
        <5>1. x = [frame |-> Len(bodies[k])]
          BY <1>16, <2>2, <4>2, <4>4
        <5> QED
          BY <5>1 DEF headerSize, d
      <4>6. was(r) >= head(k + 1)
        <5>1. CASE r <= a
          <6> DEFINE x1 == e[r]
                     x2 == e[p]
          <6>1. r \in 1 .. a
            BY <1>1, <3>4, <5>1
          <6>2. x1 - x2 >= r - p /\ x1 \in Nat
            BY <1>1, <1>7, <3>4, <6>1
          <6>3. x1 - x2 >= d + 1 /\ x2 = head(k) /\ was(r) = x1
            BY <3>4, <4>4, <5>1, <6>2
          <6> HIDE DEF x1, x2, was, head
          <6>4. x1 >= x2 + d + 1
            <7>1. d \in Nat
              BY <2>3
            <7> HIDE DEF d
            <7> QED
              BY ONLY <4>3, <6>2, <6>3, <7>1
          <6> QED
            BY <4>3, <4>5, <6>3, <6>4
        <5>2. CASE ~(r <= a)
          <6>1. was(r) = b + 1
            BY <5>2
          <6> QED
            BY <1>4, <4>2, <6>1
        <5> QED
          BY <5>1, <5>2
      <4>7. a - r >= b - head(k + 1)
        BY <3>6, <3>7, <3>8, <4>2, <4>6
      <4>8. r = p + d + 1
        BY DEF r
      <4> DEFINE u == head(k)
                 v == head(k + 1)
      <4>9. /\ a \in Nat /\ b \in Nat /\ p \in Nat /\ d \in Nat /\ u \in Nat
            /\ v = u + d + 1 /\ r = p + d + 1 /\ a - r >= b - v
        BY <1>1, <2>1, <2>3, <4>3, <4>5, <4>7, <4>8
      <4> HIDE DEF a, b, u, v
      <4>10. a - p >= b - u
        BY ONLY <4>9
      <4> QED
        BY <4>10 DEF u
    <3> QED
      BY <3>15, <3>16
  <2> QED
    BY <2>4, <2>5
<1> HIDE DEF Behind
<1>12. 0 \in T
  <2>1. \A p \in a + 1 - 0 .. a + 1 : p = a + 1
    BY <1>1
  <2> QED
    BY <1>1, <1>10, <2>1
<1>13. ASSUME NEW d \in 0 .. a - 1, d \in T
       PROVE  d + 1 \in T
  <2> DEFINE p == a - d
  <2>1. p \in 1 .. a /\ p + 1 = a + 1 - d /\ a + 1 - (d + 1) = p /\ d + 1 \in 0 .. a
    BY <1>1
  <2>2. \A r \in p + 1 .. a + 1 : Behind(r)
    BY <1>13, <2>1
  <2>3. Behind(p)
    BY <1>11, <2>1, <2>2
  <2>4. \A r \in p .. a + 1 : r = p \/ r \in p + 1 .. a + 1
    <3> HIDE DEF p, a
    <3> QED
      BY <1>1, <2>1
  <2> QED
    BY <2>1, <2>2, <2>3, <2>4
<1>14. Behind(1)
  <2> HIDE DEF T
  <2>1. \A d \in 0 .. a : d \in T
    BY <1>1, <1>12, <1>13, Climb
  <2>2. a \in T /\ 1 \in a + 1 - a .. a + 1
    BY <1>1, <2>1
  <2> QED
    BY <2>2 DEF T
<1>15. /\ g[1] \in Seq(Z)
       /\ AllHeaded(g[1]) => From(1, 1)
  <2>1. 1 \in 1 .. m + 1
    BY <1>1
  <2> QED
    BY <1>14, <2>1 DEF Behind
<1>17. Len(g[1]) \in Nat /\ DOMAIN g[1] = 1 .. Len(g[1])
  <2> HIDE DEF Z
  <2> QED
    BY <1>15, LenProperties
<1>18. ASSUME Len(g[1]) = m
       PROVE  ~AllHeaded(g[1])
  <2>1. m = m - 1 + 1 /\ ~(a - 1 >= b - head(1))
    BY <1>1, <1>3
  <2>2. was(1) >= head(1)
    BY <1>1, <1>3, <1>7
  <2> QED
    BY <1>15, <1>18, <2>1, <2>2
<1> QED
  BY <1>8, <1>17, <1>18
-----------------------------------------------------------------------------
(* Only the first byte of a record is a structure's.                       *)
LEMMA OnlyHeaded ==
  ASSUME NEW b \in Block2
  PROVE  \A j \in 1 .. Len(Record2(b)) : "blockSize" \in DOMAIN Record2(b)[j] => j = 1
<1> DEFINE h == [b EXCEPT !.buffer = <<>>]
           S == {h} \cup Byte2
           d == dataSize(b)
           y == Fill(b.buffer, d - 1)
           w == Fill(<<h>> \o b.buffer, d)
           r == SubSeq(w, 1, d)
<1>1. \A x \in Byte2 : "blockSize" \notin DOMAIN x
  <2> SUFFICES ASSUME NEW x \in Byte2
               PROVE  "blockSize" \notin DOMAIN x
    OBVIOUS
  <2>1. DOMAIN x = {"none"} \/ DOMAIN x = {"type", "block", "part", "of"}
    BY DEF Byte2, NoByte
  <2> QED
    BY <2>1
<1>2. d \in Nat /\ d >= 1 /\ Len(Record2(b)) = d
  <2>1. d \in Nat /\ Len(Record2(b)) = d
    BY UnpackRecord2
  <2>2. b.blockSize \in Nat
    BY DEF Block2
  <2>3. block2Size \in Nat /\ Slack \in Nat
    BY Sizes
  <2> DEFINE x == b.blockSize
  <2>4. d = ((1 + (block2Size + Slack)) - block2Size) + Slack + x
    BY DEF dataSize, block2Bytes, BLOCK2_MAX_SIZE
  <2> HIDE DEF x, d
  <2>5. x \in Nat
    BY <2>2 DEF x
  <2>6. d >= 1
    BY ONLY <2>3, <2>4, <2>5
  <2> QED
    BY <2>1, <2>6 DEF d
<1>3. b.buffer \in Seq(Byte2) /\ NoByte \in Byte2
  BY DEF Block2, Byte2
<1> HIDE DEF d
<1>4. y \in Seq(Byte2)
  <2>1. d - 1 \in Nat
    BY <1>2
  <2> QED
    BY <1>3, <2>1, FillInto
<1>5. w = <<h>> \o y
  <2> DEFINE u == b.buffer
             rest == [k \in 1 .. d - 1 - Len(u) |-> NoByte]
             a == <<h>>
  <2>1. Len(u) \in Nat /\ Len(<<h>> \o u) = Len(u) + 1
    <3>1. u \in Seq(S) /\ h \in S
      <4>1. Byte2 \subseteq S
        OBVIOUS
      <4> QED
        BY <1>3, <4>1, SeqMonotonic
    <3> HIDE DEF u, S, h
    <3> QED
      BY <3>1, InFront
  <2>2. d - Len(<<h>> \o u) = d - 1 - Len(u)
    BY <1>2, <2>1
  <2>3. w = (<<h>> \o u) \o rest /\ y = u \o rest
    BY <2>2 DEF Fill
  <2>4. a \in Seq(S) /\ u \in Seq(S) /\ rest \in Seq(S)
    <3>1. Byte2 \subseteq S /\ NoByte \in S /\ h \in S
      BY <1>3
    <3>2. u \in Seq(S)
      BY <1>3, <3>1, SeqMonotonic
    <3>3. PICK m \in Nat : 1 .. d - 1 - Len(u) = 1 .. m
      <4> DEFINE l == d - 1 - Len(u)
      <4>1. l \in Int
        BY <1>2, <2>1
      <4> HIDE DEF l
      <4>2. l >= 0 \/ 1 .. l = 1 .. 0
        BY <4>1
      <4> QED
        BY <4>1, <4>2 DEF l
    <3>4. rest \in Seq(S)
      <4>1. rest = [k \in 1 .. m |-> NoByte] /\ NoByte \in S /\ m \in Nat
        BY <3>1, <3>3
      <4> HIDE DEF S, rest, u
      <4>2. \A x \in S : [k \in 1 .. m |-> x] \in Seq(S)
        BY <4>1
      <4> QED
        BY <4>1, <4>2
    <3>5. a \in Seq(S)
      <4> HIDE DEF S, h
      <4> QED
        BY <3>1
    <3> QED
      BY <3>2, <3>4, <3>5
  <2> HIDE DEF S, a, u, rest, w, y
  <2>5. (a \o u) \o rest = a \o (u \o rest)
    BY <2>4, ConcatAssociative
  <2> QED
    BY <2>3, <2>5 DEF a
<1> HIDE DEF w
<1>6. w \in Seq(S) /\ Len(w) = Len(y) + 1 /\ Len(y) \in Nat
      /\ \A j \in 1 .. Len(y) : w[j + 1] = y[j]
  <2>1. Byte2 \subseteq S /\ h \in S
    OBVIOUS
  <2> HIDE DEF S, h, y
  <2>2. y \in Seq(S)
    BY <1>4, <2>1, SeqMonotonic
  <2> QED
    BY <1>5, <2>1, <2>2, InFront
<1> HIDE DEF y
<1>7. Record2(b) = r
  BY DEF Record2, r, w, d
<1>8. Len(w) >= d
  <2>1. Len(y) >= d - 1
    <3>1. d - 1 \in Nat /\ Len(b.buffer) \in Nat
      BY <1>2, <1>3, LenProperties
    <3>2. Len(y) = (IF d - 1 >= Len(b.buffer) THEN d - 1 ELSE Len(b.buffer))
      BY <1>3, <3>1, FillInto DEF y
    <3> QED
      BY <3>1, <3>2
  <2> QED
    BY <1>2, <1>6, <2>1
<1>9. ASSUME NEW j \in 1 .. d, j # 1
      PROVE  r[j] \in Byte2
  <2> DEFINE i == j - 1
  <2>1. i \in 1 .. Len(y) /\ i + 1 = j
    BY <1>2, <1>6, <1>8, <1>9
  <2>2. r[j] = w[j]
    <3> HIDE DEF S
    <3> QED
      BY <1>2, <1>6, <1>8, <1>9
  <2> HIDE DEF i, r
  <2>3. w[i + 1] = y[i] /\ y[i] \in Byte2
    BY <1>4, <1>6, <2>1, ElementOfSeq
  <2> QED
    BY <2>1, <2>2, <2>3
<1> HIDE DEF r
<1> QED
  BY <1>1, <1>2, <1>7, <1>9

(* As many blocks as places, one of them none: the others do not fill the  *)
(* places, and what nobody copied to is no block either.                   *)
LEMMA PlaceLeft ==
  ASSUME NEW frames, NEW m \in Nat, Len(frames) = m, DOMAIN frames = 1 .. m,
         ~AllHeaded(frames), NEW pieces,
         NEW blocks, blocks = InPlace([n \in DOMAIN frames |-> Unpack(frames[n])])
  PROVE  /\ \E n \in DOMAIN blocks : blocks[n] = Bad
         /\ Decompress(pieces, 0, Bad) = Exit
<1> DEFINE B == [n \in DOMAIN frames |-> Unpack(frames[n])]
           at(n) == {k \in DOMAIN B : B[k].blockNum = n - 1}
           last(n) == CHOOSE k \in at(n) : \A l \in at(n) : l <= k
           f == [n \in 1 .. m |-> last(n)]
<1>1. PICK x \in 1 .. m : ~Headed(frames[x])
  BY DEF AllHeaded
<1>2. B[x] = Bad
  BY <1>1 DEF Headed, Unpack
<1>3. DOMAIN B = 1 .. m
  OBVIOUS
<1>4. /\ DOMAIN blocks = 1 .. m
      /\ \A n \in 1 .. m : blocks[n] = IF at(n) = {} THEN Bad ELSE B[last(n)]
  BY <1>3 DEF InPlace
<1> HIDE DEF B
<1>5. ASSUME \A n \in DOMAIN blocks : blocks[n] # Bad
      PROVE  FALSE
  <2>1. ASSUME NEW n \in 1 .. m
        PROVE  last(n) \in 1 .. m /\ B[last(n)].blockNum = n - 1 /\ B[last(n)] # Bad
    <3>1. blocks[n] # Bad
      BY <1>4, <1>5
    <3>2. at(n) # {} /\ B[last(n)] # Bad
      BY <1>4, <3>1
    <3>3. at(n) \subseteq 1 .. m
      BY <1>3
    <3>4. \E k \in at(n) : \A l \in at(n) : l <= k
      <4> DEFINE T == {i \in Nat : \E k \in at(n) : i = m - k}
      <4>1. T # {} /\ T \in SUBSET Nat
        <5>1. PICK k \in at(n) : TRUE
          BY <3>2
        <5>2. m - k \in Nat
          BY <3>3
        <5> QED
          BY <5>2
      <4>2. PICK i \in T : \A j \in T : i <= j
        <5> HIDE DEF T
        <5> QED
          BY <4>1, LeastNumber
      <4>3. PICK k \in at(n) : i = m - k
        OBVIOUS
      <4>4. ASSUME NEW l \in at(n)
            PROVE  l <= k
        <5>1. l \in 1 .. m /\ k \in 1 .. m
          BY <3>3
        <5>2. m - l \in T
          BY <5>1
        <5>3. m - k <= m - l
          BY <4>2, <4>3, <5>2
        <5> QED
          BY <5>1, <5>3
      <4> QED
        BY <4>4
    <3>5. last(n) \in at(n)
      <4> HIDE DEF at
      <4> QED
        BY <3>4
    <3> HIDE DEF last
    <3> QED
      BY <1>3, <3>2, <3>5
  <2> HIDE DEF last
  <2>2. f \in [1 .. m -> 1 .. m] /\ \A n \in 1 .. m : f[n] = last(n)
    BY <2>1
  <2> HIDE DEF f
  <2>3. ASSUME NEW j \in 1 .. m, NEW k \in 1 .. m, f[j] = f[k]
        PROVE  j = k
    <3>1. last(j) = last(k)
      BY <2>2, <2>3
    <3>2. B[last(j)].blockNum = j - 1 /\ B[last(k)].blockNum = k - 1
      BY <2>1
    <3>3. j - 1 = k - 1
      BY <3>1, <3>2, Zenon
    <3> QED
      BY <3>3
  <2>4. \E n \in 1 .. m : f[n] = x
    BY <2>2, <2>3, EveryNumber
  <2> QED
    BY <1>2, <2>1, <2>2, <2>4
<1>6. Decompress(pieces, 0, Bad) = Exit
  <2>1. Sound(0, Bad.buffer) = 0
    BY DEF Sound, Bad
  <2> QED
    BY <2>1 DEF Decompress
<1> QED
  BY <1>5, <1>6

(* What arrives is shorter than what was sent, and part of it.             *)
LEMMA LessFetched ==
  ASSUME transferQueue1 \in Seq(Byte),
         served \subseteq DOMAIN block3Storage, served # DOMAIN block3Storage
  PROVE  /\ Fetched \in Seq(Byte)
         /\ \E e : Embeds(e, Fetched, transferQueue1)
         /\ Len(Fetched) < Len(transferQueue1)
<1> DEFINE P == Pieces(transferQueue1, block3Size)
           m == Len(P)
<1>1. /\ P \in Seq(Seq(Byte)) /\ FlattenSeq(P) = transferQueue1
      /\ \A i \in 1 .. m : /\ Len(P[i]) = Least(i * block3Size, Len(transferQueue1)) - (i - 1) * block3Size
                           /\ (i - 1) * block3Size \in Nat /\ i * block3Size \in Nat
                           /\ (i - 1) * block3Size < Len(transferQueue1)
  BY Sizes, PieceIs, FlattenPieces
<1>2. m \in Nat /\ DOMAIN P = 1 .. m
  <2> DEFINE Z == Seq(Byte)
  <2>1. P \in Seq(Z)
    BY <1>1
  <2> HIDE DEF Z, P
  <2> QED
    BY <2>1, LenProperties
<1>3. P = block3Storage
  BY DEF block3Storage
<1> HIDE DEF P, m
<1>4. ASSUME NEW n \in 1 .. m
      PROVE  P[n] # <<>>
  <2> DEFINE x == (n - 1) * block3Size
             y == n * block3Size
             l == Len(transferQueue1)
  <2>1. Len(P[n]) = Least(y, l) - x /\ x \in Nat /\ y \in Nat /\ x < l /\ l \in Nat
    BY <1>1, LenProperties
  <2>2. y = x + block3Size /\ block3Size \in Nat \ {0}
    BY <1>2, Sizes
  <2> HIDE DEF x, y, l
  <2>3. Len(P[n]) # 0
    BY <2>1, <2>2 DEF Least
  <2>4. Len(<<>>) = 0
    OBVIOUS
  <2> QED
    BY <2>3, <2>4
<1>5. Fetched = FlattenSeq(Kept(P, served))
  BY <1>3 DEF Fetched, Kept
<1>6. \E n \in 1 .. m : n \notin served
  BY <1>2, <1>3
<1>7. /\ FlattenSeq(Kept(P, served)) \in Seq(Byte)
      /\ \E e : Embeds(e, FlattenSeq(Kept(P, served)), FlattenSeq(P))
      /\ Len(FlattenSeq(Kept(P, served))) < Len(FlattenSeq(P))
  <2>1. \A n \in 1 .. Len(P) : P[n] # <<>>
    BY <1>4 DEF m
  <2>2. \E n \in 1 .. Len(P) : n \notin served
    BY <1>6 DEF m
  <2> QED
    BY <1>1, <2>1, <2>2, KeptEmbeds
<1> QED
  BY <1>1, <1>5, <1>7

(* Whatever of what was sent did not reach the server, test3 ends with an  *)
(* error and writes no file: the frames of what is left are fewer than the *)
(* blocks, or one of them is no block, and some place stays unfilled.      *)
THEOREM LossIsNoticedCorrect == Spec => []LossIsNoticed
<1>1. QueueInv => LossIsNoticed
  <2> SUFFICES ASSUME QueueInv, sent, ~refused, served # DOMAIN block3Storage
               PROVE  test3 = Exit
    BY DEF LossIsNoticed
  <2> DEFINE b2 == arrived2
             m == Len(b2)
             q == Frames2(b2)
             bodies == [n \in 1 .. m |-> Record2(b2[n])]
             frames == Unframe(Fetched)
             blocks == InPlace(Blocks2(Fetched))
             type(b) == IF b = Bad THEN 0 ELSE b.compressType
             plain == [n \in DOMAIN blocks |-> Decompress(Pieces2, type(blocks[n]), blocks[n])]
  <2>1. /\ transferQueue1 \in Seq(Byte) /\ b2 \in Seq(Block2) /\ m \in Nat
        /\ served \subseteq DOMAIN block3Storage
        /\ transferQueue1 = FlattenSeq(q)
    BY LenProperties DEF QueueInv, QTypes, AllArrived, NothingRefused
  <2>2. /\ Fetched \in Seq(Byte) /\ Len(Fetched) < Len(FlattenSeq(q))
        /\ \E e : Embeds(e, Fetched, FlattenSeq(q))
    BY <2>1, LessFetched
  <2>3. PICK e : Embeds(e, Fetched, FlattenSeq(q))
    BY <2>2
  <2>4. \A n \in 1 .. m :
           /\ Frame(b2[n]) = <<[frame |-> Len(Record2(b2[n]))]>>
           /\ Frame(b2[n]) \in Seq(Byte) /\ Record2(b2[n]) \in Seq(Byte)
           /\ \A j \in 1 .. Len(Record2(b2[n])) :
                "blockSize" \in DOMAIN Record2(b2[n])[j] => j = 1
    <3> SUFFICES ASSUME NEW n \in 1 .. m
                 PROVE  /\ Frame(b2[n]) = <<[frame |-> Len(Record2(b2[n]))]>>
                        /\ Frame(b2[n]) \in Seq(Byte) /\ Record2(b2[n]) \in Seq(Byte)
                        /\ \A j \in 1 .. Len(Record2(b2[n])) :
                             "blockSize" \in DOMAIN Record2(b2[n])[j] => j = 1
      OBVIOUS
    <3> DEFINE b == b2[n]
    <3>1. b \in Block2
      BY <2>1, ElementOfSeq
    <3> HIDE DEF b
    <3>2. /\ Frame(b) = <<[frame |-> dataSize(b)]>> /\ dataSize(b) = Len(Record2(b))
          /\ Frame(b) \in Seq(Byte) /\ Record2(b) \in Seq(Byte)
          /\ \A j \in 1 .. Len(Record2(b)) : "blockSize" \in DOMAIN Record2(b)[j] => j = 1
      BY <3>1, UnpackRecord2, OnlyHeaded
    <3> QED
      BY <3>2 DEF b
  <2>5. /\ bodies \in Seq(Seq(Byte)) /\ Len(bodies) = m /\ q \in Seq(Seq(Byte)) /\ Len(q) = m
        /\ \A n \in 1 .. m : /\ bodies[n] = Record2(b2[n])
                             /\ q[n] = <<[frame |-> Len(bodies[n])]>> \o bodies[n]
    <3> DEFINE Z == Seq(Byte)
    <3>1. /\ \A n \in 1 .. m : bodies[n] = Record2(b2[n]) /\ q[n] = Frame(b2[n]) \o Record2(b2[n])
          /\ bodies = [n \in 1 .. m |-> bodies[n]] /\ q = [n \in 1 .. m |-> q[n]]
      BY DEF Frames2
    <3>2. \A n \in 1 .. m : bodies[n] \in Z /\ q[n] \in Z
      <4> SUFFICES ASSUME NEW n \in 1 .. m
                   PROVE  bodies[n] \in Z /\ q[n] \in Z
        OBVIOUS
      <4>1. Frame(b2[n]) \in Seq(Byte) /\ Record2(b2[n]) \in Seq(Byte)
        BY <2>4
      <4>2. Frame(b2[n]) \o Record2(b2[n]) \in Seq(Byte)
        BY <4>1, ConcatProperties
      <4> QED
        BY <3>1, <4>1, <4>2
    <3>3. \A n \in 1 .. m : q[n] = <<[frame |-> Len(bodies[n])]>> \o bodies[n]
      BY <2>4, <3>1
    <3> HIDE DEF Z, bodies, q, m
    <3>4. bodies \in Seq(Z) /\ Len(bodies) = m /\ q \in Seq(Z) /\ Len(q) = m
      <4>1. \A f : f = [n \in 1 .. m |-> f[n]] /\ (\A n \in 1 .. m : f[n] \in Z)
                     => f \in Seq(Z) /\ Len(f) = m
        BY <2>1
      <4> QED
        BY <3>1, <3>2, <4>1
    <3> QED
      BY <3>1, <3>3, <3>4 DEF Z
  <2> HIDE DEF q, bodies
  <2>6. /\ Len(frames) \in Nat /\ DOMAIN frames = 1 .. Len(frames)
        /\ Len(frames) = m => ~AllHeaded(frames)
    <3>1. \A x \in Byte : FrameSized(x)
      BY ByteFields
    <3>2. \A n \in 1 .. Len(q) : \A j \in 1 .. Len(bodies[n]) :
                "blockSize" \in DOMAIN bodies[n][j] => j = 1
      BY <2>4, <2>5
    <3>3. \A n \in 1 .. Len(q) : q[n] = <<[frame |-> Len(bodies[n])]>> \o bodies[n]
      BY <2>5
    <3> DEFINE s == Fetched
    <3>4. s \in Seq(Byte) /\ Len(s) < Len(FlattenSeq(q)) /\ Embeds(e, s, FlattenSeq(q))
      BY <2>2, <2>3
    <3>5. bodies \in Seq(Seq(Byte)) /\ q \in Seq(Seq(Byte)) /\ Len(q) = Len(bodies)
      BY <2>5
    <3> HIDE DEF s, m
    <3>6. /\ Len(Unframe(s)) \in Nat /\ DOMAIN Unframe(s) = 1 .. Len(Unframe(s))
          /\ Len(Unframe(s)) = Len(q) => ~AllHeaded(Unframe(s))
      BY ONLY <3>1, <3>2, <3>3, <3>4, <3>5, FewerFrames
    <3> QED
      BY <2>5, <3>6 DEF s
  <2> HIDE DEF frames
  <2>7. Blocks2(Fetched) = [n \in DOMAIN frames |-> Unpack(frames[n])]
    BY DEF Blocks2, frames
  <2>8. DOMAIN blocks = 1 .. Len(frames) /\ Len(blocks) = Len(frames)
    <3>1. blocks = [n \in 1 .. Len(frames) |-> blocks[n]]
      BY <2>6, <2>7 DEF InPlace
    <3> HIDE DEF blocks
    <3> QED
      BY <2>6, <3>1
  <2>9. CASE Len(frames) # m
    <3>1. ~CountFits(blocks)
      BY <2>8, <2>9 DEF CountFits
    <3> QED
      BY <3>1 DEF test3
  <2>10. CASE Len(frames) = m
    <3>1. blocks = InPlace([n \in DOMAIN frames |-> Unpack(frames[n])])
      BY <2>7
    <3> HIDE DEF blocks, m
    <3>2. /\ m \in Nat /\ Len(frames) = m /\ DOMAIN frames = 1 .. m /\ ~AllHeaded(frames)
      BY <2>1, <2>6, <2>10
    <3>3. /\ \E n \in DOMAIN blocks : blocks[n] = Bad
          /\ Decompress(Pieces2, 0, Bad) = Exit
      BY <3>1, <3>2, PlaceLeft
    <3>4. \E n \in DOMAIN plain : plain[n] = Exit
      BY <3>3
    <3> HIDE DEF plain
    <3>5. Exit \in Range(plain)
      BY <3>4 DEF Range
    <3> QED
      BY <3>5 DEF test3, plain, blocks
  <2> QED
    BY <2>9, <2>10
<1> QED
  BY <1>1, QueueInvariant, PTL

=============================================================================
