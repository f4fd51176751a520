--------------------------- MODULE Policy_proofs ---------------------------
(***************************************************************************)
(* What holds of the policy for every table of speeds.                     *)
(***************************************************************************)
EXTENDS Policy, FiniteSetTheorems, WellFoundedInduction, TLAPS

LEMMA LeastNumber ==
  ASSUME NEW T \in SUBSET Nat, T # {}
  PROVE  \E m \in T : \A k \in T : m <= k
<1> DEFINE R == OpToRel(<, Nat)
<1>1. IsWellFoundedOn(R, Nat)
  BY NatLessThanWellFounded
<1>2. \A x, y \in Nat : y < x => <<y, x>> \in R
  BY DEF OpToRel
<1> HIDE DEF R
<1>3. PICK m \in T : \A k \in T : ~(<<k, m>> \in R)
  BY <1>1, WFMin, Zenon
<1>4. \A k \in T : ~(k < m)
  BY <1>2, <1>3
<1> QED
  BY <1>4

(* Euclid's algorithm: gcd is what its recursion says, by induction on the *)
(* second number.                                                          *)
GcdStep(g, a, b) == IF b = 0 THEN a ELSE g[<<b, a % b>>]

IsGcd(g) ==
  g = [p \in Nat \X Nat |-> IF p[2] = 0 THEN p[1] ELSE g[<<p[2], p[1] % p[2]>>]]

Upto(h, n) == \A a \in Nat, b \in 0 .. n : h[<<a, b>>] = GcdStep(h, a, b)

LEMMA Remainder ==
  ASSUME NEW a \in Nat, NEW b \in Nat, b # 0
  PROVE  a % b \in 0 .. b - 1
  OBVIOUS

LEMMA UptoExists ==
  ASSUME NEW n \in Nat
  PROVE  \E h : Upto(h, n)
<1> DEFINE Bad == {k \in Nat : ~\E h : Upto(h, k)}
<1>1. ASSUME Bad # {}
      PROVE  FALSE
  <2>1. PICK m \in Bad : \A k \in Bad : m <= k
    <3> HIDE DEF Bad
    <3>1. Bad \in SUBSET Nat
      BY DEF Bad
    <3> QED
      BY <1>1, <3>1, LeastNumber
  <2>2. m \in Nat /\ ~\E h : Upto(h, m)
    OBVIOUS
  <2>3. CASE m = 0
    <3> DEFINE h == [p \in Nat \X Nat |-> p[1]]
    <3>3. \A a \in Nat : h[<<a, 0>>] = a
      OBVIOUS
    <3> HIDE DEF h
    <3>1. Upto(h, 0)
      BY <3>3 DEF Upto, GcdStep
    <3> QED
      BY <2>2, <2>3, <3>1
  <2>4. CASE m # 0
    <3>1. m - 1 \in Nat /\ m - 1 \notin Bad
      BY <2>1, <2>4
    <3>2. PICK h : Upto(h, m - 1)
      BY <3>1
    <3> DEFINE k == [p \in Nat \X Nat |->
                       IF p[2] <= m - 1 THEN h[p] ELSE GcdStep(h, p[1], p[2])]
    <3>3. \A a \in Nat, b \in 0 .. m - 1 : k[<<a, b>>] = h[<<a, b>>]
      OBVIOUS
    <3>4. \A a \in Nat, b \in 0 .. m : k[<<a, b>>] = GcdStep(h, a, b)
      <4> SUFFICES ASSUME NEW a \in Nat, NEW b \in 0 .. m
                   PROVE  k[<<a, b>>] = GcdStep(h, a, b)
        OBVIOUS
      <4>1. <<a, b>> \in Nat \X Nat
        BY <2>2
      <4>2. k[<<a, b>>] = IF b <= m - 1 THEN h[<<a, b>>] ELSE GcdStep(h, a, b)
        BY <4>1
      <4> HIDE DEF k
      <4>3. b <= m - 1 => b \in 0 .. m - 1
        BY <2>2
      <4> QED
        BY <3>2, <4>2, <4>3 DEF Upto
    <3> HIDE DEF k
    <3>5. \A a \in Nat, b \in 0 .. m : GcdStep(k, a, b) = GcdStep(h, a, b)
      <4> SUFFICES ASSUME NEW a \in Nat, NEW b \in 0 .. m, b # 0
                   PROVE  k[<<b, a % b>>] = h[<<b, a % b>>]
        BY DEF GcdStep
      <4>1. b \in Nat /\ a % b \in 0 .. m - 1
        BY <2>2, Remainder
      <4> QED
        BY <3>3, <4>1
    <3>6. Upto(k, m)
      BY <3>4, <3>5 DEF Upto
    <3> QED
      BY <2>2, <3>6
  <2> QED
    BY <2>3, <2>4
<1> QED
  BY <1>1

LEMMA UptoUnique ==
  ASSUME NEW n \in Nat, NEW h, Upto(h, n), NEW m \in Nat, NEW k, Upto(k, m)
  PROVE  \A a \in Nat, b \in Nat : b <= n /\ b <= m => h[<<a, b>>] = k[<<a, b>>]
<1> DEFINE Bad == {b \in Nat : b <= n /\ b <= m /\ \E a \in Nat : h[<<a, b>>] # k[<<a, b>>]}
<1>1. ASSUME Bad # {}
      PROVE  FALSE
  <2>1. PICK b \in Bad : \A c \in Bad : b <= c
    <3> HIDE DEF Bad
    <3>1. Bad \in SUBSET Nat
      BY DEF Bad
    <3> QED
      BY <1>1, <3>1, LeastNumber
  <2>2. PICK a \in Nat : h[<<a, b>>] # k[<<a, b>>]
    OBVIOUS
  <2>3. /\ b \in Nat /\ b <= n /\ b <= m
        /\ h[<<a, b>>] = GcdStep(h, a, b) /\ k[<<a, b>>] = GcdStep(k, a, b)
    BY DEF Upto
  <2>4. b # 0 /\ h[<<b, a % b>>] # k[<<b, a % b>>]
    BY <2>2, <2>3 DEF GcdStep
  <2>5. a % b \in Nat /\ a % b < b
    BY <2>3, <2>4, Remainder
  <2>6. a % b \in Bad
    BY <2>3, <2>4, <2>5
  <2> QED
    BY <2>1, <2>3, <2>5, <2>6
<1> QED
  BY <1>1

LEMMA GcdExists == \E g : IsGcd(g)
<1> DEFINE H(n) == CHOOSE h : Upto(h, n)
           g == [p \in Nat \X Nat |-> H(p[2])[p]]
<1>1. \A n \in Nat : Upto(H(n), n)
  BY UptoExists
<1>2. \A a \in Nat, b \in Nat : g[<<a, b>>] = H(b)[<<a, b>>]
  OBVIOUS
<1> HIDE DEF H
<1>3. ASSUME NEW a \in Nat, NEW b \in Nat
      PROVE  g[<<a, b>>] = GcdStep(g, a, b)
  <2>1. H(b)[<<a, b>>] = GcdStep(H(b), a, b)
    BY <1>1 DEF Upto
  <2>2. CASE b = 0
    BY <1>2, <2>1, <2>2 DEF GcdStep
  <2>3. CASE b # 0
    <3> DEFINE c == a % b
    <3>1. c \in Nat /\ c < b
      BY <2>3, Remainder
    <3> HIDE DEF c
    <3>2. H(b)[<<b, c>>] = H(c)[<<b, c>>]
      BY <1>1, <3>1, UptoUnique
    <3>3. g[<<b, c>>] = H(c)[<<b, c>>]
      BY <1>2, <3>1
    <3> QED
      BY <1>2, <2>1, <2>3, <3>2, <3>3 DEF GcdStep, c
  <2> QED
    BY <2>2, <2>3
<1>4. g = [p \in Nat \X Nat |-> g[p]]
  OBVIOUS
<1> HIDE DEF g
<1>5. \A p \in Nat \X Nat : g[p] = IF p[2] = 0 THEN p[1] ELSE g[<<p[2], p[1] % p[2]>>]
  <2> SUFFICES ASSUME NEW p \in Nat \X Nat
               PROVE  g[p] = IF p[2] = 0 THEN p[1] ELSE g[<<p[2], p[1] % p[2]>>]
    OBVIOUS
  <2>1. p = <<p[1], p[2]>> /\ p[1] \in Nat /\ p[2] \in Nat
    OBVIOUS
  <2> QED
    BY <1>3, <2>1 DEF GcdStep
<1>6. IsGcd(g)
  BY <1>4, <1>5 DEF IsGcd
<1> QED
  BY <1>6

LEMMA GcdIs ==
  ASSUME NEW a \in Nat, NEW b \in Nat
  PROVE  gcd[<<a, b>>] = IF b = 0 THEN a ELSE gcd[<<b, a % b>>]
<1>1. gcd = CHOOSE g : IsGcd(g)
  BY DEF gcd, IsGcd
<1>2. IsGcd(gcd)
  BY <1>1, GcdExists
<1> DEFINE F(g, p) == IF p[2] = 0 THEN p[1] ELSE g[<<p[2], p[1] % p[2]>>]
<1>3. gcd = [p \in Nat \X Nat |-> F(gcd, p)]
  BY <1>2 DEF IsGcd
<1>4. gcd[<<a, b>>] = F(gcd, <<a, b>>)
  <2> HIDE DEF F
  <2>1. <<a, b>> \in Nat \X Nat
    OBVIOUS
  <2> QED
    BY <1>3, <2>1
<1> QED
  BY <1>4

(* The greatest common divisor divides both numbers.                       *)
Divides(g, n) == \E q \in Nat : n = q * g

LEMMA DividesSum ==
  ASSUME NEW g \in Nat, NEW a \in Nat, NEW b \in Nat, NEW q \in Nat,
         Divides(g, a), Divides(g, b)
  PROVE  Divides(g, q * b + a)
<1>1. PICK u \in Nat : a = u * g
  BY DEF Divides
<1>2. PICK v \in Nat : b = v * g
  BY DEF Divides
<1>3. q * v + u \in Nat /\ q * b + a = (q * v + u) * g
  BY <1>1, <1>2
<1> QED
  BY <1>3 DEF Divides

LEMMA Quotient ==
  ASSUME NEW a \in Nat, NEW b \in Nat \ {0}
  PROVE  a \div b \in Nat /\ a = (a \div b) * b + (a % b)
<1>1. a \div b \in Int /\ a % b \in 0 .. b - 1
  OBVIOUS
<1>2. a = (a \div b) * b + (a % b)
  OBVIOUS
<1>3. a \div b >= 0
  OBVIOUS
<1> QED
  BY <1>1, <1>2, <1>3

LEMMA GcdDivides ==
  ASSUME NEW a \in Nat, NEW b \in Nat, b # 0 \/ a # 0
  PROVE  /\ gcd[<<a, b>>] \in Nat \ {0}
         /\ Divides(gcd[<<a, b>>], a) /\ Divides(gcd[<<a, b>>], b)
<1> DEFINE Good(x, y) == /\ gcd[<<x, y>>] \in Nat \ {0}
                         /\ Divides(gcd[<<x, y>>], x) /\ Divides(gcd[<<x, y>>], y)
           Bad == {y \in Nat : \E x \in Nat : (y # 0 \/ x # 0) /\ ~Good(x, y)}
<1>1. ASSUME Bad # {}
      PROVE  FALSE
  <2>1. PICK y \in Bad : \A z \in Bad : y <= z
    <3> HIDE DEF Bad
    <3>1. Bad \in SUBSET Nat
      BY DEF Bad
    <3> QED
      BY <1>1, <3>1, LeastNumber
  <2>2. PICK x \in Nat : (y # 0 \/ x # 0) /\ ~Good(x, y)
    OBVIOUS
  <2>3. y \in Nat
    OBVIOUS
  <2>4. CASE y = 0
    <3>1. gcd[<<x, y>>] = x
      BY <2>3, <2>4, GcdIs
    <3>2. x = 1 * x /\ y = 0 * x
      BY <2>4
    <3>3. Divides(x, x) /\ Divides(x, y)
      BY <3>2 DEF Divides
    <3> QED
      BY <2>2, <2>4, <3>1, <3>3
  <2>5. CASE y # 0
    <3> DEFINE r == x % y
               q == x \div y
    <3>1. r \in Nat /\ r < y /\ q \in Nat /\ x = q * y + r
      BY <2>3, <2>5, Remainder, Quotient
    <3>2. gcd[<<x, y>>] = gcd[<<y, r>>]
      BY <2>3, <2>5, GcdIs
    <3> HIDE DEF r, q, Good
    <3>3. r \notin Bad
      BY <2>1, <2>3, <3>1
    <3>4. Good(y, r)
      BY <2>3, <2>5, <3>1, <3>3
    <3>5. Divides(gcd[<<y, r>>], q * y + r)
      BY <2>3, <3>1, <3>4, DividesSum DEF Good
    <3> QED
      BY <2>2, <3>1, <3>2, <3>4, <3>5 DEF Good
  <2> QED
    BY <2>4, <2>5
<1> QED
  BY <1>1, b # 0 \/ a # 0

(* Fractions by the value they stand for: Is(a, n, d) says that a is n / d. *)
Rational(a) == a[1] \in Int /\ a[2] \in Nat \ {0}

Is(a, n, d) == Rational(a) /\ a[1] * d = n * a[2]

LEMMA Whole ==
  ASSUME NEW q \in Int, NEW g \in Nat \ {0}
  PROVE  (q * g) \div g = q
  OBVIOUS

LEMMA FracIs ==
  ASSUME NEW n \in Int, NEW d \in Int, d # 0
  PROVE  Is(Frac(n, d), n, d)
<1> DEFINE g == gcd[<<Abs(n), Abs(d)>>]
<1>1. Abs(n) \in Nat /\ Abs(d) \in Nat /\ Abs(d) # 0
  BY DEF Abs
<1>2. g \in Nat \ {0} /\ Divides(g, Abs(n)) /\ Divides(g, Abs(d))
  BY <1>1, GcdDivides
<1>f. Frac(n, d) = IF d < 0 THEN <<-(n \div g), -(d \div g)>> ELSE <<n \div g, d \div g>>
  BY DEF Frac
<1> HIDE DEF g
<1>3. PICK u \in Int : n = u * g
  <2>1. PICK q \in Nat : Abs(n) = q * g
    BY <1>2 DEF Divides
  <2>2. n = q * g \/ n = (-q) * g
    BY <1>2, <2>1 DEF Abs
  <2> QED
    BY <2>2
<1>4. PICK v \in Int : d = v * g
  <2>1. PICK q \in Nat : Abs(d) = q * g
    BY <1>2 DEF Divides
  <2>2. d = q * g \/ d = (-q) * g
    BY <1>2, <2>1 DEF Abs
  <2> QED
    BY <2>2
<1>5. n \div g = u /\ d \div g = v
  BY <1>2, <1>3, <1>4, Whole
<1>6. (d < 0 => v < 0) /\ (d > 0 => v > 0)
  BY <1>2, <1>4
<1>7. Frac(n, d) = IF d < 0 THEN <<-u, -v>> ELSE <<u, v>>
  BY <1>f, <1>5
<1>8. CASE d < 0
  <2>1. -u \in Int /\ -v \in Nat \ {0} /\ (-u) * d = n * (-v)
    BY <1>2, <1>3, <1>4, <1>6, <1>8
  <2> QED
    BY <1>7, <1>8, <2>1 DEF Is, Rational
<1>9. CASE d > 0
  <2>1. u \in Int /\ v \in Nat \ {0} /\ u * d = n * v
    BY <1>2, <1>3, <1>4, <1>6, <1>9
  <2>2. ~(d < 0)
    BY <1>9
  <2> QED
    BY <1>7, <2>1, <2>2 DEF Is, Rational
<1> QED
  BY <1>8, <1>9

LEMMA Cancel ==
  ASSUME NEW x \in Int, NEW y \in Int, NEW k \in Int, k # 0, x * k = y * k
  PROVE  x = y
  OBVIOUS

LEMMA Nonzero ==
  ASSUME NEW x \in Int, NEW y \in Int, x # 0, y # 0
  PROVE  x * y \in Int /\ x * y # 0
  OBVIOUS

N(n) == <<n, 1>>

LEMMA NumberIs ==
  ASSUME NEW n \in Int
  PROVE  Is(N(n), n, 1)
  BY DEF N, Is, Rational

LEMMA Scale ==
  ASSUME NEW a, NEW n \in Int, NEW d \in Int, NEW k \in Int, Is(a, n, d)
  PROVE  Is(a, n * k, d * k)
<1>1. a[1] \in Int /\ a[2] \in Int /\ a[1] * d = n * a[2]
  BY DEF Is, Rational
<1>2. a[1] * (d * k) = (a[1] * d) * k /\ (n * k) * a[2] = (n * a[2]) * k
  BY <1>1
<1> QED
  BY <1>1, <1>2 DEF Is

LEMMA Reduce ==
  ASSUME NEW a, NEW n \in Int, NEW d \in Int, NEW k \in Int, k # 0, Is(a, n * k, d * k)
  PROVE  Is(a, n, d)
<1>1. a[1] \in Int /\ a[2] \in Int /\ a[1] * (d * k) = (n * k) * a[2]
  BY DEF Is, Rational
<1>2. a[1] * (d * k) = (a[1] * d) * k /\ (n * k) * a[2] = (n * a[2]) * k
  BY <1>1
<1>3. a[1] * d \in Int /\ n * a[2] \in Int
  BY <1>1
<1>4. a[1] * d = n * a[2]
  <2> DEFINE x == a[1] * d
             y == n * a[2]
  <2>1. x \in Int /\ y \in Int /\ x * k = y * k
    BY <1>1, <1>2, <1>3
  <2> HIDE DEF x, y
  <2>2. x = y
    BY <2>1, Cancel, Zenon
  <2> QED
    BY <2>2 DEF x, y
<1> QED
  BY <1>4 DEF Is

LEMMA IsUnique ==
  ASSUME NEW a, NEW n \in Int, NEW k \in Int, NEW d \in Int, Is(a, n, d), Is(a, k, d)
  PROVE  n = k
<1>1. a[2] \in Int /\ a[2] # 0 /\ n * a[2] = k * a[2]
  BY DEF Is, Rational
<1> QED
  BY <1>1, Cancel

(* What the operators on fractions compute.                                *)
LEMMA IsPlus ==
  ASSUME NEW a, NEW b, NEW n \in Int, NEW k \in Int, NEW d \in Int, Is(a, n, d), Is(b, k, d)
  PROVE  Is(a (+) b, n + k, d)
<1> DEFINE a1 == a[1]
           a2 == a[2]
           b1 == b[1]
           b2 == b[2]
           f == a (+) b
           f1 == f[1]
           f2 == f[2]
<1>1. /\ a1 \in Int /\ a2 \in Int /\ a2 # 0 /\ b1 \in Int /\ b2 \in Int /\ b2 # 0
      /\ a1 * d = n * a2 /\ b1 * d = k * b2
  BY DEF Is, Rational
<1>2. f = Frac(a1 * b2 + b1 * a2, a2 * b2)
  BY DEF (+)
<1> HIDE DEF a1, a2, b1, b2, f
<1>3. a2 * b2 \in Int /\ a2 * b2 # 0 /\ a1 * b2 + b1 * a2 \in Int
  BY <1>1, Nonzero
<1>4. Is(f, a1 * b2 + b1 * a2, a2 * b2)
  BY <1>2, <1>3, FracIs
<1>5. Rational(f) /\ f1 \in Int /\ f2 \in Int /\ f1 * (a2 * b2) = (a1 * b2 + b1 * a2) * f2
  BY <1>4 DEF Is, Rational
<1> HIDE DEF f1, f2
<1>6. (a1 * b2 + b1 * a2) * d = (n + k) * (a2 * b2)
  <2>1. (a1 * b2 + b1 * a2) * d = (a1 * d) * b2 + (b1 * d) * a2
    BY <1>1
  <2>2. (n + k) * (a2 * b2) = (n * a2) * b2 + (k * b2) * a2
    BY <1>1
  <2> QED
    BY <1>1, <2>1, <2>2
<1>7. (f1 * d) * (a2 * b2) = ((n + k) * f2) * (a2 * b2)
  <2>1. (f1 * d) * (a2 * b2) = (f1 * (a2 * b2)) * d
    BY <1>3, <1>5
  <2>2. ((a1 * b2 + b1 * a2) * f2) * d = ((a1 * b2 + b1 * a2) * d) * f2
    BY <1>3, <1>5
  <2>3. ((n + k) * (a2 * b2)) * f2 = ((n + k) * f2) * (a2 * b2)
    BY <1>3, <1>5
  <2> QED
    BY <1>5, <1>6, <2>1, <2>2, <2>3
<1>8. f1 * d \in Int /\ (n + k) * f2 \in Int
  BY <1>5
<1>9. f1 * d = (n + k) * f2
  BY <1>3, <1>7, <1>8, Cancel
<1> QED
  BY <1>5, <1>9 DEF Is, f1, f2, f

LEMMA IsMinus ==
  ASSUME NEW a, NEW b, NEW n \in Int, NEW k \in Int, NEW d \in Int, Is(a, n, d), Is(b, k, d)
  PROVE  Is(a (-) b, n - k, d)
<1> DEFINE a1 == a[1]
           a2 == a[2]
           b1 == b[1]
           b2 == b[2]
           f == a (-) b
           f1 == f[1]
           f2 == f[2]
<1>1. /\ a1 \in Int /\ a2 \in Int /\ a2 # 0 /\ b1 \in Int /\ b2 \in Int /\ b2 # 0
      /\ a1 * d = n * a2 /\ b1 * d = k * b2
  BY DEF Is, Rational
<1>2. f = Frac(a1 * b2 - b1 * a2, a2 * b2)
  BY DEF (-)
<1> HIDE DEF a1, a2, b1, b2, f
<1>3. a2 * b2 \in Int /\ a2 * b2 # 0 /\ a1 * b2 - b1 * a2 \in Int
  BY <1>1, Nonzero
<1>4. Is(f, a1 * b2 - b1 * a2, a2 * b2)
  BY <1>2, <1>3, FracIs
<1>5. Rational(f) /\ f1 \in Int /\ f2 \in Int /\ f1 * (a2 * b2) = (a1 * b2 - b1 * a2) * f2
  BY <1>4 DEF Is, Rational
<1> HIDE DEF f1, f2
<1>6. (a1 * b2 - b1 * a2) * d = (n - k) * (a2 * b2)
  <2>1. (a1 * b2 - b1 * a2) * d = (a1 * d) * b2 - (b1 * d) * a2
    BY <1>1
  <2>2. (n - k) * (a2 * b2) = (n * a2) * b2 - (k * b2) * a2
    BY <1>1
  <2> QED
    BY <1>1, <2>1, <2>2
<1>7. (f1 * d) * (a2 * b2) = ((n - k) * f2) * (a2 * b2)
  <2>1. (f1 * d) * (a2 * b2) = (f1 * (a2 * b2)) * d
    BY <1>3, <1>5
  <2>2. ((a1 * b2 - b1 * a2) * f2) * d = ((a1 * b2 - b1 * a2) * d) * f2
    BY <1>3, <1>5
  <2>3. ((n - k) * (a2 * b2)) * f2 = ((n - k) * f2) * (a2 * b2)
    BY <1>3, <1>5
  <2> QED
    BY <1>5, <1>6, <2>1, <2>2, <2>3
<1>8. f1 * d \in Int /\ (n - k) * f2 \in Int
  BY <1>5
<1>9. f1 * d = (n - k) * f2
  BY <1>3, <1>7, <1>8, Cancel
<1> QED
  BY <1>5, <1>9 DEF Is, f1, f2, f

LEMMA IsTimes ==
  ASSUME NEW a, NEW b, NEW n \in Int, NEW d \in Int, NEW k \in Int, NEW e \in Int,
         Is(a, n, d), Is(b, k, e)
  PROVE  Is(a (.) b, n * k, d * e)
<1> DEFINE a1 == a[1]
           a2 == a[2]
           b1 == b[1]
           b2 == b[2]
           f == a (.) b
           f1 == f[1]
           f2 == f[2]
<1>1. /\ a1 \in Int /\ a2 \in Int /\ a2 # 0 /\ b1 \in Int /\ b2 \in Int /\ b2 # 0
      /\ a1 * d = n * a2 /\ b1 * e = k * b2
  BY DEF Is, Rational
<1>2. f = Frac(a1 * b1, a2 * b2)
  BY DEF (.)
<1> HIDE DEF a1, a2, b1, b2, f
<1>3. a2 * b2 \in Int /\ a2 * b2 # 0 /\ a1 * b1 \in Int
  BY <1>1, Nonzero
<1>4. Is(f, a1 * b1, a2 * b2)
  BY <1>2, <1>3, FracIs
<1>5. Rational(f) /\ f1 \in Int /\ f2 \in Int /\ f1 * (a2 * b2) = (a1 * b1) * f2
  BY <1>4 DEF Is, Rational
<1> HIDE DEF f1, f2
<1>6. (a1 * b1) * (d * e) = (n * k) * (a2 * b2)
  <2>1. (a1 * b1) * (d * e) = (a1 * d) * (b1 * e)
    BY <1>1
  <2>2. (n * k) * (a2 * b2) = (n * a2) * (k * b2)
    BY <1>1
  <2> QED
    BY <1>1, <2>1, <2>2
<1>7. (f1 * (d * e)) * (a2 * b2) = ((n * k) * f2) * (a2 * b2)
  <2>1. (f1 * (d * e)) * (a2 * b2) = (f1 * (a2 * b2)) * (d * e)
    BY <1>3, <1>5
  <2>2. ((a1 * b1) * f2) * (d * e) = ((a1 * b1) * (d * e)) * f2
    BY <1>3, <1>5
  <2>3. ((n * k) * (a2 * b2)) * f2 = ((n * k) * f2) * (a2 * b2)
    BY <1>3, <1>5
  <2> QED
    BY <1>5, <1>6, <2>1, <2>2, <2>3
<1>8. f1 * (d * e) \in Int /\ (n * k) * f2 \in Int
  BY <1>5
<1>9. f1 * (d * e) = (n * k) * f2
  BY <1>3, <1>7, <1>8, Cancel
<1> QED
  BY <1>5, <1>9 DEF Is, f1, f2, f

LEMMA IsOver ==
  ASSUME NEW a, NEW b, NEW n \in Int, NEW d \in Int, NEW k \in Int, NEW e \in Int,
         k # 0, e # 0, Is(a, n, d), Is(b, k, e)
  PROVE  Is(a (/) b, n * e, d * k)
<1> DEFINE a1 == a[1]
           a2 == a[2]
           b1 == b[1]
           b2 == b[2]
           f == a (/) b
           f1 == f[1]
           f2 == f[2]
<1>1. /\ a1 \in Int /\ a2 \in Int /\ a2 # 0 /\ b1 \in Int /\ b2 \in Int /\ b2 # 0
      /\ a1 * d = n * a2 /\ b1 * e = k * b2
  BY DEF Is, Rational
<1>2. f = Frac(a1 * b2, a2 * b1)
  BY DEF (/)
<1> HIDE DEF a1, a2, b1, b2, f
<1>b. b1 # 0
  BY <1>1, Nonzero
<1>3. a2 * b1 \in Int /\ a2 * b1 # 0 /\ a1 * b2 \in Int
  BY <1>1, <1>b, Nonzero
<1>4. Is(f, a1 * b2, a2 * b1)
  BY <1>2, <1>3, FracIs
<1>5. Rational(f) /\ f1 \in Int /\ f2 \in Int /\ f1 * (a2 * b1) = (a1 * b2) * f2
  BY <1>4 DEF Is, Rational
<1> HIDE DEF f1, f2
<1>6. (a1 * b2) * (d * k) = (n * e) * (a2 * b1)
  <2>1. (a1 * b2) * (d * k) = (a1 * d) * (k * b2)
    BY <1>1
  <2>2. (n * e) * (a2 * b1) = (n * a2) * (b1 * e)
    BY <1>1
  <2> QED
    BY <1>1, <2>1, <2>2
<1>7. (f1 * (d * k)) * (a2 * b1) = ((n * e) * f2) * (a2 * b1)
  <2>1. (f1 * (d * k)) * (a2 * b1) = (f1 * (a2 * b1)) * (d * k)
    BY <1>3, <1>5
  <2>2. ((a1 * b2) * f2) * (d * k) = ((a1 * b2) * (d * k)) * f2
    BY <1>3, <1>5
  <2>3. ((n * e) * (a2 * b1)) * f2 = ((n * e) * f2) * (a2 * b1)
    BY <1>3, <1>5
  <2> QED
    BY <1>5, <1>6, <2>1, <2>2, <2>3
<1>8. f1 * (d * k) \in Int /\ (n * e) * f2 \in Int
  BY <1>5
<1>9. f1 * (d * k) = (n * e) * f2
  BY <1>3, <1>7, <1>8, Cancel
<1> QED
  BY <1>5, <1>9 DEF Is, f1, f2, f

(* Order, and conversion to whole bytes.                                   *)
LEMMA MulLess ==
  ASSUME NEW x \in Int, NEW y \in Int, NEW k \in Int, k > 0
  PROVE  x * k < y * k <=> x < y
  OBVIOUS

LEMMA IsLess ==
  ASSUME NEW a, NEW b, NEW n \in Int, NEW k \in Int, NEW d \in Nat \ {0},
         Is(a, n, d), Is(b, k, d)
  PROVE  a \prec b <=> n < k
<1> DEFINE a1 == a[1]
           a2 == a[2]
           b1 == b[1]
           b2 == b[2]
<1>1. /\ a1 \in Int /\ a2 \in Int /\ a2 > 0 /\ b1 \in Int /\ b2 \in Int /\ b2 > 0
      /\ a1 * d = n * a2 /\ b1 * d = k * b2
  BY DEF Is, Rational
<1>2. a \prec b <=> a1 * b2 < b1 * a2
  BY DEF \prec
<1> HIDE DEF a1, a2, b1, b2
<1>3. a1 * b2 \in Int /\ b1 * a2 \in Int /\ a2 * b2 \in Int /\ a2 * b2 > 0
  <2>1. a2 * b2 > 0
    BY <1>1
  <2> QED
    BY <1>1, <2>1
<1>4. (a1 * b2) * d = n * (a2 * b2) /\ (b1 * a2) * d = k * (a2 * b2)
  <2>1. (a1 * b2) * d = (a1 * d) * b2 /\ (b1 * a2) * d = (b1 * d) * a2
    BY <1>1
  <2>2. n * (a2 * b2) = (n * a2) * b2 /\ k * (a2 * b2) = (k * b2) * a2
    BY <1>1
  <2> QED
    BY <1>1, <2>1, <2>2
<1>5. (a1 * b2) * d < (b1 * a2) * d <=> a1 * b2 < b1 * a2
  BY <1>3, MulLess
<1>6. n * (a2 * b2) < k * (a2 * b2) <=> n < k
  BY <1>3, MulLess
<1> QED
  BY <1>2, <1>4, <1>5, <1>6

(* The part of a grant that reaches a stage: one below zero is refused.    *)
Granted(g) == IF Trunc(g) >= 0 THEN Trunc(g) ELSE 0

LEMMA TruncType ==
  ASSUME NEW a, Rational(a)
  PROVE  Trunc(a) \in Int
<1>1. a[1] \in Int /\ -a[1] \in Int /\ a[2] \in Int /\ a[2] > 0
  BY DEF Rational
<1>2. (-a[1]) \div a[2] \in Int /\ a[1] \div a[2] \in Int
  BY <1>1
<1> QED
  BY <1>2 DEF Trunc

LEMMA FloorDiv ==
  ASSUME NEW a \in Nat, NEW b \in Nat \ {0}
  PROVE  a \div b \in Nat /\ a < (a \div b) * b + b
<1>1. a \div b \in Nat /\ a % b \in 0 .. b - 1
  BY Remainder, Quotient
<1>2. a = (a \div b) * b + (a % b)
  BY Quotient
<1>3. (a \div b) * b \in Int
  BY <1>1
<1> QED
  BY <1>1, <1>2, <1>3

(* It falls short of the fraction n / d by less than one.                  *)
LEMMA GrantedIs ==
  ASSUME NEW a, NEW n \in Int, NEW d \in Nat \ {0}, Is(a, n, d)
  PROVE  Granted(a) \in Nat /\ Granted(a) * d > n - d
<1> DEFINE a1 == a[1]
           a2 == a[2]
           q == a1 \div a2
<1>1. a1 \in Int /\ a2 \in Nat \ {0} /\ a1 * d = n * a2
  BY DEF Is, Rational
<1>2. Trunc(a) \in Int
  BY TruncType DEF Is
<1>3. Granted(a) \in Nat
  BY <1>2 DEF Granted
<1>t. a1 >= 0 => Trunc(a) = q
  BY <1>1 DEF Trunc
<1> HIDE DEF a1, a2
<1>4. CASE a1 < 0
  <2>1. a1 * d < 0
    BY <1>1, <1>4
  <2>2. n < 0
    <3>1. n * a2 < 0
      BY <1>1, <2>1
    <3> QED
      BY <1>1, <3>1
  <2>3. Granted(a) * d \in Int /\ Granted(a) * d >= 0
    BY <1>3
  <2> QED
    BY <1>3, <2>2, <2>3
<1>5. CASE a1 >= 0
  <2>1. q \in Nat /\ a1 < q * a2 + a2
    BY <1>1, <1>5, FloorDiv
  <2> HIDE DEF q
  <2>2. Granted(a) = q
    BY <1>5, <1>t, <2>1 DEF Granted
  <2>3. (q + 1) * a2 = q * a2 + a2 /\ (q + 1) * a2 \in Int
    BY <1>1, <2>1
  <2>4. a1 * d < ((q + 1) * a2) * d
    BY <1>1, <2>1, <2>3, MulLess
  <2>5. ((q + 1) * a2) * d = ((q + 1) * d) * a2 /\ (q + 1) * d = q * d + d
    BY <1>1, <2>1
  <2>6. (q + 1) * d \in Int /\ q * d \in Int
    BY <2>1
  <2>7. n * a2 < ((q + 1) * d) * a2
    BY <1>1, <2>4, <2>5
  <2>8. n < (q + 1) * d
    BY <1>1, <2>6, <2>7, MulLess
  <2> QED
    BY <1>3, <2>2, <2>5, <2>6, <2>8
<1> QED
  BY <1>1, <1>4, <1>5

(* Three grants of n, k and l parts of d, which add up to the whole of D,  *)
(* reach the stage but for less than three bytes.                          *)
LEMMA ThreeGrants ==
  ASSUME NEW d \in Nat \ {0}, NEW D \in Int,
         NEW a, NEW b, NEW c, NEW n \in Int, NEW k \in Int, NEW l \in Int,
         Is(a, n, d), Is(b, k, d), Is(c, l, d), n + k + l >= D * d
  PROVE  Granted(a) + Granted(b) + Granted(c) > D - 3
<1> DEFINE u == Granted(a)
           v == Granted(b)
           w == Granted(c)
<1>1. /\ u \in Nat /\ u * d > n - d
      /\ v \in Nat /\ v * d > k - d
      /\ w \in Nat /\ w * d > l - d
  BY GrantedIs
<1> HIDE DEF u, v, w
<1>2. (u + v + w + 3) * d = u * d + v * d + w * d + 3 * d
  BY <1>1
<1>3. u * d \in Int /\ v * d \in Int /\ w * d \in Int /\ D * d \in Int /\ u + v + w + 3 \in Int
  BY <1>1
<1>4. D * d < (u + v + w + 3) * d
  BY <1>1, <1>2, <1>3
<1>5. D < u + v + w + 3
  BY <1>3, <1>4, MulLess
<1>6. u + v + w > D - 3
  BY <1>1, <1>5
<1> QED
  BY <1>6 DEF u, v, w

(* Some products and quotients of the plans.                               *)
LEMMA TimesNumber ==
  ASSUME NEW a, NEW n \in Int, NEW d \in Int, NEW k \in Int, Is(a, n, d)
  PROVE  Is(a (.) N(k), n * k, d)
<1>1. Is(a (.) N(k), n * k, d * 1)
  BY NumberIs, IsTimes
<1> QED
  BY <1>1

LEMMA NumberOver ==
  ASSUME NEW n \in Int, NEW k \in Int, k # 0
  PROVE  Is(N(n) (/) N(k), n, k)
<1>1. Is(N(n) (/) N(k), n * 1, 1 * k)
  BY NumberIs, IsOver
<1> QED
  BY <1>1

LEMMA NumberParts ==
  ASSUME NEW n \in Int, NEW d \in Int
  PROVE  Is(N(n), n * d, d)
<1>1. Is(N(n), n, 1) /\ 1 \in Int
  BY NumberIs
<1>2. Is(N(n), n * d, 1 * d)
  BY <1>1, Scale, Zenon
<1> QED
  BY <1>2

LEMMA OneIs ==
  ASSUME NEW d \in Nat \ {0}
  PROVE  Is(<<1, 1>>, d, d) /\ Is(<<0, 1>>, 0, d)
<1>1. Is(N(1), 1 * d, d) /\ Is(N(0), 0 * d, d)
  BY NumberParts, 0 \in Int, 1 \in Int
<1> QED
  BY <1>1 DEF N

(* A quotient over a whole number, as so many parts of a positive number.  *)
InParts(f, n, d, k) ==
  \E K \in Nat \ {0}, w \in Int : Is(f, w, d * K) /\ w * k = n * K

LEMMA OverNumber ==
  ASSUME NEW a, NEW b, NEW n \in Int, NEW d \in Nat \ {0}, NEW k \in Int, k # 0,
         Is(a, n, d), Is(b, k, 1)
  PROVE  InParts(a (/) b, n, d, k)
<1>1. Is(a (/) b, n * 1, d * k)
  BY IsOver
<1>2. CASE k > 0
  <2>1. k \in Nat \ {0} /\ Is(a (/) b, n, d * k) /\ n * k = n * k
    BY <1>1, <1>2
  <2> QED
    BY <2>1 DEF InParts
<1>3. CASE k < 0
  <2>1. -k \in Nat \ {0} /\ -n \in Int /\ (-n) * k = n * (-k)
    BY <1>3
  <2>2. Is(a (/) b, (n * 1) * (-1), (d * k) * (-1))
    <3>1. n * 1 \in Int /\ d * k \in Int /\ -1 \in Int
      OBVIOUS
    <3> QED
      BY <1>1, <3>1, Scale
  <2>3. (n * 1) * (-1) = -n /\ (d * k) * (-1) = d * (-k)
    OBVIOUS
  <2> QED
    BY <2>1, <2>2, <2>3 DEF InParts
<1> QED
  BY <1>2, <1>3

(* The grants of a turn of the three shapes of a method.                   *)
LEMMA TurnGrantIs ==
  ASSUME NEW pools1, NEW pools2, NEW pools3, NEW g1, NEW g2, NEW g3, NEW s \in Stages
  PROVE  TurnGrant(<<Period(pools1, g1), Period(pools2, g2), Period(pools3, g3)>>, s)
           = Granted(g1[s]) + Granted(g2[s]) + Granted(g3[s])
<1> DEFINE p == <<Period(pools1, g1), Period(pools2, g2), Period(pools3, g3)>>
<1>1. /\ p[1][s].credit = Trunc(g1[s])
      /\ p[2][s].credit = Trunc(g2[s])
      /\ p[3][s].credit = Trunc(g3[s])
  BY DEF Period
<1> HIDE DEF p
<1>2. TurnGrant(p, s) = Granted(g1[s]) + Granted(g2[s]) + Granted(g3[s])
  BY <1>1 DEF TurnGrant, Granted
<1> QED
  BY <1>2 DEF p

(* Reading D takes t1, in whichever way t1 is divided over the periods.    *)
LEMMA TogetherCovers ==
  ASSUME NEW D \in Nat, NEW V1 \in Nat \ {0}, NEW C1 \in Nat \ {0}, NEW C2 \in Nat \ {0},
         NEW V3, NEW t, NEW t1, t1 = N(D) (/) N(V1),
         NEW t2, t2 = (N(D) (.) (N(V1) (-) N(C1))) (/) (N(V1) (.) N(C2)),
         NEW s \in 1..2
  PROVE  TurnGrant(Together(N(V1), V3, N(C1), N(C2), t1, t2, t).period, s) > D - 3
<1>1. Is(t1, D, V1)
  BY NumberOver
<1>2. Is(<<1, 1>>, V1, V1) /\ Is(<<0, 1>>, 0, V1)
  BY OneIs
<1>3. CASE s = 1
  <2>1. Is(t1 (.) N(V1), D * V1, V1)
    BY <1>1, TimesNumber
  <2>2. D * V1 \in Int /\ V1 \in Int /\ 0 \in Int /\ D * V1 + V1 + 0 >= D * V1
    OBVIOUS
  <2>3. Granted(t1 (.) N(V1)) + Granted(<<1, 1>>) + Granted(<<0, 1>>) > D - 3
    BY <1>2, <2>1, <2>2, ThreeGrants
  <2> QED
    BY <1>3, <2>3, TurnGrantIs DEF Together, Stages
<1>4. CASE s = 2
  <2>1. Is(t1 (.) N(C1), D * C1, V1)
    BY <1>1, TimesNumber
  <2>2. Is(N(V1) (-) N(C1), V1 - C1, 1)
    BY NumberIs, IsMinus
  <2>3. Is(N(D) (.) (N(V1) (-) N(C1)), D * (V1 - C1), 1)
    <3>1. Is(N(D) (.) (N(V1) (-) N(C1)), D * (V1 - C1), 1 * 1)
      BY <2>2, NumberIs, IsTimes
    <3> QED
      BY <3>1
  <2>4. Is(N(V1) (.) N(C2), V1 * C2, 1)
    BY NumberIs, TimesNumber
  <2>5. V1 * C2 \in Int /\ V1 * C2 # 0 /\ D * (V1 - C1) \in Int
    BY Nonzero
  <2>6. Is(t2, (D * (V1 - C1)) * 1, 1 * (V1 * C2))
    BY <2>3, <2>4, <2>5, IsOver
  <2>7. Is(t2, D * (V1 - C1), V1 * C2)
    BY <2>5, <2>6
  <2>8. Is(t2 (.) N(C2), (D * (V1 - C1)) * C2, V1 * C2)
    BY <2>5, <2>7, TimesNumber
  <2>9. Is(t2 (.) N(C2), D * (V1 - C1), V1)
    <3>1. D * (V1 - C1) \in Int /\ V1 \in Int /\ C2 \in Int /\ C2 # 0
      BY <2>5
    <3> QED
      BY <2>8, <3>1, Reduce, Zenon
  <2>10. D * C1 \in Int /\ 0 \in Int /\ D * C1 + D * (V1 - C1) + 0 >= D * V1
    BY <2>5
  <2>11. Granted(t1 (.) N(C1)) + Granted(t2 (.) N(C2)) + Granted(<<0, 1>>) > D - 3
    BY <1>2, <2>1, <2>5, <2>9, <2>10, ThreeGrants
  <2> QED
    BY <1>4, <2>11, TurnGrantIs DEF Together, Stages
<1> QED
  BY <1>3, <1>4

(* The times to read and to send as parts of one whole M.                  *)
LEMMA CommonTimes ==
  ASSUME NEW D \in Nat, NEW V1 \in Nat \ {0}, NEW t1, t1 = N(D) (/) N(V1),
         NEW t, Rational(t)
  PROVE  \E M \in Nat \ {0}, n \in Int, k \in Int :
           Is(t1, n, M) /\ Is(t, k, M) /\ n * V1 = D * M
<1> DEFINE k == t[1]
           d == t[2]
<1>1. k \in Int /\ d \in Nat \ {0} /\ Is(t, k, d)
  BY DEF Rational, Is
<1> HIDE DEF k, d
<1>2. Is(t1, D, V1)
  BY NumberOver
<1>3. Is(t1, D * d, V1 * d) /\ Is(t, k * V1, d * V1)
  <2>1. D \in Int /\ V1 \in Int /\ k \in Int /\ d \in Int
    BY <1>1
  <2> QED
    BY <1>1, <1>2, <2>1, Scale, Zenon
<1>4. d * V1 = V1 * d /\ (D * d) * V1 = D * (V1 * d)
  BY <1>1
<1>5. V1 * d \in Nat \ {0} /\ D * d \in Int /\ k * V1 \in Int
  BY <1>1, Nonzero
<1> QED
  BY <1>3, <1>4, <1>5

LEMMA ApartCovers ==
  ASSUME NEW D \in Nat, NEW V1 \in Nat \ {0}, NEW C2 \in Nat \ {0}, NEW C3 \in Nat \ {0},
         NEW V3, NEW t, Rational(t), NEW t1, t1 = N(D) (/) N(V1),
         NEW x, x = (N(D) (-) (N(D) (.) (N(C2) (/) N(V1)))) (-) (t (.) N(C2)),
         NEW s \in 1..2
  PROVE  TurnGrant(Apart(N(V1), V3, N(C2), N(C3), t1, x (/) N(C3), t).period, s) > D - 3
<1>1. PICK M \in Nat \ {0}, n \in Int, k \in Int :
        Is(t1, n, M) /\ Is(t, k, M) /\ n * V1 = D * M
  BY CommonTimes
<1>2. Is(<<1, 1>>, M, M) /\ Is(<<0, 1>>, 0, M)
  BY OneIs
<1>3. CASE s = 1
  <2>1. Is(t1 (.) N(V1), n * V1, M)
    BY <1>1, TimesNumber
  <2>2. n * V1 \in Int /\ M \in Int /\ n * V1 + M + M >= D * M
    BY <1>1
  <2>3. Granted(t1 (.) N(V1)) + Granted(<<1, 1>>) + Granted(<<1, 1>>) > D - 3
    BY <1>2, <2>1, <2>2, ThreeGrants
  <2> QED
    BY <1>3, <2>3, TurnGrantIs DEF Apart, Stages
<1>4. CASE s = 2
  <2>1. Is(t1 (.) N(C2), n * C2, M) /\ Is(t (.) N(C2), k * C2, M)
    BY <1>1, TimesNumber
  <2>2. Is(N(D) (.) (N(C2) (/) N(V1)), n * C2, M)
    <3>1. Is(N(C2) (/) N(V1), C2, V1)
      BY NumberOver
    <3>2. Is(N(D) (.) (N(C2) (/) N(V1)), D * C2, 1 * V1)
      BY <3>1, NumberIs, IsTimes
    <3>3. Is(N(D) (.) (N(C2) (/) N(V1)), (D * C2) * M, V1 * M)
      <4>1. D * C2 \in Int /\ 1 * V1 = V1 /\ V1 \in Int /\ M \in Int
        OBVIOUS
      <4>2. Is(N(D) (.) (N(C2) (/) N(V1)), D * C2, V1)
        BY <3>2, <4>1, Zenon
      <4> QED
        BY <4>1, <4>2, Scale, Zenon
    <3>4. (D * C2) * M = (n * C2) * V1 /\ V1 * M = M * V1
      <4>1. (D * C2) * M = (D * M) * C2 /\ (n * C2) * V1 = (n * V1) * C2
        OBVIOUS
      <4> QED
        BY <1>1, <4>1
    <3>5. n * C2 \in Int /\ M \in Int /\ V1 \in Int /\ V1 # 0
      OBVIOUS
    <3>6. Is(N(D) (.) (N(C2) (/) N(V1)), (n * C2) * V1, M * V1)
      BY <3>3, <3>4, Zenon
    <3> QED
      BY <3>5, <3>6, Reduce, Zenon
  <2>3. Is(N(D), D * M, M)
    BY NumberParts
  <2> DEFINE y == D * M - n * C2 - k * C2
  <2>4. n * C2 \in Int /\ k * C2 \in Int /\ D * M \in Int /\ y \in Int
    OBVIOUS
  <2>5. Is(x, y, M)
    <3>1. Is(N(D) (-) (N(D) (.) (N(C2) (/) N(V1))), D * M - n * C2, M)
      BY <2>2, <2>3, <2>4, IsMinus
    <3>2. D * M - n * C2 \in Int
      BY <2>4
    <3> QED
      BY <2>1, <2>4, <3>1, <3>2, IsMinus
  <2>6. Is((x (/) N(C3)) (.) N(C3), y, M)
    <3> HIDE DEF y
    <3>1. Is(N(C3), C3, 1) /\ C3 \in Int /\ C3 # 0 /\ M \in Int
      BY NumberIs
    <3>2. PICK K \in Nat \ {0}, w \in Int : Is(x (/) N(C3), w, M * K) /\ w * C3 = y * K
      <4>1. M \in Nat \ {0} /\ y \in Int
        BY <2>4
      <4>2. InParts(x (/) N(C3), y, M, C3)
        BY <2>5, <3>1, <4>1, OverNumber, Zenon
      <4> QED
        BY <4>2 DEF InParts
    <3>3. K \in Int /\ K # 0 /\ M * K \in Int
      OBVIOUS
    <3>4. Is((x (/) N(C3)) (.) N(C3), w * C3, M * K)
      BY <3>1, <3>2, <3>3, TimesNumber, Zenon
    <3>5. Is((x (/) N(C3)) (.) N(C3), y * K, M * K)
      BY <3>2, <3>4, Zenon
    <3> QED
      BY <2>4, <3>1, <3>3, <3>5, Reduce, Zenon
  <2>7. n * C2 + y + k * C2 >= D * M
    BY <2>4
  <2> HIDE DEF y
  <2>8. Granted(t1 (.) N(C2)) + Granted((x (/) N(C3)) (.) N(C3)) + Granted(t (.) N(C2)) > D - 3
    BY <2>1, <2>4, <2>6, <2>7, ThreeGrants
  <2> QED
    BY <1>4, <2>8, TurnGrantIs DEF Apart, Stages
<1> QED
  BY <1>3, <1>4

LEMMA OverlappingCovers ==
  ASSUME NEW D \in Nat, NEW V1 \in Nat \ {0}, NEW C1 \in Nat \ {0}, NEW C2 \in Nat \ {0},
         C1 # 2 * C2, NEW V3, NEW t, Rational(t), NEW t1, t1 = N(D) (/) N(V1),
         NEW x, x = Overlap(N(D), t1, t, N(C1), N(C2)),
         NEW s \in 1..2
  PROVE  TurnGrant(Overlapping(N(V1), V3, N(C1), N(C2), t1 (-) x, x, t (-) x).period, s) > D - 3
<1>1. PICK M \in Nat \ {0}, n \in Int, k \in Int :
        Is(t1, n, M) /\ Is(t, k, M) /\ n * V1 = D * M
  BY CommonTimes
<1> DEFINE y == D * M - (n + k) * C2
           c == C1 - C2 * 2
<1>2. y \in Int /\ c \in Int /\ c # 0 /\ n + k \in Int /\ (n + k) * C2 \in Int /\ D * M \in Int
  OBVIOUS
<1>3. Is(N(D) (-) ((t1 (+) t) (.) N(C2)), y, M)
  <2>1. Is(t1 (+) t, n + k, M)
    BY <1>1, IsPlus
  <2>2. Is((t1 (+) t) (.) N(C2), (n + k) * C2, M)
    BY <1>2, <2>1, TimesNumber
  <2>3. Is(N(D), D * M, M)
    BY NumberParts
  <2> QED
    BY <1>2, <2>2, <2>3, IsMinus
<1>4. Is(N(C1) (-) (N(C2) (.) <<2, 1>>), c, 1)
  <2>1. Is(N(C2) (.) N(2), C2 * 2, 1)
    BY NumberIs, TimesNumber
  <2>2. Is(N(C2) (.) <<2, 1>>, C2 * 2, 1)
    BY <2>1 DEF N
  <2>3. Is(N(C1), C1, 1) /\ C1 \in Int /\ C2 * 2 \in Int /\ 1 \in Int
    BY NumberIs
  <2> QED
    BY <2>2, <2>3, IsMinus, Zenon
<1> HIDE DEF y, c
<1>5. PICK K \in Nat \ {0}, w \in Int : Is(x, w, M * K) /\ w * c = y * K
  <2>1. x = (N(D) (-) ((t1 (+) t) (.) N(C2))) (/) (N(C1) (-) (N(C2) (.) <<2, 1>>))
    BY DEF Overlap
  <2> QED
    <3>1. M \in Nat \ {0}
      OBVIOUS
    <3>2. InParts(x, y, M, c)
      BY <1>2, <1>3, <1>4, <2>1, <3>1, OverNumber, Zenon
    <3> QED
      BY <3>2 DEF InParts
<1> DEFINE Q == M * K
           p == n * K
           q == k * K
<1>6. Q \in Nat \ {0} /\ p \in Int /\ q \in Int
  BY Nonzero
<1>7. Is(t1, p, Q) /\ Is(t, q, Q)
  <2>1. M \in Int /\ K \in Int
    OBVIOUS
  <2> QED
    BY <1>1, <2>1, Scale, Zenon
<1>8. Is(t1 (-) x, p - w, Q) /\ Is(t (-) x, q - w, Q)
  BY <1>5, <1>6, <1>7, IsMinus
<1>9. p * V1 = D * Q
  <2>1. (n * K) * V1 = (n * V1) * K /\ (D * M) * K = D * (M * K)
    OBVIOUS
  <2> QED
    BY <1>1, <2>1
<1>10. w * (C1 - C2 * 2) = D * Q - (p + q) * C2
  <2>1. (D * M - (n + k) * C2) * K = D * (M * K) - (n * K + k * K) * C2
    OBVIOUS
  <2> QED
    BY <1>5, <2>1 DEF y, c
<1>11. Is(<<1, 1>>, Q, Q)
  BY <1>6, OneIs
<1> HIDE DEF Q, p, q
<1>12. p - w \in Int /\ q - w \in Int
  BY <1>5, <1>6
<1>13. CASE s = 1
  <2>1. Is((t1 (-) x) (.) N(V1), (p - w) * V1, Q) /\ Is(x (.) N(V1), w * V1, Q)
    BY <1>5, <1>6, <1>8, <1>12, TimesNumber DEF Q
  <2>2. (p - w) * V1 \in Int /\ w * V1 \in Int /\ (p - w) * V1 + w * V1 = p * V1
    BY <1>6, <1>12
  <2>3. (p - w) * V1 + w * V1 + Q >= D * Q
    BY <1>6, <1>9, <2>2
  <2>4. Granted((t1 (-) x) (.) N(V1)) + Granted(x (.) N(V1)) + Granted(<<1, 1>>) > D - 3
    BY <1>6, <1>11, <2>1, <2>2, <2>3, ThreeGrants
  <2> QED
    BY <1>13, <2>4, TurnGrantIs DEF Overlapping, Stages
<1>14. CASE s = 2
  <2>1. /\ Is((t1 (-) x) (.) N(C2), (p - w) * C2, Q)
        /\ Is(x (.) N(C1), w * C1, Q)
        /\ Is((t (-) x) (.) N(C2), (q - w) * C2, Q)
    BY <1>5, <1>6, <1>8, <1>12, TimesNumber DEF Q
  <2>2. (p - w) * C2 \in Int /\ w * C1 \in Int /\ (q - w) * C2 \in Int
    BY <1>12
  <2>3. (p - w) * C2 + w * C1 + (q - w) * C2 = (p + q) * C2 + w * (C1 - C2 * 2)
    BY <1>5, <1>6
  <2>4. (p + q) * C2 \in Int /\ D * Q \in Int
    BY <1>6
  <2>5. (p - w) * C2 + w * C1 + (q - w) * C2 >= D * Q
    BY <1>10, <2>3, <2>4
  <2>6. Granted((t1 (-) x) (.) N(C2)) + Granted(x (.) N(C1)) + Granted((t (-) x) (.) N(C2)) > D - 3
    BY <1>6, <2>1, <2>2, <2>5, ThreeGrants
  <2> QED
    BY <1>14, <2>6, TurnGrantIs DEF Overlapping, Stages
<1> QED
  BY <1>13, <1>14

(* solveCT by its three cases.                                             *)
Disk(m) == N(m.D) (/) N(m.V1)

Net(m, cT) == m.alpha[cT] (.) N(m.V3)

Send(m, cT) == N(m.D) (/) Net(m, cT)

Rest(m, cT) == (N(m.D) (.) (N(m.V1) (-) N(m.C[cT][1]))) (/) (N(m.V1) (.) N(m.C[cT][2]))

Alone(m, cT) ==
  (N(m.D) (-) (N(m.D) (.) (N(m.C[cT][2]) (/) N(m.V1)))) (-) (Send(m, cT) (.) N(m.C[cT][2]))

Both(m, cT) == Overlap(N(m.D), Disk(m), Send(m, cT), N(m.C[cT][1]), N(m.C[cT][2]))

PlanTogether(m, cT) ==
  Together(N(m.V1), Net(m, cT), N(m.C[cT][1]), N(m.C[cT][2]), Disk(m), Rest(m, cT), Send(m, cT))

PlanApart(m, cT) ==
  Apart(N(m.V1), Net(m, cT), N(m.C[cT][2]), N(m.C[cT][3]),
        Disk(m), Alone(m, cT) (/) N(m.C[cT][3]), Send(m, cT))

PlanOverlapping(m, cT) ==
  Overlapping(N(m.V1), Net(m, cT), N(m.C[cT][1]), N(m.C[cT][2]),
              Disk(m) (-) Both(m, cT), Both(m, cT), Send(m, cT) (-) Both(m, cT))

LEMMA SolveIs ==
  ASSUME NEW m, NEW cT
  PROVE  \/ solveCT(m, cT) = PlanTogether(m, cT)
         \/ solveCT(m, cT) = PlanApart(m, cT)
         \/ solveCT(m, cT) = PlanOverlapping(m, cT)
<1> DEFINE first == cT \in {0, 3} \/ (Disk(m) (+) Rest(m, cT)) \prec Send(m, cT)
           second == ~(Rest(m, cT) \prec Send(m, cT))
<1>1. solveCT(m, cT) = IF first THEN PlanTogether(m, cT)
                       ELSE IF second THEN PlanApart(m, cT) ELSE PlanOverlapping(m, cT)
  BY DEF solveCT, PlanTogether, PlanApart, PlanOverlapping, Disk, Net, Send, Rest, Alone, Both, N
<1> HIDE DEF first, second
<1> QED
  BY <1>1

(* What IsSetting says of one compression type.                            *)
LEMMA SettingIs ==
  ASSUME NEW m, IsSetting(m), NEW cT \in Types
  PROVE  /\ m.D \in Nat \ {0} /\ m.V1 \in Nat \ {0} /\ m.V3 \in Nat \ {0}
         /\ m.alpha[cT][1] \in Nat \ {0} /\ m.alpha[cT][2] \in Nat \ {0}
         /\ m.C[cT][1] \in Nat \ {0} /\ m.C[cT][2] \in Nat \ {0} /\ m.C[cT][3] \in Nat \ {0}
         /\ m.C[cT][1] # 2 * m.C[cT][2]
<1>1. /\ {m.D, m.V1, m.V3} \subseteq Nat \ {0}
      /\ m.alpha[cT][1] \in Nat \ {0} /\ m.alpha[cT][2] \in Nat \ {0}
      /\ \A n \in 1..3 : m.C[cT][n] \in Nat \ {0}
      /\ m.C[cT][1] # 2 * m.C[cT][2]
  BY DEF IsSetting
<1>2. 1 \in 1..3 /\ 2 \in 1..3 /\ 3 \in 1..3
  OBVIOUS
<1> QED
  BY <1>1, <1>2

(* The speeds and times of a setting.                                      *)
LEMMA SpeedsAre ==
  ASSUME NEW m, IsSetting(m), NEW cT \in Types
  PROVE  /\ Is(Disk(m), m.D, m.V1)
         /\ Is(Net(m, cT), m.alpha[cT][1] * m.V3, m.alpha[cT][2])
         /\ Is(Send(m, cT), m.D * m.alpha[cT][2], m.alpha[cT][1] * m.V3)
<1> DEFINE D == m.D
           V1 == m.V1
           V3 == m.V3
           p == m.alpha[cT][1]
           q == m.alpha[cT][2]
<1>1. D \in Nat \ {0} /\ V1 \in Nat \ {0} /\ V3 \in Nat \ {0} /\ p \in Nat \ {0} /\ q \in Nat \ {0}
  BY SettingIs
<1>2. Is(m.alpha[cT], p, q)
  BY <1>1 DEF Is, Rational
<1>3. Net(m, cT) = m.alpha[cT] (.) N(V3) /\ Send(m, cT) = N(D) (/) Net(m, cT) /\ Disk(m) = N(D) (/) N(V1)
  BY DEF Net, Send, Disk
<1> HIDE DEF D, V1, V3, p, q
<1>4. Is(Disk(m), D, V1)
  BY <1>1, <1>3, NumberOver
<1>5. Is(Net(m, cT), p * V3, q)
  BY <1>1, <1>2, <1>3, TimesNumber
<1>6. p * V3 \in Int /\ p * V3 # 0 /\ D \in Int /\ 1 \in Int /\ q \in Int /\ q # 0
  BY <1>1, Nonzero
<1>7. Is(N(D), D, 1)
  BY <1>6, NumberIs
<1>8. Is(Send(m, cT), D * q, 1 * (p * V3))
  BY <1>3, <1>5, <1>6, <1>7, IsOver, Zenon
<1>9. 1 * (p * V3) = p * V3
  BY <1>6
<1>10. Is(Send(m, cT), D * q, p * V3)
  BY <1>8, <1>9, Zenon
<1> QED
  BY <1>4, <1>5, <1>10 DEF D, V1, V3, p, q

(* One turn of a computed method covers D.                                 *)
LEMMA SolveCovers ==
  ASSUME NEW m, IsSetting(m), NEW cT \in Types, NEW s \in 1..2
  PROVE  TurnGrant(solveCT(m, cT).period, s) > m.D - 3
<1>1. /\ m.D \in Nat /\ m.V1 \in Nat \ {0}
      /\ m.C[cT][1] \in Nat \ {0} /\ m.C[cT][2] \in Nat \ {0} /\ m.C[cT][3] \in Nat \ {0}
      /\ m.C[cT][1] # 2 * m.C[cT][2]
  BY SettingIs
<1>2. Rational(Send(m, cT))
  BY SpeedsAre DEF Is
<1>3. TurnGrant(PlanTogether(m, cT).period, s) > m.D - 3
  BY <1>1, TogetherCovers DEF PlanTogether, Disk, Rest
<1>4. TurnGrant(PlanApart(m, cT).period, s) > m.D - 3
  BY <1>1, <1>2, ApartCovers DEF PlanApart, Disk, Alone
<1>5. TurnGrant(PlanOverlapping(m, cT).period, s) > m.D - 3
  BY <1>1, <1>2, OverlappingCovers DEF PlanOverlapping, Disk, Both
<1> QED
  BY <1>3, <1>4, <1>5, SolveIs

(* The operators keep to fractions.                                        *)
LEMMA RationalIs ==
  ASSUME NEW a, Rational(a)
  PROVE  a[1] \in Int /\ a[2] \in Int /\ a[2] # 0 /\ Is(a, a[1], a[2])
  BY DEF Is, Rational

LEMMA RationalTimes ==
  ASSUME NEW a, Rational(a), NEW b, Rational(b)
  PROVE  Rational(a (.) b)
<1>1. Is(a (.) b, a[1] * b[1], a[2] * b[2])
  BY RationalIs, IsTimes
<1> QED
  BY <1>1 DEF Is

(* Two, and three, fractions over one denominator.                         *)
LEMMA TwoAsParts ==
  ASSUME NEW a, Rational(a), NEW b, Rational(b)
  PROVE  \E d \in Nat \ {0}, n \in Int, k \in Int : Is(a, n, d) /\ Is(b, k, d)
<1> DEFINE a1 == a[1]
           a2 == a[2]
           b1 == b[1]
           b2 == b[2]
<1>1. /\ a1 \in Int /\ a2 \in Nat \ {0} /\ b1 \in Int /\ b2 \in Nat \ {0}
      /\ Is(a, a1, a2) /\ Is(b, b1, b2)
  BY DEF Is, Rational
<1> HIDE DEF a1, a2, b1, b2
<1>2. a2 \in Int /\ b2 \in Int
  BY <1>1
<1>3. Is(a, a1 * b2, a2 * b2) /\ Is(b, b1 * a2, b2 * a2)
  BY <1>1, <1>2, Scale, Zenon
<1>4. a2 * b2 \in Nat \ {0} /\ b2 * a2 = a2 * b2 /\ a1 * b2 \in Int /\ b1 * a2 \in Int
  BY <1>1, Nonzero
<1> QED
  BY <1>3, <1>4

LEMMA ThreeAsParts ==
  ASSUME NEW a, Rational(a), NEW b, Rational(b), NEW c, Rational(c)
  PROVE  \E d \in Nat \ {0}, n \in Int, k \in Int, l \in Int :
           Is(a, n, d) /\ Is(b, k, d) /\ Is(c, l, d)
<1>1. PICK d \in Nat \ {0}, n \in Int, k \in Int : Is(a, n, d) /\ Is(b, k, d)
  BY TwoAsParts
<1> DEFINE c1 == c[1]
           c2 == c[2]
<1>2. c1 \in Int /\ c2 \in Nat \ {0} /\ Is(c, c1, c2)
  BY DEF Is, Rational
<1> HIDE DEF c1, c2
<1>3. c2 \in Int /\ d \in Int
  BY <1>2
<1>4. Is(a, n * c2, d * c2) /\ Is(b, k * c2, d * c2) /\ Is(c, c1 * d, c2 * d)
  BY <1>1, <1>2, <1>3, Scale, Zenon
<1>5. d * c2 \in Nat \ {0} /\ c2 * d = d * c2 /\ n * c2 \in Int /\ k * c2 \in Int /\ c1 * d \in Int
  BY <1>2, Nonzero
<1> QED
  BY <1>4, <1>5

LEMMA RationalSum ==
  ASSUME NEW a, Rational(a), NEW b, Rational(b)
  PROVE  Rational(a (+) b) /\ Rational(a (-) b)
<1>1. PICK d \in Nat \ {0}, n \in Int, k \in Int : Is(a, n, d) /\ Is(b, k, d)
  BY TwoAsParts
<1>2. Is(a (+) b, n + k, d) /\ Is(a (-) b, n - k, d)
  BY <1>1, IsPlus, IsMinus
<1> QED
  BY <1>2 DEF Is

LEMMA RationalOver ==
  ASSUME NEW a, Rational(a), NEW b, NEW k \in Int, k # 0, NEW e \in Int, e # 0, Is(b, k, e)
  PROVE  Rational(a (/) b)
<1>1. Is(a (/) b, a[1] * e, a[2] * k)
  BY RationalIs, IsOver
<1> QED
  BY <1>1 DEF Is

(* Two fractions of one value are the same parts of anything, and stand in *)
(* the same order to others.                                               *)
LEMMA SameParts ==
  ASSUME NEW a, NEW b, NEW n \in Int, NEW d \in Int, d # 0, Is(a, n, d), Is(b, n, d),
         NEW l \in Int, NEW e \in Int, Is(a, l, e)
  PROVE  Is(b, l, e)
<1> DEFINE a1 == a[1]
           a2 == a[2]
           b1 == b[1]
           b2 == b[2]
<1>1. /\ a1 \in Int /\ a2 \in Int /\ a2 # 0 /\ b1 \in Int /\ b2 \in Int /\ b2 # 0
      /\ a1 * d = n * a2 /\ b1 * d = n * b2 /\ a1 * e = l * a2 /\ Rational(b)
  BY DEF Is, Rational
<1> HIDE DEF a1, a2, b1, b2
<1>2. (b1 * a2) * d = (a1 * b2) * d
  <2>1. (b1 * a2) * d = (b1 * d) * a2 /\ (a1 * b2) * d = (a1 * d) * b2
    BY <1>1
  <2>2. (n * b2) * a2 = (n * a2) * b2
    BY <1>1
  <2> QED
    BY <1>1, <2>1, <2>2
<1>3. b1 * a2 \in Int /\ a1 * b2 \in Int /\ b1 * e \in Int /\ l * b2 \in Int
  BY <1>1
<1>4. b1 * a2 = a1 * b2
  BY <1>2, <1>3, Cancel
<1>5. (b1 * e) * a2 = (l * b2) * a2
  <2>1. (b1 * e) * a2 = (b1 * a2) * e /\ (a1 * b2) * e = (a1 * e) * b2
    BY <1>1
  <2>2. (l * a2) * b2 = (l * b2) * a2
    BY <1>1
  <2> QED
    BY <1>1, <1>4, <2>1, <2>2
<1>6. b1 * e = l * b2
  BY <1>1, <1>3, <1>5, Cancel
<1> QED
  BY <1>1, <1>6 DEF Is, b1, b2

LEMMA SameOrder ==
  ASSUME NEW a, NEW b, NEW n \in Int, NEW d \in Int, d # 0, Is(a, n, d), Is(b, n, d),
         NEW c, Rational(c)
  PROVE  c \prec a <=> c \prec b
<1>1. Rational(a)
  BY DEF Is
<1>2. PICK e \in Nat \ {0}, k \in Int, l \in Int : Is(c, k, e) /\ Is(a, l, e)
  BY <1>1, TwoAsParts
<1>3. e \in Int
  OBVIOUS
<1>4. Is(b, l, e)
  BY <1>2, <1>3, SameParts, Zenon
<1> QED
  BY <1>2, <1>4, IsLess

LEMMA ZeroIs ==
  ASSUME NEW d \in Nat \ {0}
  PROVE  Is(<<0, 1>>, 0, d)
  BY OneIs

(* The expected time of each shape of a method.                            *)
LEMMA TogetherBeats ==
  ASSUME NEW t1, Rational(t1), NEW t2, Rational(t2), NEW t, Rational(t), ~(t2 \prec <<0, 1>>)
  PROVE  LET T == Longer(t1 (+) t2, t)
         IN Rational(T) /\ ~(T \prec t1) /\ ~(T \prec t)
<1>1. PICK d \in Nat \ {0}, n \in Int, k \in Int, l \in Int :
        Is(t1, n, d) /\ Is(t2, k, d) /\ Is(t, l, d)
  BY ThreeAsParts
<1> DEFINE u == t1 (+) t2
<1>2. Is(u, n + k, d) /\ n + k \in Int /\ Rational(u)
  BY <1>1, IsPlus, RationalSum
<1> HIDE DEF u
<1>3. k >= 0
  <2>1. ~(k < 0)
    BY <1>1, ZeroIs, IsLess
  <2> QED
    BY <2>1
<1>4. (u \prec t <=> n + k < l) /\ (u \prec t1 <=> n + k < n)
      /\ (t \prec t1 <=> l < n) /\ (t \prec t <=> l < l)
  BY <1>1, <1>2, IsLess
<1>5. CASE u \prec t
  <2>1. Longer(u, t) = t
    BY <1>5 DEF Longer
  <2>2. ~(t \prec t1) /\ ~(t \prec t)
    BY <1>3, <1>4, <1>5
  <2> QED
    BY <2>1, <2>2 DEF u
<1>6. CASE ~(u \prec t)
  <2>1. Longer(u, t) = u
    BY <1>6 DEF Longer
  <2>2. ~(u \prec t1)
    BY <1>3, <1>4
  <2> QED
    BY <1>2, <1>6, <2>1, <2>2 DEF u
<1> QED
  BY <1>5, <1>6

LEMMA ApartBeats ==
  ASSUME NEW t1, Rational(t1), NEW y, Rational(y), NEW t, Rational(t),
         ~(t1 \prec <<0, 1>>), ~(y \prec <<0, 1>>), ~(t \prec <<0, 1>>)
  PROVE  LET T == (t1 (+) y) (+) t
         IN Rational(T) /\ ~(T \prec t1) /\ ~(T \prec t)
<1>1. PICK d \in Nat \ {0}, n \in Int, k \in Int, l \in Int :
        Is(t1, n, d) /\ Is(y, k, d) /\ Is(t, l, d)
  BY ThreeAsParts
<1> DEFINE T == (t1 (+) y) (+) t
<1>2. Is(t1 (+) y, n + k, d) /\ n + k \in Int
  BY <1>1, IsPlus
<1>3. Is(T, (n + k) + l, d) /\ (n + k) + l \in Int
  BY <1>1, <1>2, IsPlus
<1> HIDE DEF T
<1>4. n >= 0 /\ k >= 0 /\ l >= 0
  <2>1. ~(n < 0) /\ ~(k < 0) /\ ~(l < 0)
    BY <1>1, ZeroIs, IsLess
  <2> QED
    BY <2>1
<1>5. (T \prec t1 <=> (n + k) + l < n) /\ (T \prec t <=> (n + k) + l < l)
  BY <1>1, <1>3, IsLess
<1>6. Rational(T) /\ ~(T \prec t1) /\ ~(T \prec t)
  BY <1>3, <1>4, <1>5 DEF Is
<1> QED
  BY <1>6 DEF T

LEMMA OverlappingBeats ==
  ASSUME NEW t1, Rational(t1), NEW x, Rational(x), NEW t, Rational(t),
         ~((t1 (-) x) \prec <<0, 1>>), ~((t (-) x) \prec <<0, 1>>)
  PROVE  LET T == ((t1 (-) x) (+) x) (+) (t (-) x)
         IN Rational(T) /\ ~(T \prec t1) /\ ~(T \prec t)
<1>1. PICK d \in Nat \ {0}, n \in Int, k \in Int, l \in Int :
        Is(t1, n, d) /\ Is(x, k, d) /\ Is(t, l, d)
  BY ThreeAsParts
<1> DEFINE b == t1 (-) x
           c == t (-) x
           T == (b (+) x) (+) c
<1>2. Is(b, n - k, d) /\ Is(c, l - k, d) /\ n - k \in Int /\ l - k \in Int
  BY <1>1, IsMinus
<1> HIDE DEF b, c
<1>3. Is(b (+) x, (n - k) + k, d) /\ (n - k) + k \in Int
  BY <1>1, <1>2, IsPlus
<1>4. Is(T, ((n - k) + k) + (l - k), d) /\ ((n - k) + k) + (l - k) \in Int
  BY <1>2, <1>3, IsPlus
<1> HIDE DEF T
<1>5. n - k >= 0 /\ l - k >= 0
  <2>1. ~(n - k < 0) /\ ~(l - k < 0)
    BY <1>2, ZeroIs, IsLess DEF b, c
  <2> QED
    BY <2>1
<1>6. /\ T \prec t1 <=> ((n - k) + k) + (l - k) < n
      /\ T \prec t <=> ((n - k) + k) + (l - k) < l
  BY <1>1, <1>4, IsLess
<1>7. Rational(T) /\ ~(T \prec t1) /\ ~(T \prec t)
  BY <1>4, <1>5, <1>6 DEF Is
<1> QED
  BY <1>7 DEF T, b, c

(* All times of a computed method are fractions.                           *)
LEMMA TimesRational ==
  ASSUME NEW m, IsSetting(m), NEW cT \in Types
  PROVE  /\ Rational(Disk(m)) /\ Rational(Net(m, cT)) /\ Rational(Send(m, cT))
         /\ Rational(Rest(m, cT)) /\ Rational(Alone(m, cT) (/) N(m.C[cT][3]))
         /\ Rational(Both(m, cT))
<1> DEFINE D == m.D
           V1 == m.V1
           C1 == m.C[cT][1]
           C2 == m.C[cT][2]
           C3 == m.C[cT][3]
<1>1. /\ D \in Int /\ V1 \in Int /\ V1 # 0 /\ C1 \in Int /\ C2 \in Int /\ C2 # 0
      /\ C3 \in Int /\ C3 # 0 /\ C1 # 2 * C2
  BY SettingIs
<1>2. /\ Rest(m, cT) = (N(D) (.) (N(V1) (-) N(C1))) (/) (N(V1) (.) N(C2))
      /\ Alone(m, cT) = (N(D) (-) (N(D) (.) (N(C2) (/) N(V1)))) (-) (Send(m, cT) (.) N(C2))
      /\ Both(m, cT) = (N(D) (-) ((Disk(m) (+) Send(m, cT)) (.) N(C2)))
                         (/) (N(C1) (-) (N(C2) (.) N(2)))
      /\ N(m.C[cT][3]) = N(C3)
  BY DEF Rest, Alone, Both, Overlap, N
<1> HIDE DEF D, V1, C1, C2, C3
<1>3. Rational(Disk(m)) /\ Rational(Net(m, cT)) /\ Rational(Send(m, cT))
  BY SpeedsAre DEF Is
<1>4. /\ Is(N(D), D, 1) /\ Is(N(V1), V1, 1) /\ Is(N(C1), C1, 1)
      /\ Is(N(C2), C2, 1) /\ Is(N(C3), C3, 1) /\ Is(N(2), 2, 1)
  BY <1>1, NumberIs, 2 \in Int
<1>5. Rational(N(D)) /\ Rational(N(V1)) /\ Rational(N(C1)) /\ Rational(N(C2)) /\ Rational(N(C3))
  BY <1>4 DEF Is
<1>6. 1 \in Int /\ 1 # 0
  OBVIOUS
<1>7. Rational(Rest(m, cT))
  <2>1. Is(N(V1) (.) N(C2), V1 * C2, 1)
    BY <1>1, <1>4, <1>6, TimesNumber, Zenon
  <2>2. V1 * C2 \in Int /\ V1 * C2 # 0
    BY <1>1, Nonzero
  <2>3. Rational(N(D) (.) (N(V1) (-) N(C1)))
    BY <1>5, RationalSum, RationalTimes, Zenon
  <2> QED
    BY <1>2, <1>6, <2>1, <2>2, <2>3, RationalOver, Zenon
<1>8. Rational(Alone(m, cT) (/) N(C3))
  <2>1. Rational(N(C2) (/) N(V1))
    BY <1>1, <1>4, <1>5, <1>6, RationalOver, Zenon
  <2>2. Rational(N(D) (.) (N(C2) (/) N(V1))) /\ Rational(Send(m, cT) (.) N(C2))
    BY <1>3, <1>5, <2>1, RationalTimes, Zenon
  <2>3. Rational(N(D) (-) (N(D) (.) (N(C2) (/) N(V1))))
    BY <1>5, <2>2, RationalSum, Zenon
  <2>4. Rational(Alone(m, cT))
    BY <1>2, <2>2, <2>3, RationalSum, Zenon
  <2> QED
    BY <1>1, <1>4, <1>6, <2>4, RationalOver, Zenon
<1>9. Rational(Both(m, cT))
  <2>1. Rational((Disk(m) (+) Send(m, cT)) (.) N(C2))
    BY <1>3, <1>5, RationalSum, RationalTimes, Zenon
  <2>2. Rational(N(D) (-) ((Disk(m) (+) Send(m, cT)) (.) N(C2)))
    BY <1>5, <2>1, RationalSum, Zenon
  <2>3. 2 \in Int /\ C2 * 2 \in Int /\ C1 - C2 * 2 \in Int /\ C1 - C2 * 2 # 0
    BY <1>1
  <2>4. Is(N(C2) (.) N(2), C2 * 2, 1)
    BY <1>1, <1>4, <1>6, <2>3, TimesNumber, Zenon
  <2>5. Is(N(C1) (-) (N(C2) (.) N(2)), C1 - C2 * 2, 1)
    BY <1>1, <1>4, <1>6, <2>3, <2>4, IsMinus, Zenon
  <2> QED
    BY <1>2, <1>6, <2>2, <2>3, <2>5, RationalOver, Zenon
<1> QED
  BY <1>2, <1>3, <1>7, <1>8, <1>9

(* A plan without a negative time is no faster than the disk or the        *)
(* network.                                                                *)
LEMMA SolveBeats ==
  ASSUME NEW m, IsSetting(m), NEW cT \in Types,
         \A p \in 1..3 : ~(solveCT(m, cT).times[p] \prec <<0, 1>>)
  PROVE  /\ ~(solveCT(m, cT).T \prec Frac(m.D, m.V1))
         /\ ~(solveCT(m, cT).T \prec (Frac(m.D, m.V3) (/) m.alpha[cT]))
<1> DEFINE T == solveCT(m, cT).T
           time == solveCT(m, cT).times
           x == Both(m, cT)
           t1 == Disk(m)
           t == Send(m, cT)
           t2 == Rest(m, cT)
           y == Alone(m, cT) (/) N(m.C[cT][3])
<1>1. Rational(t1) /\ Rational(t) /\ Rational(t2) /\ Rational(y) /\ Rational(x)
  BY TimesRational
<1>2. \/ /\ T = Longer(t1 (+) t2, t)
         /\ time[2] = t2
      \/ /\ T = (t1 (+) y) (+) t
         /\ time[1] = t1 /\ time[2] = y /\ time[3] = t
      \/ /\ T = ((t1 (-) x) (+) x) (+) (t (-) x)
         /\ time[1] = t1 (-) x /\ time[3] = t (-) x
  <2>1. /\ PlanTogether(m, cT).T = Longer(t1 (+) t2, t)
        /\ PlanTogether(m, cT).times[2] = t2
    BY DEF PlanTogether, Together
  <2>2. /\ PlanApart(m, cT).T = (t1 (+) y) (+) t
        /\ PlanApart(m, cT).times[1] = t1
        /\ PlanApart(m, cT).times[2] = y
        /\ PlanApart(m, cT).times[3] = t
    BY DEF PlanApart, Apart
  <2>3. /\ PlanOverlapping(m, cT).T = ((t1 (-) x) (+) x) (+) (t (-) x)
        /\ PlanOverlapping(m, cT).times[1] = t1 (-) x
        /\ PlanOverlapping(m, cT).times[3] = t (-) x
    BY DEF PlanOverlapping, Overlapping
  <2> HIDE DEF x, t1, t, t2, y
  <2> QED
    BY <2>1, <2>2, <2>3, SolveIs
<1>3. ~(time[1] \prec <<0, 1>>) /\ ~(time[2] \prec <<0, 1>>) /\ ~(time[3] \prec <<0, 1>>)
  OBVIOUS
<1> HIDE DEF T, time, x, t1, t, t2, y
<1>4. Rational(T) /\ ~(T \prec t1) /\ ~(T \prec t)
  BY <1>1, <1>2, <1>3, TogetherBeats, ApartBeats, OverlappingBeats
<1> DEFINE D == m.D
           V1 == m.V1
           V3 == m.V3
           p == m.alpha[cT][1]
           q == m.alpha[cT][2]
<1>5. D \in Nat \ {0} /\ V1 \in Nat \ {0} /\ V3 \in Nat \ {0} /\ p \in Nat \ {0} /\ q \in Nat \ {0}
  BY SettingIs
<1>6. Is(t1, D, V1) /\ Is(t, D * q, p * V3)
  BY SpeedsAre DEF t1, t
<1>7. Is(m.alpha[cT], p, q)
  BY <1>5 DEF Is, Rational
<1> HIDE DEF D, V1, V3, p, q
<1>8. /\ D \in Int /\ V1 \in Int /\ V1 # 0 /\ V3 \in Int /\ V3 # 0 /\ p \in Int /\ p # 0
      /\ q \in Int /\ q # 0 /\ D * q \in Int /\ p * V3 \in Int /\ p * V3 # 0 /\ V3 * p = p * V3
  BY <1>5, Nonzero
<1>9. ~(T \prec Frac(D, V1))
  <2>1. Is(Frac(D, V1), D, V1)
    BY <1>8, FracIs
  <2> QED
    BY <1>4, <1>6, <1>8, <2>1, SameOrder, Zenon
<1>10. ~(T \prec (Frac(D, V3) (/) m.alpha[cT]))
  <2>1. Is(Frac(D, V3), D, V3)
    BY <1>8, FracIs
  <2>2. Is(Frac(D, V3) (/) m.alpha[cT], D * q, V3 * p)
    BY <1>7, <1>8, <2>1, IsOver, Zenon
  <2>3. Is(Frac(D, V3) (/) m.alpha[cT], D * q, p * V3)
    BY <1>8, <2>2, Zenon
  <2> QED
    BY <1>4, <1>6, <1>8, <2>3, SameOrder, Zenon
<1> QED
  BY <1>9, <1>10 DEF T, D, V1, V3

(* The periods of a computed method give every stage a number of threads   *)
(* and of bytes.                                                           *)
LEMMA PeriodType ==
  ASSUME NEW pools, NEW grants, NEW s \in Stages, pools[s] \in Nat, Rational(grants[s])
  PROVE  Period(pools, grants)[s].pool \in Nat /\ Period(pools, grants)[s].credit \in Int
  BY TruncType DEF Period

LEMMA SolveType ==
  ASSUME NEW m, IsSetting(m), NEW cT \in Types, NEW p \in 1..3, NEW s \in Stages
  PROVE  /\ solveCT(m, cT).period[p][s].pool \in Nat
         /\ solveCT(m, cT).period[p][s].credit \in Int
<1> DEFINE V1 == N(m.V1)
           C1 == N(m.C[cT][1])
           C2 == N(m.C[cT][2])
           C3 == N(m.C[cT][3])
           V3 == Net(m, cT)
           x == Both(m, cT)
           t1 == Disk(m)
           t == Send(m, cT)
           t2 == Rest(m, cT)
           y == Alone(m, cT) (/) N(m.C[cT][3])
           Fine(q) == q[s].pool \in Nat /\ q[s].credit \in Int
<1>1. /\ Rational(t1) /\ Rational(t) /\ Rational(t2) /\ Rational(y) /\ Rational(x)
      /\ Rational(V3)
  BY TimesRational
<1>2. Rational(V1) /\ Rational(C1) /\ Rational(C2) /\ Rational(C3)
  <2>1. m.V1 \in Int /\ m.C[cT][1] \in Int /\ m.C[cT][2] \in Int /\ m.C[cT][3] \in Int
    BY SettingIs
  <2> QED
    BY <2>1, NumberIs DEF Is
<1>3. Rational(<<0, 1>>) /\ Rational(<<1, 1>>)
  BY DEF Rational
<1>4. s = 1 \/ s = 2 \/ s = 3
  BY DEF Stages
<1>5. PlanTogether(m, cT).period =
        <<Period(<<1, 1, 1>>, <<t1 (.) V1, t1 (.) C1, t1 (.) V3>>),
          Period(<<0, 2, 1>>, <<<<1, 1>>, t2 (.) C2, t2 (.) V3>>),
          Period(<<1, 1, 1>>, <<<<0, 1>>, <<0, 1>>, <<0, 1>>>>)>>
  BY DEF PlanTogether, Together
<1>6. PlanApart(m, cT).period =
        <<Period(<<1, 2, 0>>, <<t1 (.) V1, t1 (.) C2, <<1, 1>>>>),
          Period(<<0, 3, 0>>, <<<<1, 1>>, y (.) C3, <<1, 1>>>>),
          Period(<<0, 2, 1>>, <<<<1, 1>>, t (.) C2, t (.) V3>>)>>
  BY DEF PlanApart, Apart
<1>7. PlanOverlapping(m, cT).period =
        <<Period(<<1, 2, 0>>, <<(t1 (-) x) (.) V1, (t1 (-) x) (.) C2, <<1, 1>>>>),
          Period(<<1, 1, 1>>, <<x (.) V1, x (.) C1, x (.) V3>>),
          Period(<<0, 2, 1>>, <<<<1, 1>>, (t (-) x) (.) C2, (t (-) x) (.) V3>>)>>
  BY DEF PlanOverlapping, Overlapping
<1> HIDE DEF V1, C1, C2, C3, V3, x, t1, t, t2, y
<1>8. Rational(t1 (-) x) /\ Rational(t (-) x)
  BY <1>1, RationalSum
<1>9. ASSUME NEW pools, NEW a, NEW b, NEW c, Rational(a), Rational(b), Rational(c),
             pools \in {<<1, 1, 1>>, <<0, 2, 1>>, <<1, 2, 0>>, <<0, 3, 0>>}
      PROVE  Fine(Period(pools, <<a, b, c>>))
  <2>1. pools[s] \in Nat
    BY <1>4, <1>9
  <2>2. Rational(<<a, b, c>>[s])
    BY <1>4, <1>9
  <2> QED
    BY <2>1, <2>2, PeriodType
<1> HIDE DEF Fine
<1>10. /\ Fine(PlanTogether(m, cT).period[1])
       /\ Fine(PlanTogether(m, cT).period[2])
       /\ Fine(PlanTogether(m, cT).period[3])
  BY <1>1, <1>2, <1>3, <1>5, <1>9, RationalTimes
<1>11. /\ Fine(PlanApart(m, cT).period[1])
       /\ Fine(PlanApart(m, cT).period[2])
       /\ Fine(PlanApart(m, cT).period[3])
  BY <1>1, <1>2, <1>3, <1>6, <1>9, RationalTimes
<1>12. /\ Fine(PlanOverlapping(m, cT).period[1])
       /\ Fine(PlanOverlapping(m, cT).period[2])
       /\ Fine(PlanOverlapping(m, cT).period[3])
  BY <1>1, <1>2, <1>3, <1>7, <1>8, <1>9, RationalTimes
<1>13. Fine(solveCT(m, cT).period[p])
  <2>1. p = 1 \/ p = 2 \/ p = 3
    OBVIOUS
  <2> QED
    BY <1>10, <1>11, <1>12, <2>1, SolveIs
<1> QED
  BY <1>13 DEF Fine

LEMMA SolveChoice ==
  ASSUME NEW plan
  PROVE  solve(plan) \in Types
<1> DEFINE Faster(best, cT) == IF plan[cT].T \prec plan[best].T THEN cT ELSE best
<1>1. solve(plan) = Faster(Faster(Faster(3, 0), 1), 2)
  BY DEF solve
<1>2. \A best, cT \in Types : Faster(best, cT) \in Types
  OBVIOUS
<1> HIDE DEF Faster
<1> QED
  BY <1>1, <1>2 DEF Types

-----------------------------------------------------------------------------
(* Between the steps of monitor and the stages, the plans stay those of    *)
(* the setting, and no stage has a negative number of threads.             *)
PolicyInv ==
  /\ setting \in Settings
  /\ plans = [cT \in Types |-> solveCT(setting, cT)]
  /\ chosen \in Choices
  /\ flag \in Periods
  /\ control \in [Stages -> [pool : Nat, credit : Int]]
  /\ left \in [Stages -> Int]
  /\ end \in [Stages -> BOOLEAN]

LEMMA MethodType ==
  ASSUME setting \in Settings, plans = [cT \in Types |-> solveCT(setting, cT)],
         chosen \in Choices, NEW p \in 1..3, NEW s \in Stages
  PROVE  method[p][s].pool \in Int /\ method[p][s].credit \in Int
<1>1. IsSetting(setting)
  BY PolicyAssumption
<1>2. CASE chosen = Shipped
  BY <1>2, PolicyAssumption DEF method
<1>3. CASE chosen # Shipped
  <2>1. chosen \in Types
    BY <1>3 DEF Choices
  <2>2. method = solveCT(setting, chosen).period
    BY <1>3, <2>1 DEF method
  <2> QED
    BY <1>1, <2>1, <2>2, SolveType
<1> QED
  BY <1>2, <1>3

LEMMA SetControlType ==
  ASSUME NEW was \in [Stages -> [pool : Nat, credit : Int]], NEW given,
         \A s \in Stages : given[s].pool \in Int /\ given[s].credit \in Int
  PROVE  SetControl(was, given) \in [Stages -> [pool : Nat, credit : Int]]
<1> DEFINE both(s) == was[s].credit + given[s].credit
           new(s) == IF given[s].pool >= 0 /\ given[s].credit >= 0
                     THEN [pool |-> given[s].pool,
                           credit |-> IF both(s) > CreditCap THEN CreditCap ELSE both(s)]
                     ELSE was[s]
<1>1. ASSUME NEW s \in Stages
      PROVE  new(s) \in [pool : Nat, credit : Int]
  <2>1. was[s] \in [pool : Nat, credit : Int] /\ was[s].credit \in Int
    OBVIOUS
  <2>2. both(s) \in Int /\ CreditCap \in Int
    BY <2>1, PolicyAssumption
  <2> HIDE DEF both
  <2>3. CASE given[s].pool >= 0 /\ given[s].credit >= 0
    BY <2>2, <2>3
  <2>4. CASE ~(given[s].pool >= 0 /\ given[s].credit >= 0)
    BY <2>1, <2>4
  <2> QED
    BY <2>3, <2>4
<1>2. SetControl(was, given) = [s \in Stages |-> new(s)]
  BY DEF SetControl
<1> HIDE DEF new
<1> QED
  BY <1>1, <1>2

LEMMA PolicyInit == Init => PolicyInv
<1> SUFFICES ASSUME Init
             PROVE  PolicyInv
  OBVIOUS
<1>1. setting \in Settings /\ plans = [cT \in Types |-> solveCT(setting, cT)] /\ flag \in Periods
  BY DEF Init, Periods
<1>2. chosen \in Choices
  BY SolveChoice DEF Init, Choices
<1>3. control \in [Stages -> [pool : Nat, credit : Int]]
  <2> DEFINE was == [s \in Stages |-> [pool |-> 1, credit |-> 0]]
  <2>1. was \in [Stages -> [pool : Nat, credit : Int]]
    OBVIOUS
  <2>2. \A s \in Stages : method[1][s].pool \in Int /\ method[1][s].credit \in Int
    BY <1>1, <1>2, MethodType
  <2>3. control = SetControl(was, method[1])
    BY DEF Init
  <2> HIDE DEF was
  <2> QED
    BY <2>1, <2>2, <2>3, SetControlType
<1>4. left \in [Stages -> Int] /\ end \in [Stages -> BOOLEAN]
  BY PolicyAssumption DEF Init
<1> QED
  BY <1>1, <1>2, <1>3, <1>4 DEF PolicyInv

LEMMA PolicyNext == PolicyInv /\ [Next]_vars => PolicyInv'
<1> SUFFICES ASSUME PolicyInv, [Next]_vars
             PROVE  PolicyInv'
  OBVIOUS
<1> USE DEF PolicyInv
<1>1. CASE monitor
  <2>1. /\ flag' = (flag + 1) % 3
        /\ control' = SetControl(control, method[flag' + 1])
        /\ UNCHANGED <<setting, plans, chosen, left, end>>
    BY <1>1 DEF monitor, Following
  <2>2. flag' \in Periods /\ flag' + 1 \in 1..3
    <3>1. flag \in 0..2
      BY DEF Periods
    <3>2. flag' \in 0..2 /\ flag' + 1 \in 1..3
      BY <2>1, <3>1
    <3> QED
      BY <3>2 DEF Periods
  <2>3. \A s \in Stages :
          method[flag' + 1][s].pool \in Int /\ method[flag' + 1][s].credit \in Int
    BY <2>2, MethodType
  <2>4. control' \in [Stages -> [pool : Nat, credit : Int]]
    BY <2>1, <2>3, SetControlType
  <2> QED
    BY <2>1, <2>2, <2>4
<1>2. ASSUME NEW s \in Stages, Take(s)
      PROVE  PolicyInv'
  <2> DEFINE n == IF left[s] < Block[s] THEN left[s] ELSE Block[s]
  <2>1. /\ control' = [control EXCEPT ![s].credit = @ - n]
        /\ left' = [r \in Stages |->
                      IF r = s THEN left[r] - n
                      ELSE IF r = s + 1 THEN left[r] + Result(s, n) ELSE left[r]]
        /\ UNCHANGED <<setting, plans, chosen, flag, end>>
    BY <1>2 DEF Take
  <2>2. n \in Int
    BY PolicyAssumption
  <2> HIDE DEF n
  <2>3. Result(s, n) \in Int
    <3>1. CASE s = 2 /\ chosen # Shipped
      <4> DEFINE p == setting.alpha[chosen][1]
                 q == setting.alpha[chosen][2]
      <4>1. p \in Nat \ {0} /\ q \in Nat \ {0}
        <5>1. IsSetting(setting) /\ chosen \in Types
          BY <3>1, PolicyAssumption DEF Choices
        <5> QED
          BY <5>1, SettingIs
      <4>2. Result(s, n) = (n * q + p - 1) \div p
        BY <3>1 DEF Result
      <4> HIDE DEF p, q
      <4>3. n * q + p - 1 \in Int
        BY <2>2, <4>1
      <4> QED
        BY <4>1, <4>2, <4>3
    <3>2. CASE ~(s = 2 /\ chosen # Shipped)
      BY <2>2, <3>2 DEF Result
    <3> QED
      BY <3>1, <3>2
  <2>4. control' \in [Stages -> [pool : Nat, credit : Int]]
    BY <2>1, <2>2
  <2>5. left' \in [Stages -> Int]
    BY <2>1, <2>2, <2>3
  <2> QED
    BY <2>1, <2>4, <2>5
<1>3. ASSUME NEW s \in Stages, AddEnd(s)
      PROVE  PolicyInv'
  <2>1. /\ end' = [end EXCEPT ![s] = TRUE]
        /\ UNCHANGED <<setting, plans, chosen, flag, control, left>>
    BY <1>3 DEF AddEnd
  <2> QED
    BY <2>1
<1>4. CASE UNCHANGED vars
  BY <1>4 DEF vars
<1> QED
  BY <1>1, <1>2, <1>3, <1>4 DEF Next, Stage

(* The invariant, of every table of speeds, method and input.              *)
THEOREM PolicyCorrect == Spec => []PolicyInv
<1> QED
  BY PolicyInit, PolicyNext, PTL DEF Spec

(* One turn of the periods solveCT makes lets stages 1 and 2 work through  *)
(* all but three bytes of D, in each of its three cases and also where a   *)
(* negative grant is refused.                                              *)
THEOREM CoversDataCorrect == Spec => []CoversData
<1>1. PolicyInv => CoversData
  <2> SUFFICES ASSUME PolicyInv, NEW c \in Types, NEW s \in 1..2
               PROVE  TurnGrant(plans[c].period, s) > setting.D - 3
    BY DEF CoversData
  <2>1. IsSetting(setting) /\ plans[c] = solveCT(setting, c)
    BY PolicyAssumption DEF PolicyInv
  <2> QED
    BY <2>1, SolveCovers
<1> QED
  BY <1>1, PolicyCorrect, PTL

(* The time solveCT expects, and solve compares, is never shorter than     *)
(* what reading or sending D takes, if the plan has no negative time.      *)
THEOREM BeatsNoStageCorrect == Spec => []BeatsNoStage
<1>1. PolicyInv => BeatsNoStage
  <2> SUFFICES ASSUME PolicyInv, NEW c \in Types,
                      \A p \in 1..3 : ~(plans[c].times[p] \prec <<0, 1>>)
               PROVE  /\ ~(plans[c].T \prec Frac(setting.D, setting.V1))
                      /\ ~(plans[c].T \prec (Frac(setting.D, setting.V3) (/) setting.alpha[c]))
    BY DEF BeatsNoStage
  <2>1. IsSetting(setting) /\ plans[c] = solveCT(setting, c)
    BY PolicyAssumption DEF PolicyInv
  <2> QED
    BY <2>1, SolveBeats
<1> QED
  BY <1>1, PolicyCorrect, PTL

(* When nothing can go on and finish() deals out no period, the first      *)
(* stage that has not ended is paused with credit left.                    *)
THEOREM StalledOnlyByPauseCorrect == Spec => []StalledOnlyByPause
<1>1. PolicyInv => StalledOnlyByPause
  <2> SUFFICES ASSUME PolicyInv, Stalled
               PROVE  \E s \in Stages : control[s].pool = 0 /\ control[s].credit > 0 /\ ~end[s]
    BY DEF StalledOnlyByPause
  <2>1. PICK s \in Stages : ~end[s] /\ InputOver(s)
    <3>1. CASE ~end[1]
      BY <3>1 DEF InputOver, Stages
    <3>2. CASE end[1] /\ ~end[2]
      BY <3>2 DEF InputOver, Stages
    <3>3. CASE end[2]
      BY <3>3 DEF InputOver, Stages, Stalled
    <3> QED
      BY <3>1, <3>2, <3>3
  <2>2. control[s].pool \in Nat /\ control[s].credit \in Int
    BY DEF PolicyInv
  <2>3. control[s].credit > 0
    BY <2>2 DEF Stalled, finish, UsedUp
  <2>4. ~MayAdd(s)
    BY <2>1 DEF Stalled
  <2> QED
    BY <2>1, <2>2, <2>3, <2>4 DEF MayAdd
<1> QED
  BY <1>1, PolicyCorrect, PTL
=============================================================================
