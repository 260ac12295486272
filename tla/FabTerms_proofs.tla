--------------------------- MODULE FabTerms_proofs ---------------------------
EXTENDS FabTerms, TLAPS, FiniteSetTheorems

\* Whatever lies strictly between two fractions of determinant 1 has at least
\* the sum of their denominators as its own, and the sum of their numerators.
LEMMA BetweenFarey ==
  ASSUME NEW a \in Nat, NEW b \in Nat, NEW c \in Nat, NEW d \in Nat, b > 0, d > 0,
         NEW h \in Int, NEW k \in Int,
         c * b - a * d = 1, a * k < h * b, h * d < c * k
  PROVE  k >= b + d /\ h >= a + c
<1> DEFINE u == c * k - h * d
           v == h * b - a * k
<1>1. u \in Int /\ v \in Int /\ u >= 1 /\ v >= 1
  OBVIOUS
<1>2. k = b * u + d * v
  OBVIOUS
<1>3. h = a * u + c * v
  OBVIOUS
<1>4. b * u >= b /\ d * v >= d /\ a * u >= a /\ c * v >= c
  BY <1>1
<1> QED BY <1>2, <1>3, <1>4

LEMMA Division ==
  ASSUME NEW a \in Nat, NEW b \in Nat, b > 0
  PROVE  /\ a \div b \in Nat /\ a % b \in Nat
         /\ a = b * (a \div b) + (a % b) /\ (a % b) < b
<1>1. a % b \in 0 .. b - 1
  OBVIOUS
<1>2. a \div b \in Int
  OBVIOUS
<1>3. a = b * (a \div b) + (a % b)
  OBVIOUS
<1>4. a \div b >= 0
  BY <1>1, <1>2, <1>3
<1> QED BY <1>1, <1>2, <1>3, <1>4

\* A set of numbers that is not empty has a least element.
LEMMA Least ==
  ASSUME NEW T \in SUBSET Nat, T # {}
  PROVE  \E m \in T : \A k \in T : m <= k
<1> DEFINE Prefixes == {1 .. k : k \in T}
           R == StrictSubsetOrdering(Nat)
<1>1. IsWellFoundedOn(R, FiniteSubsetsOf(Nat))
  BY FS_StrictSubsetOrderingWellFounded
<1>2. Prefixes \subseteq FiniteSubsetsOf(Nat) /\ Prefixes # {}
  <2>1. ASSUME NEW k \in T  PROVE IsFiniteSet(1 .. k) /\ 1 .. k \subseteq Nat
    BY FS_Interval
  <2> QED BY <2>1 DEF FiniteSubsetsOf
<1> HIDE DEF Prefixes, R
<1>3. \E x \in Prefixes : \A y \in Prefixes : ~(<<y, x>> \in R)
  BY <1>1, <1>2, WFMin
<1>4. PICK m \in T : \A k \in T : ~(<<1 .. k, 1 .. m>> \in R)
  BY <1>3 DEF Prefixes
<1>5. ASSUME NEW k \in T, k < m  PROVE FALSE
  <2>1. 1 .. k \subseteq 1 .. m /\ 1 .. k # 1 .. m /\ 1 .. m \subseteq Nat /\ 1 .. k \subseteq Nat
    <3>1. m \in 1 .. m /\ m \notin 1 .. k
      BY <1>5
    <3> QED BY <1>5, <3>1
  <2> QED BY <2>1, <1>4 DEF R, StrictSubsetOrdering
<1> QED BY <1>4, <1>5
-----------------------------------------------------------------------------
\* The order of fractions with positive denominators.
LEMMA Order ==
  ASSUME NEW x \in Rational, NEW y \in Rational, NEW z \in Rational,
         x.den > 0, y.den > 0, z.den > 0
  PROVE  /\ Less(x, y) /\ ~Less(z, y) => Less(x, z)
         /\ ~Less(y, x) /\ Less(y, z) => Less(x, z)
         /\ ~Less(y, x) /\ ~Less(z, y) => ~Less(z, x)
         /\ Less(x, y) => ~Less(y, x)
         /\ Less(Neg(x), Neg(y)) <=> Less(y, x)
<1> DEFINE a == x.num  b == x.den  c == y.num  d == y.den  e == z.num  f == z.den
<1>1. a \in Int /\ b \in Int /\ c \in Int /\ d \in Int /\ e \in Int /\ f \in Int
  BY DEF Rational
<1> HIDE DEF a, b, c, d, e, f
<1>2. ASSUME a * d < c * b, ~(e * d < c * f), b > 0, d > 0, f > 0  PROVE a * f < e * b
  <2>1. (a * d) * f < (c * b) * f
    BY <1>1, <1>2
  <2>2. (c * f) * b <= (e * d) * b
    BY <1>1, <1>2
  <2>3. d * (a * f) < d * (e * b)
    BY <1>1, <2>1, <2>2
  <2> QED BY <1>1, <1>2, <2>3
<1>3. ASSUME ~(c * b < a * d), c * f < e * d, b > 0, d > 0, f > 0  PROVE a * f < e * b
  <2>1. (a * d) * f <= (c * b) * f
    BY <1>1, <1>3
  <2>2. (c * f) * b < (e * d) * b
    BY <1>1, <1>3
  <2>3. d * (a * f) < d * (e * b)
    BY <1>1, <2>1, <2>2
  <2> QED BY <1>1, <1>3, <2>3
<1>4. ASSUME ~(c * b < a * d), ~(e * d < c * f), b > 0, d > 0, f > 0  PROVE ~(e * b < a * f)
  <2>1. (a * d) * f <= (c * b) * f
    BY <1>1, <1>4
  <2>2. (c * f) * b <= (e * d) * b
    BY <1>1, <1>4
  <2>3. d * (a * f) <= d * (e * b)
    BY <1>1, <2>1, <2>2
  <2> QED BY <1>1, <1>4, <2>3
<1>5. Less(x, y) /\ ~Less(z, y) => Less(x, z)
  BY <1>2 DEF Less, a, b, c, d, e, f
<1>6. ~Less(y, x) /\ Less(y, z) => Less(x, z)
  BY <1>3 DEF Less, a, b, c, d, e, f
<1>7. ~Less(y, x) /\ ~Less(z, y) => ~Less(z, x)
  BY <1>4 DEF Less, a, b, c, d, e, f
<1>8. Less(x, y) => ~Less(y, x)
  BY DEF Less, Rational
<1>9. Less(Neg(x), Neg(y)) <=> Less(y, x)
  BY DEF Less, Rational, Neg, Q
<1> QED BY <1>5, <1>6, <1>7, <1>8, <1>9

\* Nothing with a denominator up to N lies within a Farey pair of order N.
LEMMA NoneInside ==
  ASSUME NEW x \in Rational, NEW y \in Rational, NEW z \in Rational, NEW N \in Nat,
         FareyPair(x, y, N), z.den \in 1 .. N
  PROVE  ~(Less(x, z) /\ Less(z, y))
<1> SUFFICES ASSUME Less(x, z), Less(z, y)  PROVE FALSE
  OBVIOUS
<1> DEFINE a == x.num  b == x.den  c == y.num  d == y.den  h == z.num  k == z.den
<1>1. a \in Nat /\ b \in Nat /\ c \in Nat /\ d \in Nat /\ h \in Int /\ k \in Int /\ b > 0 /\ d > 0
  BY DEF Rational, FareyPair
<1>2. c * b - a * d = 1 /\ b + d > N /\ k <= N
  BY DEF FareyPair
<1>3. a * k < h * b /\ h * d < c * k
  BY DEF Less
<1> HIDE DEF a, b, c, d, h, k
<1>4. k >= b + d
  BY <1>1, <1>2, <1>3, BetweenFarey
<1> QED BY <1>1, <1>2, <1>4

\* A Farey pair is in order, and both of its fractions are in lowest terms.
LEMMA PairOrder ==
  ASSUME NEW x \in Rational, NEW y \in Rational, NEW N \in Nat, FareyPair(x, y, N)
  PROVE  Less(x, y) /\ Irreducible(x) /\ Irreducible(y)
<1> DEFINE a == x.num  b == x.den  c == y.num  d == y.den
<1>1. a \in Nat /\ b \in Nat /\ c \in Nat /\ d \in Nat /\ c * b - a * d = 1
  BY DEF Rational, FareyPair
<1>2. Less(x, y)
  BY <1>1 DEF Less
<1> HIDE DEF a, b, c, d
<1>3. ASSUME NEW e \in Nat, NEW u \in Int, NEW v \in Int, e > 1, e * u = a, e * v = b
      PROVE  FALSE
  <2>1. e * (c * v - u * d) = 1
    BY <1>1, <1>3
  <2>2. c * v - u * d \in Int
    BY <1>1
  <2> QED BY <1>3, <2>1, <2>2
<1>4. ASSUME NEW e \in Nat, NEW u \in Int, NEW v \in Int, e > 1, e * u = c, e * v = d
      PROVE  FALSE
  <2>1. e * (u * b - a * v) = 1
    BY <1>1, <1>4
  <2>2. u * b - a * v \in Int
    BY <1>1
  <2> QED BY <1>4, <2>1, <2>2
<1>5. Irreducible(x)
  <2>1. SUFFICES ASSUME NEW e \in 2 .. b, Divides(e, a), Divides(e, b)  PROVE FALSE
    BY DEF Irreducible, a, b
  <2>2. PICK u \in -Magnitude(a) .. Magnitude(a) : e * u = a
    BY <2>1 DEF Divides
  <2>3. PICK v \in -Magnitude(b) .. Magnitude(b) : e * v = b
    BY <2>1 DEF Divides
  <2>4. u \in Int /\ v \in Int /\ e \in Nat /\ e > 1
    BY <1>1 DEF Magnitude
  <2> QED BY <1>3, <2>2, <2>3, <2>4
<1>6. Irreducible(y)
  <2>1. SUFFICES ASSUME NEW e \in 2 .. d, Divides(e, c), Divides(e, d)  PROVE FALSE
    BY DEF Irreducible, c, d
  <2>2. PICK u \in -Magnitude(c) .. Magnitude(c) : e * u = c
    BY <2>1 DEF Divides
  <2>3. PICK v \in -Magnitude(d) .. Magnitude(d) : e * v = d
    BY <2>1 DEF Divides
  <2>4. u \in Int /\ v \in Int /\ e \in Nat /\ e > 1
    BY <1>1 DEF Magnitude
  <2> QED BY <1>4, <2>2, <2>3, <2>4
<1> QED BY <1>2, <1>5, <1>6

\* One step to the left of a Farey pair whose lower fraction is positive.
LEMMA Predecessor ==
  ASSUME NEW x \in Rational, NEW y \in Rational, NEW N \in Nat,
         FareyPair(x, y, N), x.num > 0
  PROVE  LET z == FareyPredecessor(y, x, N) IN z \in Rational /\ FareyPair(z, x, N)
<1> DEFINE a == x.num  b == x.den  c == y.num  d == y.den
           f == (d + N) \div b
           h == f * a - c
           k == f * b - d
<1>1. a \in Nat /\ b \in Nat /\ c \in Nat /\ d \in Nat /\ c * b - a * d = 1
      /\ a > 0 /\ b > 0 /\ b <= N /\ d > 0 /\ d <= N
  BY DEF Rational, FareyPair
<1> HIDE DEF a, b, c, d
<1>2. f \in Nat /\ f * b <= d + N /\ d + N < f * b + b
  BY <1>1, Division
<1> HIDE DEF f
<1>3. h \in Int /\ k \in Int /\ k > 0 /\ k <= N /\ k + b > N
  BY <1>1, <1>2
<1>4. a * k - h * b = 1
  BY <1>1, <1>2
<1> HIDE DEF h, k
<1>5. h >= 0
  <2>1. a * k >= 1
    BY <1>1, <1>3
  <2>2. h * b >= 0
    BY <1>1, <1>3, <1>4, <2>1
  <2> QED BY <1>1, <1>3, <2>2
<1>6. FareyPredecessor(y, x, N) = Q(h, k)
  BY DEF FareyPredecessor, a, b, c, d, f, h, k
<1> QED BY <1>1, <1>3, <1>4, <1>5, <1>6 DEF FareyPair, Rational, Q, a, b

\* One step to the right of a Farey pair.
LEMMA Successor ==
  ASSUME NEW x \in Rational, NEW y \in Rational, NEW N \in Nat, FareyPair(x, y, N)
  PROVE  LET z == FareySuccessor(x, y, N) IN z \in Rational /\ FareyPair(y, z, N)
<1> DEFINE a == x.num  b == x.den  c == y.num  d == y.den
           f == (b + N) \div d
           h == f * c - a
           k == f * d - b
<1>1. a \in Nat /\ b \in Nat /\ c \in Nat /\ d \in Nat /\ c * b - a * d = 1
      /\ b > 0 /\ b <= N /\ d > 0 /\ d <= N
  BY DEF Rational, FareyPair
<1> HIDE DEF a, b, c, d
<1>2. f \in Nat /\ f * d <= b + N /\ b + N < f * d + d
  BY <1>1, Division
<1> HIDE DEF f
<1>3. h \in Int /\ k \in Int /\ k > 0 /\ k <= N /\ k + d > N
  BY <1>1, <1>2
<1>4. h * d - c * k = 1
  BY <1>1, <1>2
<1> HIDE DEF h, k
<1>5. h >= 0
  <2>1. c * k >= 0
    BY <1>1, <1>3
  <2>2. h * d >= 0
    BY <1>1, <1>3, <1>4, <2>1
  <2> QED BY <1>1, <1>3, <2>2
<1>6. FareySuccessor(x, y, N) = Q(h, k)
  BY DEF FareySuccessor, a, b, c, d, f, h, k
<1> QED BY <1>1, <1>3, <1>4, <1>5, <1>6 DEF FareyPair, Rational, Q, c, d
-----------------------------------------------------------------------------
\* The search stops, and every denominator up to the row it stops at is in range.
LEMMA SearchStops ==
  ASSUME NEW rows \in Rows, rows # <<>>, NEW N \in Int
  PROVE  LET i == LastConvergent(rows, N)
         IN /\ i \in 1 .. Len(rows)
            /\ Stops(rows, N, i)
            /\ \A j \in 1 .. i - 1 : ~Stops(rows, N, j)
<1> DEFINE T == {i \in 1 .. Len(rows) : Stops(rows, N, i)}
<1>1. Len(rows) \in Nat /\ Len(rows) > 0
  BY DEF Rows
<1>2. Len(rows) \in T
  BY <1>1 DEF Stops
<1>3. PICK m \in T : \A k \in T : m <= k
  <2>1. T \in SUBSET Nat /\ T # {}
    BY <1>2
  <2> QED BY <2>1, Least
<1>4. m \in 1 .. Len(rows) /\ Stops(rows, N, m)
  OBVIOUS
<1>5. \A j \in 1 .. m - 1 : ~Stops(rows, N, j)
  <2>1. ASSUME NEW j \in 1 .. m - 1, Stops(rows, N, j)  PROVE FALSE
    <3>1. j \in T
      BY <1>1, <1>4, <2>1
    <3> QED BY <1>3, <1>4, <3>1
  <2> QED BY <2>1
<1>6. \E i \in 1 .. Len(rows) : Stops(rows, N, i) /\ \A j \in 1 .. i - 1 : ~Stops(rows, N, j)
  BY <1>4, <1>5
<1> QED BY <1>6 DEF LastConvergent

\* A row after the first one takes up the divisor and remainder before it.
LEMMA RowStep ==
  ASSUME NEW x, NEW rows, NEW i \in Nat, i > 1, RowOK(x, rows, i)
  PROVE  /\ rows[i].divisor = rows[i - 1].remainder
         /\ rows[i - 1].divisor >= rows[i].a * rows[i].divisor + rows[i].remainder
         /\ rows[i].a > 0
         /\ Convergent(rows, i).den = rows[i].a * Convergent(rows, i - 1).den + Convergent(rows, i - 2).den
BY DEF RowOK

\* The denominators of the convergents do not decrease.
LEMMA DenominatorsGrow ==
  ASSUME NEW x \in Rational, NEW rows \in Rows,
         \A i \in 1 .. Len(rows) : RowOK(x, rows, i)
  PROVE  \A i \in 1 .. Len(rows) : \A j \in 1 .. i : rows[j].q <= rows[i].q
<1>0. Len(rows) \in Nat
  BY DEF Rows
<1> DEFINE Greatest(i) == \A j \in 1 .. i : rows[j].q <= rows[i].q
           T == {i \in 1 .. Len(rows) : ~Greatest(i)}
<1> SUFFICES ASSUME NEW n \in 1 .. Len(rows)  PROVE Greatest(n)
  OBVIOUS
<1> SUFFICES ASSUME ~Greatest(n)  PROVE FALSE
  OBVIOUS
<1>1. PICK m \in T : \A k \in T : m <= k
  <2>1. T \in SUBSET Nat /\ n \in T
    BY <1>0
  <2> QED BY <2>1, Least
<1>2. m \in 1 .. Len(rows) /\ ~ \A j \in 1 .. m : rows[j].q <= rows[m].q
  OBVIOUS
<1>3. PICK j \in 1 .. m : ~(rows[j].q <= rows[m].q)
  BY <1>2
<1>4. \A i \in 1 .. Len(rows) : rows[i].q \in Nat /\ rows[i].a \in Nat
  <2> DEFINE RowType == [divisor : Nat, a : Nat, remainder : Nat, p : Nat, q : Nat]
  <2>1. \A i \in 1 .. Len(rows) : rows[i] \in RowType
    <3> HIDE DEF RowType
    <3>1. rows \in Seq(RowType)
      BY DEF Rows, RowType
    <3> QED BY <3>1
  <2> QED BY <2>1
<1>5. m > 1 /\ j \in 1 .. m - 1
  BY <1>0, <1>2, <1>3, <1>4
<1>6. m - 1 \in 1 .. Len(rows) /\ m - 1 \notin T
  BY <1>0, <1>1, <1>2, <1>5
<1>7. rows[j].q <= rows[m - 1].q
  BY <1>5, <1>6
<1>8. rows[m - 1].q <= rows[m].q
  <2> DEFINE q == rows[m].q  q1 == rows[m - 1].q  q2 == Convergent(rows, m - 2).den  a == rows[m].a
  <2>1. q = a * q1 + q2 /\ a > 0
    BY <1>0, <1>2, <1>5, <1>6 DEF RowOK, Convergent, Q
  <2>2. q2 >= 0 /\ q2 \in Int
    <3>1. RowOK(x, rows, m - 1)
      BY <1>6
    <3>2. Convergent(rows, m - 1 - 1).den >= 0
      BY <3>1 DEF RowOK
    <3>3. m - 1 - 1 = m - 2
      BY <1>0, <1>2
    <3>4. CASE m = 2
      BY <3>4 DEF Convergent, Q
    <3>5. CASE m # 2
      <4>1. m - 2 \in 1 .. Len(rows)
        BY <1>0, <1>2, <1>5, <3>5
      <4> QED BY <1>4, <3>2, <3>3, <4>1 DEF Convergent, Q
    <3> QED BY <3>4, <3>5
  <2>3. q \in Nat /\ q1 \in Nat /\ a \in Nat
    BY <1>2, <1>4, <1>6
  <2> HIDE DEF q, q1, q2, a
  <2>4. a * q1 >= q1
    BY <2>1, <2>3
  <2>5. q1 <= q
    BY <2>1, <2>2, <2>3, <2>4
  <2> QED BY <2>5 DEF q, q1
<1>9. rows[m].q \in Nat /\ rows[m - 1].q \in Nat /\ rows[j].q \in Nat
  BY SMTT(30), <1>0, <1>2, <1>4, <1>5, <1>6
<1> QED BY SMTT(30), <1>3, <1>7, <1>8, <1>9

\* The arithmetic of a convergent c/e with the one before it, p/q, of a number
\* x/y, and of the other neighbour, h/k.
LEMMA ConvergentArithmetic ==
  ASSUME NEW c \in Nat, NEW e \in Nat, NEW p \in Nat, NEW q \in Nat, NEW d \in Nat, NEW r \in Nat,
         NEW f \in Nat, NEW N \in Nat, NEW s \in {-1, 1},
         e > 0, e <= N, d > 0, r < d, c * q - e * p = s,
         f * e <= N - q, N - q < f * e + e, r # 0 => f * r < d
  PROVE  LET x == c * d + p * r
             y == e * d + q * r
             h == f * c + p
             k == f * e + q
         IN /\ h \in Nat /\ k \in Nat /\ k > 0 /\ k <= N /\ e + k > N
            /\ c * k - e * h = s
            /\ c * y - e * x = r * s
            /\ h * y - k * x = (f * r - d) * s
            /\ f * r - d < 0
<1> DEFINE x == c * d + p * r
           y == e * d + q * r
           h == f * c + p
           k == f * e + q
<1>1. h \in Nat /\ k \in Nat /\ k <= N /\ e + k > N
  OBVIOUS
<1>2. k > 0
  BY <1>1
<1>3. c * k - e * h = s
  <2>1. c * k - e * h = c * q - e * p
    OBVIOUS
  <2> QED BY <2>1
<1>4. c * y - e * x = r * s
  <2>1. c * y - e * x = r * (c * q - e * p)
    OBVIOUS
  <2> QED BY <2>1
<1>5. h * y - k * x = (f * r - d) * s
  <2>1. h * y - k * x = (f * r - d) * (c * q - e * p)
    OBVIOUS
  <2> QED BY <2>1
<1>6. f * r - d < 0
  BY f * 0 = 0
<1> QED BY <1>1, <1>2, <1>3, <1>4, <1>5, <1>6

\* If the next denominator, a * e + q, is out of range, then f is below a.
LEMMA FloorBelow ==
  ASSUME NEW e \in Nat, NEW q \in Nat, NEW d \in Nat, NEW r \in Nat, NEW f \in Nat, NEW N \in Nat,
         NEW a \in Nat, NEW r2 \in Nat,
         r > 0, f * e <= N - q, a * e + q > N, d >= a * r + r2
  PROVE  f * r < d
<1>1. f < a
  <2> SUFFICES ASSUME f >= a  PROVE FALSE
    OBVIOUS
  <2>1. f * e >= a * e
    OBVIOUS
  <2> QED BY <2>1
<1>2. f * r + r <= a * r
  BY <1>1
<1> QED BY <1>2

\* The neighbours that the convergents give.
LEMMA NeighborsAround ==
  ASSUME NEW x \in Rational, x.num > 0, x.den > 0, Irreducible(x),
         NEW N \in Nat, N > 0,
         NEW rows \in Rows, Decomposed(rows),
         \A i \in 1 .. Len(rows) : RowOK(x, rows, i)
  PROVE  LET e == PositiveNeighbors(x, N, rows)
         IN /\ e.left \in Rational /\ e.right \in Rational
            /\ Less(e.left, x) /\ Less(x, e.right)
            /\ IF x.den <= N THEN FareyPair(e.left, x, N) /\ FareyPair(x, e.right, N)
                             ELSE FareyPair(e.left, e.right, N)
<1> DEFINE i == LastConvergent(rows, N)
           n == Len(rows)
           C == Convergent(rows, i)
           P == Convergent(rows, i - 1)
           f == (N - P.den) \div C.den
           other == Q(f * C.num + P.num, f * C.den + P.den)
           d == rows[i].divisor
           r == rows[i].remainder
<1>1. n \in Nat /\ n > 0 /\ rows # <<>>
  BY DEF Rows, Decomposed
<1>2. i \in 1 .. n /\ Stops(rows, N, i) /\ \A j \in 1 .. i - 1 : ~Stops(rows, N, j)
  <2>1. N \in Int
    OBVIOUS
  <2> HIDE DEF i
  <2>2. i = LastConvergent(rows, N)
    BY DEF i
  <2> QED BY <1>1, <2>1, <2>2, SearchStops
<1> DEFINE RowType == [divisor : Nat, a : Nat, remainder : Nat, p : Nat, q : Nat]
<1>3. \A j \in 1 .. n : rows[j] \in RowType
  <2> HIDE DEF RowType
  <2>1. rows \in Seq(RowType)
    BY DEF Rows, RowType
  <2> QED BY <2>1
<1>4. RowOK(x, rows, i)
  BY <1>2
<1> HIDE DEF i
<1>5. C = Q(rows[i].p, rows[i].q)
  BY <1>1, <1>2 DEF Convergent
<1>6. C.num \in Nat /\ C.den \in Nat /\ d \in Nat /\ r \in Nat
  BY <1>2, <1>3, <1>5 DEF Q
<1>7. P.num \in Nat /\ P.den \in Nat
  <2>1. CASE i = 1
    BY <2>1 DEF Convergent, Q
  <2>2. CASE i # 1
    <3>1. i - 1 \in 1 .. n
      BY <1>1, <1>2, <2>2
    <3> QED BY <1>1, <1>3, <2>2, <3>1 DEF Convergent, Q
  <2> QED BY <2>1, <2>2
<1>8. /\ d > 0 /\ r < d /\ C.den > 0
      /\ x.num = C.num * d + P.num * r
      /\ x.den = C.den * d + P.den * r
      /\ C.num * P.den - C.den * P.num = IF i % 2 = 1 THEN -1 ELSE 1
  BY <1>4 DEF RowOK
\* The convergent and the one before it have denominators in range.
<1>9. C.den <= N
  <2>1. CASE i = 1
    <3>1. P = Q(1, 0)
      BY <2>1 DEF Convergent
    <3>2. C.num * 0 - C.den * 1 = -1
      BY <1>8, <2>1, <3>1 DEF Q
    <3> QED BY <1>6, <3>2
  <2>2. CASE i # 1
    <3>1. i - 1 \in 1 .. i - 1 /\ i - 1 \in 1 .. n /\ i - 1 # n
      BY <1>1, <1>2, <2>2
    <3>2. ~Stops(rows, N, i - 1)
      BY <1>2, <3>1
    <3>3. ~(rows[i - 1 + 1].q > N) /\ i - 1 + 1 = i
      BY <1>1, <1>2, <3>1, <3>2 DEF Stops
    <3> QED BY <1>5, <1>6, <3>3 DEF Q
  <2> QED BY <2>1, <2>2
<1>10. P.den <= C.den
  <2>1. CASE i = 1
    BY <1>6, <1>8, <2>1 DEF Convergent, Q
  <2>2. CASE i # 1
    <3>1. i - 1 \in 1 .. i /\ i - 1 # 0 /\ i - 1 # -1
      BY <1>1, <1>2, <2>2
    <3>2. rows[i - 1].q <= rows[i].q
      BY <1>2, <3>1, DenominatorsGrow
    <3> QED BY <1>5, <3>1, <3>2 DEF Convergent, Q
  <2> QED BY <2>1, <2>2
<1>11. f \in Nat /\ f * C.den <= N - P.den /\ N - P.den < f * C.den + C.den
  <2> HIDE DEF C, P
  <2>1. N - P.den \in Nat
    BY <1>6, <1>7, <1>9, <1>10
  <2> DEFINE b == C.den  t == N - P.den
  <2>2. b \in Nat /\ b > 0 /\ t \in Nat
    BY <1>6, <1>8, <2>1
  <2> HIDE DEF b, t
  <2>3. t \div b \in Nat /\ (t \div b) * b <= t /\ t < (t \div b) * b + b
    BY <2>2, Division
  <2> QED BY <2>3 DEF b, t
\* The last row gives the number itself; before it the next denominator is out
\* of range, which is what bounds f.
<1>12. x.den <= N => r = 0
  <2> SUFFICES ASSUME x.den <= N, r # 0  PROVE FALSE
    OBVIOUS
  <2>1. i # n
    BY DEF Decomposed
  <2>2. rows[i + 1].q > N /\ i + 1 \in 1 .. n
    BY <1>1, <1>2, <2>1 DEF Stops
  <2>3. rows[i + 1].q <= rows[n].q
    <3>1. n \in 1 .. n /\ i + 1 \in 1 .. n
      BY <1>1, <2>2
    <3> QED BY <3>1, DenominatorsGrow
  <2>4. /\ RowOK(x, rows, n) /\ rows[n].remainder = 0 /\ rows[n].q \in Nat /\ rows[n].divisor \in Nat
        /\ Convergent(rows, n) = Q(rows[n].p, rows[n].q)
    BY <1>1, <1>3 DEF Decomposed, Convergent
  <2>5. x.den = rows[n].q * rows[n].divisor + Convergent(rows, n - 1).den * 0 /\ rows[n].divisor > 0
    BY <2>4 DEF RowOK, Q
  <2>6. Convergent(rows, n - 1).den \in Int
    <3>1. CASE n = 1
      BY <3>1 DEF Convergent, Q
    <3>2. CASE n # 1
      <4> HIDE DEF n
      <4>1. n - 1 \in 1 .. n
        BY <1>1, <3>2
      <4> QED BY <1>1, <1>3, <3>2, <4>1 DEF Convergent, Q
    <3> QED BY <3>1, <3>2
  <2>7. rows[n].q * rows[n].divisor >= rows[n].q
    BY <2>4, <2>5
  <2>8. rows[i + 1].q \in Nat
    BY <1>3, <2>2
  <2>9. x.den = rows[n].q * rows[n].divisor /\ x.den \in Int
    BY <2>4, <2>5, <2>6 DEF Rational
  <2> HIDE DEF r, n
  <2> QED BY <2>2, <2>3, <2>4, <2>7, <2>8, <2>9
<1>13. r = 0 => C.num = x.num /\ C.den = x.den
  <2> SUFFICES ASSUME r = 0  PROVE C.num = x.num /\ C.den = x.den
    OBVIOUS
  <2>1. x.num = C.num * d /\ x.den = C.den * d
    BY <1>6, <1>7, <1>8
  <2>2. d <= 1
    <3> SUFFICES ASSUME d > 1  PROVE FALSE
      BY <1>6
    <3>1. d * C.num = x.num /\ d * C.den = x.den
      BY <1>6, <2>1
    <3>2. C.num \in -x.num .. x.num /\ C.den \in -x.den .. x.den /\ d \in 2 .. x.den
      BY SMTT(30), <1>6, <1>8, <3>1 DEF Rational
    <3>3. Divides(d, x.num) /\ Divides(d, x.den)
      BY <3>1, <3>2 DEF Divides, Magnitude, Rational
    <3> QED BY <3>2, <3>3 DEF Irreducible
  <2>3. d = 1
    BY <1>6, <1>8, <2>2
  <2> QED BY <1>6, <2>1, <2>3
<1>14. r # 0 => f * r < d
  <2> SUFFICES ASSUME r # 0  PROVE f * r < d
    OBVIOUS
  <2>1. i # n
    BY DEF Decomposed
  <2>2. rows[i + 1].q > N /\ i + 1 \in 1 .. n /\ i + 1 > 1 /\ i + 1 - 1 = i /\ i + 1 - 2 = i - 1
        /\ i + 1 # 0 /\ i + 1 # -1
    BY <1>1, <1>2, <2>1 DEF Stops
  <2> DEFINE a2 == rows[i + 1].a  r2 == rows[i + 1].remainder  q2 == rows[i + 1].q  d2 == rows[i + 1].divisor
  <2>3. RowOK(x, rows, i + 1)
    BY <2>2
  <2>4. Convergent(rows, i + 1) = Q(rows[i + 1].p, q2)
    BY <2>2 DEF Convergent
  <2>5. d2 = r /\ d >= a2 * d2 + r2 /\ q2 = a2 * C.den + P.den
    <3> DEFINE j == i + 1
    <3>a. j \in Nat /\ j > 1 /\ j - 1 = i /\ j - 2 = i - 1
      BY <1>1, <1>2, <2>2
    <3>0. j \in Nat /\ j > 1 /\ j - 1 = i /\ j - 2 = i - 1 /\ RowOK(x, rows, j)
      BY <2>3, <3>a
    <3>1. /\ rows[j].divisor = rows[j - 1].remainder
          /\ rows[j - 1].divisor >= rows[j].a * rows[j].divisor + rows[j].remainder
          /\ Convergent(rows, j).den = rows[j].a * Convergent(rows, j - 1).den + Convergent(rows, j - 2).den
      <4> HIDE DEF j
      <4> QED BY <3>0, RowStep
    <3>2. /\ d2 = rows[i].remainder /\ rows[i].divisor >= a2 * d2 + r2
          /\ Convergent(rows, i + 1).den = a2 * Convergent(rows, i).den + Convergent(rows, i - 1).den
      BY <3>0, <3>1
    <3> QED BY <2>4, <3>1, <3>2 DEF Q
  <2>6. a2 \in Nat /\ r2 \in Nat /\ q2 \in Nat
    BY <1>3, <2>2
  <2>7. q2 > N
    BY <2>2
  <2> HIDE DEF a2, r2, q2, d2, d, r, f, C, P
  <2>8. r > 0 /\ r \in Nat
    BY <1>6
  <2>9. a2 * C.den + P.den > N /\ d >= a2 * r + r2
    BY <2>5, <2>7
  <2> QED BY <1>6, <1>7, <1>11, <2>6, <2>8, <2>9, FloorBelow
<1> HIDE DEF C, P, f, d, r, n
<1> DEFINE h == f * C.num + P.num
           k == f * C.den + P.den
           s == IF i % 2 = 1 THEN -1 ELSE 1
<1>15. s \in {-1, 1} /\ C.num * P.den - C.den * P.num = s
  BY <1>8
<1> HIDE DEF s
<1>16. /\ h \in Nat /\ k \in Nat /\ k > 0 /\ k <= N /\ C.den + k > N
       /\ C.num * k - C.den * h = s
       /\ C.num * x.den - C.den * x.num = r * s
       /\ h * x.den - k * x.num = (f * r - d) * s
       /\ f * r - d < 0
  <2> DEFINE c == C.num  e == C.den  p == P.num  q == P.den
  <2>1. /\ c \in Nat /\ e \in Nat /\ p \in Nat /\ q \in Nat /\ d \in Nat /\ r \in Nat /\ f \in Nat
        /\ e > 0 /\ e <= N /\ d > 0 /\ r < d /\ c * q - e * p = s
        /\ f * e <= N - q /\ N - q < f * e + e /\ (r # 0 => f * r < d)
    BY <1>6, <1>7, <1>8, <1>9, <1>11, <1>14, <1>15
  <2>2. x.num = c * d + p * r /\ x.den = e * d + q * r
    BY <1>8
  <2> HIDE DEF c, e, p, q
  <2>3. LET y == c * d + p * r
            z == e * d + q * r
            u == f * c + p
            v == f * e + q
        IN /\ u \in Nat /\ v \in Nat /\ v > 0 /\ v <= N /\ e + v > N
           /\ c * v - e * u = s
           /\ c * z - e * y = r * s
           /\ u * z - v * y = (f * r - d) * s
           /\ f * r - d < 0
    BY <1>15, <2>1, ConvergentArithmetic
  <2> QED BY <2>2, <2>3 DEF c, e, p, q
<1>17. h \in Nat /\ k \in Nat /\ k > 0 /\ k <= N /\ C.den + k > N
  BY <1>16
<1>18. C.num \in Nat /\ C.den \in Nat /\ C.den > 0 /\ C.den <= N
  <2>1. C.den > 0
    BY <1>8
  <2> QED BY <1>6, <1>9, <2>1
<1>19. f * r - d \in Int
  BY <1>6, <1>11
<1>20. other = Q(h, k) /\ other \in Rational
  <2>1. other = Q(h, k)
    OBVIOUS
  <2> HIDE DEF h, k
  <2> QED BY <1>16, <2>1 DEF Q, Rational
<1>21. C \in Rational
  BY <1>2, <1>3, <1>5 DEF Q, Rational
<1>22. x.num \in Int /\ x.den \in Int
  BY DEF Rational
<1>23. x.den > N => r > 0
  BY <1>6, <1>9, <1>13, <1>22
<1> DEFINE e == PositiveNeighbors(x, N, rows)
<1>24. CASE i % 2 = 1
  <2>1. s = -1
    BY <1>24 DEF s
  <2> HIDE DEF h, k
  <2>2. h * x.den - k * x.num > 0
    BY <1>16, <1>19, <2>1
  <2>3. Less(x, other)
    BY <1>16, <1>20, <1>22, <2>2 DEF Less, Q
  <2>4. h * C.den - C.num * k = 1
    <3>1. C.num * k - C.den * h = -1
      BY <1>16, <2>1
    <3> QED BY <1>17, <1>18, <3>1
  <2>5. FareyPair(C, other, N)
    <3>1. other.num = h /\ other.den = k
      BY <1>20 DEF Q
    <3>2. other.num * C.den - C.num * other.den = 1
      BY <2>4, <3>1
    <3>3. other.num >= 0 /\ other.den \in 1 .. N /\ C.num >= 0 /\ C.den \in 1 .. N
      BY <1>17, <1>18, <3>1
    <3>4. C.den + other.den > N
      BY <1>17, <3>1
    <3> QED BY <3>2, <3>3, <3>4 DEF FareyPair
  <2>6. e.right = other /\ e.left = IF x.den <= N THEN FareyPredecessor(other, x, N) ELSE C
    BY <1>24 DEF PositiveNeighbors, i, C, P, f
  <2>7. CASE x.den <= N
    <3>1. C.num = x.num /\ C.den = x.den
      BY <1>12, <1>13, <2>7
    <3>2. FareyPair(x, other, N)
      BY <2>5, <3>1 DEF FareyPair
    <3>3. e.left \in Rational /\ FareyPair(e.left, x, N)
      BY <1>20, <2>6, <2>7, <3>2, Predecessor
    <3>4. Less(e.left, x)
      BY <3>3, PairOrder
    <3> QED BY <1>20, <2>3, <2>6, <2>7, <3>2, <3>3, <3>4
  <2>8. CASE ~(x.den <= N)
    <3>1. C.num * x.den - C.den * x.num < 0
      BY <1>6, <1>16, <1>22, <1>23, <2>1, <2>8
    <3>2. Less(C, x)
      BY <1>6, <1>22, <3>1 DEF Less
    <3> QED BY <1>20, <1>21, <2>3, <2>5, <2>6, <2>8, <3>2
  <2> QED BY <2>7, <2>8
<1>25. CASE i % 2 # 1
  <2>1. s = 1
    BY <1>25 DEF s
  <2> HIDE DEF h, k
  <2>2. h * x.den - k * x.num < 0
    BY <1>16, <1>19, <2>1
  <2>3. Less(other, x)
    BY <1>16, <1>20, <1>22, <2>2 DEF Less, Q
  <2>4. C.num * k - h * C.den = 1
    BY <1>6, <1>16, <2>1
  <2>5. FareyPair(other, C, N)
    <3>1. other.num = h /\ other.den = k
      BY <1>20 DEF Q
    <3>2. C.num * other.den - other.num * C.den = 1
      BY <2>4, <3>1
    <3>3. other.num >= 0 /\ other.den \in 1 .. N /\ C.num >= 0 /\ C.den \in 1 .. N
      BY <1>17, <1>18, <3>1
    <3>4. other.den + C.den > N
      BY <1>17, <1>18, <3>1
    <3> HIDE DEF other
    <3> QED BY <3>2, <3>3, <3>4 DEF FareyPair
  <2>6. e.left = other /\ e.right = IF x.den <= N THEN FareySuccessor(other, x, N) ELSE C
    BY <1>25 DEF PositiveNeighbors, i, C, P, f
  <2>7. CASE x.den <= N
    <3>1. C.num = x.num /\ C.den = x.den
      BY <1>12, <1>13, <2>7
    <3>2. FareyPair(other, x, N)
      BY <2>5, <3>1 DEF FareyPair
    <3>3. e.right \in Rational /\ FareyPair(x, e.right, N)
      BY <1>20, <2>6, <2>7, <3>2, Successor
    <3>4. Less(x, e.right)
      BY <3>3, PairOrder
    <3> QED BY <1>20, <2>3, <2>6, <2>7, <3>2, <3>3, <3>4
  <2>8. CASE ~(x.den <= N)
    <3>1. C.num * x.den - C.den * x.num > 0
      BY <1>6, <1>16, <1>22, <1>23, <2>1, <2>8
    <3>2. Less(x, C)
      BY <1>6, <1>22, <3>1 DEF Less
    <3> QED BY <1>20, <1>21, <2>3, <2>5, <2>6, <2>8, <3>2
  <2> QED BY <2>7, <2>8
<1> QED BY <1>24, <1>25

\* Signs and reciprocals.
LEMMA Flip ==
  ASSUME NEW x \in Rational
  PROVE  /\ Neg(x) \in Rational /\ Recip(x) \in Rational /\ Abs(x) \in Rational
         /\ Neg(Neg(x)) = x /\ Recip(Recip(x)) = x
         /\ Neg(x).num = -x.num /\ Neg(x).den = x.den
         /\ Recip(x).num = x.den /\ Recip(x).den = x.num
         /\ (x.num >= 0 => Abs(x) = x) /\ (x.num <= 0 => Abs(x) = Neg(x))
BY DEF Rational, Neg, Recip, Abs, Magnitude, Q

LEMMA RecipOrder ==
  ASSUME NEW x \in Rational, NEW y \in Rational
  PROVE  Less(Recip(x), Recip(y)) <=> Less(y, x)
BY DEF Rational, Recip, Less, Q

LEMMA NegOrder ==
  ASSUME NEW x \in Rational, NEW y \in Rational
  PROVE  /\ Less(Neg(x), y) <=> Less(Neg(y), x)
         /\ Less(x, Neg(y)) <=> Less(y, Neg(x))
         /\ Less(Neg(x), Neg(y)) <=> Less(y, x)
BY DEF Rational, Neg, Less, Q

LEMMA FlipIrreducible ==
  ASSUME NEW x \in Rational, x.den > 0, Irreducible(x)
  PROVE  /\ Irreducible(Neg(x)) /\ Irreducible(Abs(x))
         /\ x.num > 0 => Irreducible(Recip(x))
<1> DEFINE a == x.num  b == x.den
<1>1. a \in Int /\ b \in Nat
  BY DEF Rational
<1>2. \A d \in 2 .. b : ~(Divides(d, a) /\ Divides(d, b))
  BY DEF Irreducible
<1> HIDE DEF a, b
<1>3. ASSUME NEW d \in Nat, Divides(d, -a)  PROVE Divides(d, a)
  <2>1. PICK u \in -Magnitude(-a) .. Magnitude(-a) : d * u = -a
    BY <1>3 DEF Divides
  <2>2. -u \in -Magnitude(a) .. Magnitude(a) /\ d * (-u) = a
    BY <1>1, <2>1 DEF Magnitude
  <2> QED BY <2>2 DEF Divides
<1>4. \A d \in 2 .. b : ~(Divides(d, -a) /\ Divides(d, b))
  BY <1>1, <1>2, <1>3
<1>5. Irreducible(Neg(x))
  BY <1>4 DEF Irreducible, Neg, Q, a, b
<1>6. Irreducible(Abs(x))
  BY <1>2, <1>4 DEF Irreducible, Abs, Magnitude, Q, a, b
<1>7. ASSUME a > 0  PROVE Irreducible(Recip(x))
  <2>1. ASSUME NEW d \in 2 .. a, Divides(d, a), Divides(d, b)  PROVE FALSE
    <3>1. PICK u \in -Magnitude(b) .. Magnitude(b) : d * u = b
      BY <2>1 DEF Divides
    <3>2. u \in Int /\ d \in Nat /\ d > 1 /\ b > 0
      BY <1>1, <3>1 DEF Magnitude, b
    <3>3. d <= b
      BY <3>1, <3>2
    <3> QED BY <1>1, <1>2, <2>1, <3>2, <3>3
  <2> QED BY <2>1 DEF Irreducible, Recip, Q, a, b
<1> QED BY <1>5, <1>6, <1>7 DEF a

\* The neighbours of any number.  Two fractions are paired if they, or their
\* mirror images, are a Farey pair.
Paired(x, y, N) == FareyPair(x, y, N) \/ FareyPair(Neg(y), Neg(x), N)

LEMMA FirstPair ==
  ASSUME NEW N \in Nat, N > 0
  PROVE  FareyPair(Q(0, 1), Q(1, N), N)
BY DEF FareyPair, Q

LEMMA Enclosing ==
  ASSUME NEW x \in Rational, x.den > 0, Irreducible(x),
         NEW N \in Nat, N > 0,
         NEW rows \in Rows, Decomposed(rows),
         \A i \in 1 .. Len(rows) : RowOK(Abs(x), rows, i)
  PROVE  LET e == EnclosingNeighbors(x, N, rows)
         IN /\ e.left \in Rational /\ e.right \in Rational
            /\ Less(e.left, x) /\ Less(x, e.right)
            /\ IF x.den <= N THEN Paired(e.left, x, N) /\ Paired(x, e.right, N)
                             ELSE Paired(e.left, e.right, N)
            /\ x.num > 0 =>
                 IF x.den <= N THEN FareyPair(e.left, x, N) /\ FareyPair(x, e.right, N)
                               ELSE FareyPair(e.left, e.right, N)
<1> DEFINE e == EnclosingNeighbors(x, N, rows)
<1>0. x.num \in Int /\ x.den \in Int
  BY DEF Rational
<1>1. CASE x.num > 0
  <2>1. Abs(x) = x
    BY <1>0, <1>1, Flip
  <2>2. e = PositiveNeighbors(x, N, rows)
    BY <1>1, <2>1 DEF EnclosingNeighbors
  <2> QED BY <1>1, <2>1, <2>2, NeighborsAround DEF Paired
<1>2. CASE x.num < 0
  <2> DEFINE y == Abs(x)  g == PositiveNeighbors(y, N, rows)
  <2>1. y = Neg(x) /\ y \in Rational /\ y.num > 0 /\ y.den = x.den /\ Irreducible(y)
    BY <1>0, <1>2, Flip, FlipIrreducible
  <2> HIDE DEF y
  <2>a. \A i \in 1 .. Len(rows) : RowOK(y, rows, i)
    BY DEF y
  <2>2. /\ g.left \in Rational /\ g.right \in Rational
        /\ Less(g.left, y) /\ Less(y, g.right)
        /\ IF y.den <= N THEN FareyPair(g.left, y, N) /\ FareyPair(y, g.right, N)
                         ELSE FareyPair(g.left, g.right, N)
    BY <2>1, <2>a, NeighborsAround
  <2>3. e.left = Neg(g.right) /\ e.right = Neg(g.left)
    BY <1>0, <1>2 DEF EnclosingNeighbors, y
  <2> HIDE DEF e, g
  <2>4. Neg(e.left) = g.right /\ Neg(e.right) = g.left /\ e.left \in Rational /\ e.right \in Rational
    BY <2>2, <2>3, Flip
  <2>5. Less(e.left, x) /\ Less(x, e.right)
    BY <2>1, <2>2, <2>3, NegOrder
  <2>6. IF x.den <= N THEN Paired(e.left, x, N) /\ Paired(x, e.right, N)
                      ELSE Paired(e.left, e.right, N)
    BY <2>1, <2>2, <2>4 DEF Paired
  <2>7. ~(x.num > 0)
    BY <1>0, <1>2
  <2> QED BY <2>4, <2>5, <2>6, <2>7 DEF e
<1>3. CASE x.num = 0
  <2>1. x.den = 1
    <3>1. Divides(x.den, 0) /\ Divides(x.den, x.den)
      <4>1. 0 \in -Magnitude(0) .. Magnitude(0) /\ x.den * 0 = 0
        BY <1>0 DEF Magnitude
      <4>2. 1 \in -Magnitude(x.den) .. Magnitude(x.den) /\ x.den * 1 = x.den
        BY <1>0 DEF Magnitude
      <4> QED BY <4>1, <4>2 DEF Divides
    <3> QED BY <1>0, <1>3, <3>1 DEF Irreducible
  <2>2. x = Q(0, 1)
    BY <1>3, <2>1 DEF Rational, Q
  <2>3. e.left = Q(-1, N) /\ e.right = Q(1, N)
    BY <1>3 DEF EnclosingNeighbors
  <2>4. Neg(Q(-1, N)) = Q(1, N) /\ Neg(Q(0, 1)) = Q(0, 1)
    BY DEF Neg, Q
  <2>5. Paired(e.left, x, N) /\ Paired(x, e.right, N)
    BY <2>2, <2>3, <2>4, FirstPair DEF Paired
  <2>6. Less(e.left, x) /\ Less(x, e.right) /\ e.left \in Rational /\ e.right \in Rational
    BY <2>2, <2>3 DEF Less, Q, Rational
  <2> QED BY <1>3, <2>1, <2>5, <2>6
<1> QED BY <1>0, <1>1, <1>2, <1>3
-----------------------------------------------------------------------------
\* The row the division loop adds: it takes up the last one's divisor and
\* remainder, and the determinant of the convergents changes its sign.
LEMMA RowArithmetic ==
  ASSUME NEW c \in Nat, NEW e \in Nat, NEW p \in Nat, NEW q \in Nat, NEW D \in Nat, NEW d \in Nat,
         NEW x \in Int, NEW y \in Int, NEW s \in {-1, 1},
         d > 0, d < D, e > 0,
         x = c * D + p * d, y = e * D + q * d, c * q - e * p = s
  PROVE  LET a == D \div d
             r == D % d
             c2 == a * c + p
             e2 == a * e + q
         IN /\ a \in Nat /\ a > 0 /\ r \in Nat /\ r < d /\ c2 \in Nat /\ e2 \in Nat /\ e2 > 0
            /\ x = c2 * d + c * r /\ y = e2 * d + e * r
            /\ c2 * e - e2 * c = -s
            /\ D >= a * d + r
<1> DEFINE a == D \div d
           r == D % d
           c2 == a * c + p
           e2 == a * e + q
<1>1. a \in Nat /\ r \in Nat /\ D = d * a + r /\ r < d
  BY Division
<1> HIDE DEF a, r
<1>2. a > 0
  BY <1>1, d * 0 = 0
<1>3. c2 \in Nat /\ e2 \in Nat /\ e2 > 0
  <2>1. a * e >= e
    BY <1>1, <1>2
  <2> QED BY <1>1, <2>1
<1>4. x = c2 * d + c * r /\ y = e2 * d + e * r
  BY <1>1
<1>5. c2 * e - e2 * c = -s
  <2>1. c2 * e - e2 * c = -(c * q - e * p)
    BY <1>1
  <2> QED BY <2>1
<1>6. D >= a * d + r
  BY <1>1
<1> QED BY <1>1, <1>2, <1>3, <1>4, <1>5, <1>6 DEF a, r

LEMMA NextRowOK ==
  ASSUME NEW x \in Rational, x.num >= 0, x.den > 0, NEW rows \in Rows,
         \A i \in 1 .. Len(rows) : RowOK(x, rows, i),
         rows # <<>> => rows[Len(rows)].remainder > 0
  PROVE  LET next == Append(rows, NextRow(x, rows))
         IN /\ next \in Rows
            /\ \A i \in 1 .. Len(next) : RowOK(x, next, i)
            /\ Len(next) = Len(rows) + 1
            /\ next[Len(next)].remainder = NextRow(x, rows).remainder
            /\ NextRow(x, rows).remainder \in Nat
<1> DEFINE n == Len(rows)
           row == NextRow(x, rows)
           next == Append(rows, row)
           RowType == [divisor : Nat, a : Nat, remainder : Nat, p : Nat, q : Nat]
<1>1. n \in Nat /\ rows \in Seq(RowType)
  BY DEF Rows
<1>2. \A j \in 1 .. n : rows[j] \in RowType
  <2> HIDE DEF RowType
  <2> QED BY <1>1
<1>x. x.num \in Nat /\ x.den \in Nat
  BY DEF Rational
<1>3. ASSUME row \in RowType
      PROVE  /\ next \in Seq(RowType) /\ Len(next) = n + 1 /\ next[n + 1] = row
             /\ \A j \in 1 .. n : next[j] = rows[j]
  <2> HIDE DEF RowType, row
  <2> QED BY <1>1, <1>3
<1>4. CASE n = 0
  <2> DEFINE a == x.num \div x.den  r == x.num % x.den
  <2>1. a \in Nat /\ r \in Nat /\ r < x.den /\ x.num = x.den * a + r
    BY <1>x, Division
  <2>2. row = [divisor |-> x.den, a |-> a, remainder |-> r, p |-> a * 1 + 0, q |-> a * 0 + 1]
    BY <1>4 DEF NextRow, Convergent, Q
  <2> HIDE DEF a, r, row
  <2>3. row \in RowType
    BY <1>x, <2>1, <2>2
  <2>4. next[1] = row /\ Len(next) = 1 /\ next \in Rows
    BY <1>3, <1>4, <2>3 DEF Rows
  <2>5. Convergent(next, 1) = Q(a, 1) /\ Convergent(next, 0) = Q(1, 0)
    BY <2>1, <2>2, <2>4 DEF Convergent, Q
  <2>6. RowOK(x, next, 1)
    <3>1. x.num = a * x.den + 1 * r /\ x.den = 1 * x.den + 0 * r
      BY <1>x, <2>1
    <3>2. a * 0 - 1 * 1 = -1 /\ 1 % 2 = 1 /\ 1 - 1 = 0
      BY <2>1
    <3>3. next[1].divisor = x.den /\ next[1].remainder = r
      BY <2>2, <2>4
    <3> HIDE DEF next
    <3> QED BY <1>x, <2>1, <2>5, <3>1, <3>2, <3>3 DEF RowOK, Q
  <2>7. \A i \in 1 .. Len(next) : RowOK(x, next, i)
    BY <2>4, <2>6
  <2>8. row.remainder \in Nat
    BY <2>1, <2>2
  <2> QED BY <1>4, <2>4, <2>7, <2>8 DEF row
<1>5. CASE n # 0
  <2> DEFINE C == Convergent(rows, n)  P == Convergent(rows, n - 1)
             D == rows[n].divisor  d == rows[n].remainder
             a == D \div d  r == D % d
             s == IF n % 2 = 1 THEN -1 ELSE 1
  <2>1. n \in 1 .. n /\ rows # <<>>
    BY <1>1, <1>5
  <2>2. C = Q(rows[n].p, rows[n].q) /\ C.num \in Nat /\ C.den \in Nat /\ D \in Nat /\ d \in Nat /\ d > 0
    BY SMTT(30), <1>1, <1>2, <1>5, <2>1 DEF Convergent, Q
  <2>3. P.num \in Nat /\ P.den \in Nat
    <3>1. CASE n = 1
      BY <3>1 DEF Convergent, Q
    <3>2. CASE n # 1
      <4> HIDE DEF n
      <4>1. n - 1 \in 1 .. n /\ n - 1 # 0 /\ n - 1 # -1
        BY <1>1, <1>5, <3>2
      <4> QED BY <1>2, <4>1 DEF Convergent, Q
    <3> QED BY <3>1, <3>2
  <2>4. RowOK(x, rows, n)
    BY <2>1
  <2>5. /\ d < D /\ C.den > 0 /\ s \in {-1, 1}
        /\ x.num = C.num * D + P.num * d /\ x.den = C.den * D + P.den * d
        /\ C.num * P.den - C.den * P.num = s
    BY <2>4 DEF RowOK
  <2>6. row = [divisor |-> d, a |-> a, remainder |-> r, p |-> a * C.num + P.num, q |-> a * C.den + P.den]
    BY <1>5 DEF NextRow
  <2> DEFINE c2 == a * C.num + P.num  e2 == a * C.den + P.den
  <2>7. /\ a \in Nat /\ a > 0 /\ r \in Nat /\ r < d /\ c2 \in Nat /\ e2 \in Nat /\ e2 > 0
        /\ x.num = c2 * d + C.num * r /\ x.den = e2 * d + C.den * r
        /\ c2 * C.den - e2 * C.num = -s
        /\ D >= a * d + r
    <3> DEFINE c == C.num  e == C.den  p == P.num  q == P.den  h == x.num  k == x.den
    <3>1. /\ c \in Nat /\ e \in Nat /\ p \in Nat /\ q \in Nat /\ D \in Nat /\ d \in Nat
          /\ h \in Int /\ k \in Int /\ s \in {-1, 1} /\ d > 0 /\ d < D /\ e > 0
          /\ h = c * D + p * d /\ k = e * D + q * d /\ c * q - e * p = s
      BY <1>x, <2>2, <2>3, <2>5
    <3> HIDE DEF c, e, p, q, h, k, s, D, d
    <3>2. LET aa == D \div d
              rr == D % d
              cc == aa * c + p
              ee == aa * e + q
          IN /\ aa \in Nat /\ aa > 0 /\ rr \in Nat /\ rr < d /\ cc \in Nat /\ ee \in Nat /\ ee > 0
             /\ h = cc * d + c * rr /\ k = ee * d + e * rr
             /\ cc * e - ee * c = -s
             /\ D >= aa * d + rr
      <4> DEFINE g == s
      <4>1. g \in {-1, 1} /\ c * q - e * p = g
        BY <3>1
      <4> HIDE DEF g
      <4>2. LET aa == D \div d
                rr == D % d
                cc == aa * c + p
                ee == aa * e + q
            IN /\ aa \in Nat /\ aa > 0 /\ rr \in Nat /\ rr < d /\ cc \in Nat /\ ee \in Nat /\ ee > 0
               /\ h = cc * d + c * rr /\ k = ee * d + e * rr
               /\ cc * e - ee * c = -g
               /\ D >= aa * d + rr
        BY <3>1, <4>1, RowArithmetic
      <4> QED BY <4>2 DEF g
    <3> QED BY <3>2 DEF c, e, p, q, h, k
  <2> HIDE DEF row, a, r, c2, e2
  <2>8. row = [divisor |-> d, a |-> a, remainder |-> r, p |-> c2, q |-> e2]
    BY <2>6 DEF c2, e2
  <2>9. row \in RowType
    BY <2>2, <2>7, <2>8
  <2>10. next \in Rows /\ Len(next) = n + 1 /\ next[n + 1] = row /\ \A j \in 1 .. n : next[j] = rows[j]
    BY <1>3, <2>9 DEF Rows
  <2> HIDE DEF n, next, RowType, D, d, C, P, s
  <2>11. \A j \in Int : j <= n /\ j >= -1 => Convergent(next, j) = Convergent(rows, j)
    <3>1. ASSUME NEW j \in Int, j <= n, j >= -1  PROVE Convergent(next, j) = Convergent(rows, j)
      <4>1. CASE j = -1 \/ j = 0
        BY <4>1 DEF Convergent
      <4>2. CASE j \in 1 .. n
        BY <1>1, <2>10, <4>2 DEF Convergent
      <4> QED BY <1>1, <3>1, <4>1, <4>2
    <3> QED BY <3>1
  <2>12. ASSUME NEW i \in 1 .. n  PROVE RowOK(x, next, i)
    <3>1. RowOK(x, rows, i)
      BY DEF n
    <3>2. Convergent(next, i) = Convergent(rows, i) /\ Convergent(next, i - 1) = Convergent(rows, i - 1)
          /\ next[i] = rows[i]
      BY <1>1, <2>10, <2>11
    <3>3. i > 1 => Convergent(next, i - 2) = Convergent(rows, i - 2) /\ next[i - 1] = rows[i - 1]
      BY <1>1, <2>10, <2>11
    <3> QED BY <3>1, <3>2, <3>3 DEF RowOK
  <2>13. RowOK(x, next, n + 1)
    <3> DEFINE j == n + 1
    <3>1. j - 1 = n /\ j - 2 = n - 1 /\ j > 1 /\ j \in Nat /\ j # 0 /\ j # -1
      BY <1>1, <1>5
    <3>2. next[j] = row /\ next[n] = rows[n]
      BY <1>1, <2>1, <2>10
    <3>3. Convergent(next, n) = C /\ Convergent(next, n - 1) = P
      BY <1>1, <2>11 DEF C, P
    <3> HIDE DEF j
    <3>4. Convergent(next, j) = Q(c2, e2)
      BY <2>8, <3>1, <3>2 DEF Convergent
    <3>5. c2 * C.den - e2 * C.num = IF j % 2 = 1 THEN -1 ELSE 1
      <4>1. n % 2 = 1 => j % 2 # 1
        BY <1>1 DEF j
      <4>2. n % 2 # 1 => j % 2 = 1
        BY <1>1 DEF j
      <4> QED BY <2>7, <4>1, <4>2 DEF s
    <3>6. next[j].divisor = d /\ next[j].remainder = r /\ next[j].a = a
          /\ next[j - 1].remainder = d /\ next[j - 1].divisor = D
      BY <2>8, <3>1, <3>2 DEF d, D
    <3>7. C.den >= 0 /\ d > 0
      BY <2>2
    <3>8. e2 = a * C.den + P.den
      BY DEF e2
    <3>9. /\ d > 0 /\ r < d /\ e2 > 0 /\ C.den >= 0 /\ a > 0
          /\ x.num = c2 * d + C.num * r /\ x.den = e2 * d + C.den * r
          /\ D >= a * d + r
      BY <2>7, <3>7
    <3>10. next[j - 1].divisor >= next[j].a * d + r
      BY <3>6, <3>9
    <3>11. RowOK(x, next, j)
      <4> DEFINE c == Convergent(next, j)  q == Convergent(next, j - 1)  q2 == Convergent(next, j - 2)
                 g == next[j]  g1 == next[j - 1]
      <4>1. c.num = c2 /\ c.den = e2 /\ q = C /\ q2 = P /\ g.divisor = d /\ g.remainder = r /\ g.a = a
            /\ g1.remainder = d
        BY <3>1, <3>3, <3>4, <3>6 DEF Q
      <4>2. /\ g.divisor > 0 /\ g.remainder < g.divisor /\ c.den > 0 /\ q.den >= 0
            /\ x.num = c.num * g.divisor + q.num * g.remainder
            /\ x.den = c.den * g.divisor + q.den * g.remainder
            /\ c.num * q.den - c.den * q.num = IF j % 2 = 1 THEN -1 ELSE 1
            /\ g.divisor = g1.remainder /\ g.a > 0
            /\ g1.divisor >= g.a * g.divisor + g.remainder
            /\ c.den = g.a * q.den + q2.den
        BY <3>5, <3>8, <3>9, <3>10, <4>1
      <4> QED BY <4>2 DEF RowOK
    <3> QED BY <3>11 DEF j
  <2>14. \A i \in 1 .. Len(next) : RowOK(x, next, i)
    BY <1>1, <2>10, <2>12, <2>13
  <2>15. row.remainder \in Nat /\ next[Len(next)] = row
    BY <2>7, <2>8, <2>10
  <2> QED BY <2>10, <2>14, <2>15 DEF row, next, n
<1> QED BY <1>4, <1>5
-----------------------------------------------------------------------------
\* A number in lowest terms is the only one of its value.
LEMMA Unique ==
  ASSUME NEW w \in Rational, NEW x \in Rational, NEW y \in Rational, NEW N \in Nat,
         FareyPair(w, x, N), y.den > 0, Irreducible(y), Same(x, y)
  PROVE  y = x
<1> DEFINE a == x.num  b == x.den  c == y.num  d == y.den  e == w.num  f == w.den
           t == c * f - d * e
<1>1. a \in Int /\ b \in Int /\ c \in Int /\ d \in Int /\ e \in Int /\ f \in Int
      /\ a >= 0 /\ b > 0 /\ d > 0 /\ a * f - e * b = 1 /\ a * d = c * b
  BY DEF Rational, FareyPair, Same
<1> HIDE DEF a, b, c, d, e, f
<1>2. t \in Int /\ t * a = c /\ t * b = d
  <2>1. t * a = c * (a * f - e * b) /\ t * b = d * (a * f - e * b)
    BY <1>1
  <2> QED BY <1>1, <2>1
<1>3. t > 0
  BY <1>1, <1>2
<1> HIDE DEF t
<1>4. t <= 1
  <2> SUFFICES ASSUME t > 1  PROVE FALSE
    BY <1>2
  <2>1. t \in 2 .. d /\ a \in -Magnitude(c) .. Magnitude(c) /\ b \in -Magnitude(d) .. Magnitude(d)
    BY <1>1, <1>2, <1>3 DEF Magnitude
  <2>2. Divides(t, c) /\ Divides(t, d)
    BY <1>2, <2>1 DEF Divides
  <2> QED BY <2>1, <2>2 DEF Irreducible, c, d
<1>5. c = a /\ d = b
  BY <1>1, <1>2, <1>3, <1>4
<1> QED BY <1>5 DEF Rational, a, b, c, d

\* Only the first term of a Farey series is zero, and 1/N follows it.
LEMMA FirstTerm ==
  ASSUME NEW u \in Rational, NEW v \in Rational, NEW N \in Nat,
         FareyPair(u, v, N), Less(Q(1, N), v)
  PROVE  u.num > 0
<1> DEFINE a == u.num  b == u.den  c == v.num  d == v.den
<1>1. a \in Nat /\ b \in Nat /\ c \in Nat /\ d \in Nat /\ c * b - a * d = 1 /\ d < c * N /\ b + d > N /\ b > 0
  BY DEF Rational, FareyPair, Less, Q
<1> HIDE DEF a, b, c, d
<1> SUFFICES ASSUME a = 0  PROVE FALSE
  BY <1>1 DEF a
<1>2. c * b = 1
  BY <1>1
<1>3. c = 1 /\ b = 1
  BY <1>1, <1>2
<1> QED BY <1>1, <1>3

\* What the lemmas below are about: a call that was accepted.
Call0 ==
  /\ kmax \in Nat /\ hmax \in Nat /\ kmax > 0 /\ corner \in Rational
  /\ Supplied => /\ corner.num \in 1 .. hmax /\ corner.den \in 1 .. kmax
                 /\ corner.num * kmax = hmax * corner.den

\* A Farey pair that begins below the corner ends at it at the latest.
LEMMA InnerBound ==
  ASSUME Call0, NEW u \in Rational, NEW v \in Rational, FareyPair(u, v, kmax),
         Supplied => Less(u, corner)
  PROVE  InnerPair(u, v)
BY NoneInside DEF Call0, InnerPair

\* Likewise above the corner, for the reciprocals.
LEMMA OuterBound ==
  ASSUME Call0, Supplied, NEW u \in Rational, NEW v \in Rational,
         FareyPair(Recip(v), Recip(u), hmax), v.den > 0, Less(corner, v)
  PROVE  OuterPair(u, v)
<1>1. Less(Recip(v), Recip(corner)) /\ (Less(u, corner) => Less(Recip(corner), Recip(u)))
  BY RecipOrder DEF Call0
<1>2. Recip(corner) \in Rational /\ Recip(corner).den \in 1 .. hmax
      /\ Recip(u) \in Rational /\ Recip(v) \in Rational
  BY Flip DEF Call0
<1>3. ~(Less(Recip(v), Recip(corner)) /\ Less(Recip(corner), Recip(u)))
  BY <1>2, NoneInside DEF Call0
<1> QED BY <1>1, <1>3 DEF OuterPair

\* Everything that a pair of neighbours promises: both are terms in lowest
\* terms, and no term lies between them.
Neighbors(l, r) ==
  /\ l.den > 0 /\ r.den > 0
  /\ InSeries(l) /\ InSeries(r)
  /\ Irreducible(l) /\ Irreducible(r)
  /\ Less(l, r)
  /\ \A z \in Rational : InSeries(z) => ~(Less(l, z) /\ Less(z, r))

LEMMA InnerNeighbors ==
  ASSUME Call0, NEW l \in Rational, NEW r \in Rational, InnerPair(l, r)
  PROVE  Neighbors(l, r)
<1>1. FareyPair(l, r, kmax) /\ (Supplied => ~Less(corner, r))
  BY DEF InnerPair
<1>2. Less(l, r) /\ Irreducible(l) /\ Irreducible(r)
  BY <1>1, PairOrder DEF Call0
<1>3. l.den \in 1 .. kmax /\ r.den \in 1 .. kmax /\ l.num >= 0 /\ r.num >= 0 /\ l.num \in Int /\ r.num \in Int
  BY <1>1 DEF FareyPair, Rational
<1>4. ASSUME Supplied  PROVE r.num <= hmax /\ l.num <= hmax
  <2> DEFINE a == corner.num  b == corner.den  h == r.num  k == r.den  H == hmax  K == kmax
             g == l.num  e == l.den
  <2>1. /\ a \in Nat /\ b \in Nat /\ H \in Nat /\ K \in Nat /\ h \in Nat /\ k \in Nat
        /\ b > 0 /\ k > 0 /\ k <= K /\ a * K = H * b /\ h * b <= a * k
        /\ g \in Nat /\ e \in Nat /\ e > 0 /\ e <= K /\ g * k < h * e
    BY <1>1, <1>2, <1>3, <1>4 DEF Call0, Less, Rational
  <2> HIDE DEF a, b, h, k, H, K, g, e
  <2>2. h * K <= H * k
    <3>1. b * (h * K) <= b * (H * k)
      <4>1. (h * b) * K <= (a * k) * K
        BY <2>1
      <4>2. (a * k) * K = k * (H * b)
        BY <2>1
      <4> QED BY <2>1, <4>1, <4>2
    <3> QED BY <2>1, <3>1
  <2>3. h <= H
    <3>1. H * k <= H * K
      BY <2>1
    <3>2. h * K <= H * K /\ K > 0
      BY <2>1, <2>2, <3>1
    <3> QED BY <2>1, <3>2
  <2>4. g * K <= H * e
    <3>1. (g * k) * K <= (h * e) * K /\ (h * K) * e <= (H * k) * e
      BY <2>1, <2>2
    <3>2. k * (g * K) <= k * (H * e)
      BY <2>1, <3>1
    <3> QED BY <2>1, <3>2
  <2>5. g <= H
    <3>1. H * e <= H * K
      BY <2>1
    <3>2. g * K <= H * K /\ K > 0
      BY <2>1, <2>4, <3>1
    <3> QED BY <2>1, <3>2
  <2> QED BY <2>3, <2>5 DEF h, g, H
<1>5. InSeries(l) /\ InSeries(r)
  BY <1>3, <1>4 DEF InSeries, Magnitude, Supplied
<1>6. \A z \in Rational : InSeries(z) => ~(Less(l, z) /\ Less(z, r))
  BY <1>1, NoneInside DEF InSeries, Call0
<1> QED BY <1>2, <1>3, <1>5, <1>6 DEF Neighbors, Call0

LEMMA OuterNeighbors ==
  ASSUME Call0, NEW l \in Rational, NEW r \in Rational, OuterPair(l, r)
  PROVE  Neighbors(l, r)
<1>1. Supplied /\ r.den > 0 /\ FareyPair(Recip(r), Recip(l), hmax) /\ ~Less(l, corner)
  BY DEF OuterPair
<1>2. Recip(l) \in Rational /\ Recip(r) \in Rational
  BY Flip
<1>3. Less(Recip(r), Recip(l)) /\ Irreducible(Recip(l)) /\ Irreducible(Recip(r))
  BY <1>1, <1>2, PairOrder DEF Call0
<1>4. Less(l, r)
  BY <1>3, RecipOrder
<1> DEFINE g == l.num  e == l.den  h == r.num  k == r.den
<1>5. /\ g \in 1 .. hmax /\ h \in 1 .. hmax /\ e \in Int /\ k \in Int /\ k > 0 /\ e >= 0
      /\ e * h - k * g = 1
  BY <1>1 DEF FareyPair, Recip, Q, Rational
<1>6. e > 0
  <2> SUFFICES ASSUME e = 0  PROVE FALSE
    BY <1>5
  <2>1. k * g = -1
    BY <1>5
  <2> QED BY <1>5, <2>1
<1>7. e <= kmax /\ k <= kmax
  <2> DEFINE a == corner.num  b == corner.den  H == hmax  K == kmax
  <2>1. /\ a \in Nat /\ b \in Nat /\ H \in Nat /\ K \in Nat /\ a > 0 /\ K > 0
        /\ a * K = H * b /\ a * e <= g * b /\ g <= H /\ h <= H /\ g * k < h * e
    BY <1>1, <1>4, <1>5 DEF Call0, Less, Rational
  <2>a. g \in Nat /\ h \in Nat /\ e \in Nat /\ k \in Nat /\ g > 0 /\ h > 0
    BY <1>5, <1>6
  <2> HIDE DEF a, b, H, K, g, e, h, k
  <2>2. H * e <= g * K
    <3>1. a * (H * e) <= a * (g * K)
      <4>1. (a * e) * H <= (g * b) * H
        BY <2>1, <2>a
      <4>2. (g * b) * H = g * (a * K)
        BY <2>1, <2>a
      <4> QED BY <2>1, <2>a, <4>1, <4>2
    <3> QED BY <2>1, <2>a, <3>1
  <2>3. e <= K
    <3>1. g * K <= H * K /\ H > 0
      BY <2>1, <2>a
    <3> QED BY <2>1, <2>a, <2>2, <3>1
  <2>4. H * k <= h * K
    <3>1. (g * k) * H <= (h * e) * H /\ (H * e) * h <= (g * K) * h
      BY <2>1, <2>a, <2>2
    <3>2. g * (H * k) <= g * (h * K)
      BY <2>1, <2>a, <3>1
    <3> QED BY <2>1, <2>a, <3>2
  <2>5. k <= K
    <3>1. h * K <= H * K /\ H > 0
      BY <2>1, <2>a
    <3> QED BY <2>1, <2>a, <2>4, <3>1
  <2> QED BY <2>3, <2>5 DEF K
<1>8. InSeries(l) /\ InSeries(r)
  BY <1>5, <1>6, <1>7 DEF InSeries, Magnitude, Call0
<1>9. Irreducible(l) /\ Irreducible(r)
  <2>1. Recip(l).den > 0 /\ Recip(l).num > 0 /\ Recip(r).den > 0 /\ Recip(r).num > 0
        /\ Recip(Recip(l)) = l /\ Recip(Recip(r)) = r
    BY <1>5, <1>6, Flip
  <2> QED BY <1>2, <1>3, <2>1, FlipIrreducible
<1>10. ASSUME NEW z \in Rational, InSeries(z), Less(l, z), Less(z, r)  PROVE FALSE
  <2>1. Recip(z) \in Rational /\ Recip(z).den = z.num
    BY Flip
  <2>2. Less(Recip(r), Recip(z)) /\ Less(Recip(z), Recip(l))
    BY <1>10, RecipOrder
  <2>3. z.num > 0
    <3> DEFINE i == z.num  j == z.den
    <3>1. g * j < i * e /\ j > 0 /\ i \in Int /\ j \in Int
      BY <1>10 DEF Less, InSeries, Rational
    <3> HIDE DEF i, j, g, e
    <3>2. g * j > 0
      BY <1>5, <3>1
    <3>3. i > 0
      BY <1>5, <1>6, <3>1, <3>2
    <3> QED BY <3>3 DEF i
  <2>4. z.num \in 1 .. hmax
    BY <1>1, <1>10, <2>3 DEF InSeries, Supplied, Magnitude, Rational
  <2> QED BY <1>1, <1>2, <2>1, <2>2, <2>4, NoneInside DEF Call0
<1> QED BY <1>4, <1>5, <1>6, <1>8, <1>9, <1>10 DEF Neighbors

\* The mirror image of two neighbours.
LEMMA MirrorNeighbors ==
  ASSUME NEW l \in Rational, NEW r \in Rational, Neighbors(Neg(r), Neg(l))
  PROVE  Neighbors(l, r)
<1>1. Neg(l).den = l.den /\ Neg(r).den = r.den /\ Neg(l).num = -l.num /\ Neg(r).num = -r.num
      /\ Neg(Neg(l)) = l /\ Neg(Neg(r)) = r /\ Neg(l) \in Rational /\ Neg(r) \in Rational
  BY Flip
<1>2. \A z \in Rational : InSeries(z) <=> InSeries(Neg(z))
  BY DEF InSeries, Magnitude, Neg, Q, Rational
<1>3. InSeries(l) /\ InSeries(r)
  BY <1>2 DEF Neighbors
<1>4. Irreducible(l) /\ Irreducible(r) /\ l.den > 0 /\ r.den > 0
  BY <1>1, FlipIrreducible DEF Neighbors
<1>5. Less(l, r)
  BY NegOrder DEF Neighbors
<1>6. ASSUME NEW z \in Rational, InSeries(z), Less(l, z), Less(z, r)  PROVE FALSE
  <2>1. Neg(z) \in Rational /\ InSeries(Neg(z)) /\ Less(Neg(r), Neg(z)) /\ Less(Neg(z), Neg(l))
    BY <1>2, <1>6, Flip, NegOrder
  <2> QED BY <2>1 DEF Neighbors
<1> QED BY <1>3, <1>4, <1>5, <1>6 DEF Neighbors

LEMMA PairNeighbors ==
  ASSUME Call0, NEW l \in Rational, NEW r \in Rational, Pair(l, r)
  PROVE  Neighbors(l, r)
<1>1. Neg(l) \in Rational /\ Neg(r) \in Rational
  BY Flip
<1> QED BY <1>1, InnerNeighbors, OuterNeighbors, MirrorNeighbors DEF Pair

LEMMA MirrorPair ==
  ASSUME NEW l \in Rational, NEW r \in Rational
  PROVE  Pair(Neg(r), Neg(l)) <=> Pair(l, r)
<1>1. Neg(Neg(l)) = l /\ Neg(Neg(r)) = r
  BY Flip
<1> QED BY <1>1 DEF Pair
-----------------------------------------------------------------------------
\* The region of the lower neighbour decides what kind of a pair it is.
LEMMA PairKinds ==
  ASSUME Call0, NEW l \in Rational, NEW r \in Rational, Pair(l, r)
  PROVE  /\ Above(l) => OuterPair(l, r)
         /\ Inner(l) /\ l.num > 0 => InnerPair(l, r)
         /\ Inner(l) /\ l.num < 0 => InnerPair(Neg(r), Neg(l))
         /\ Below(l) => OuterPair(Neg(r), Neg(l))
         /\ l.num > 0 => r.num >= 0
         /\ l.num < 0 => r.num <= 0
<1>0. l.den > 0 /\ r.den > 0 /\ Less(l, r)
  BY PairNeighbors DEF Neighbors
<1>a. l.num \in Int /\ r.num \in Int /\ l.den \in Int /\ r.den \in Int
  BY DEF Rational
<1>b. Neg(l).num = -l.num /\ Neg(r).num = -r.num
  BY Flip
<1>1. InnerPair(l, r) => l.num >= 0 /\ r.num >= 0
  BY DEF InnerPair, FareyPair
<1>2. OuterPair(l, r) => l.num > 0 /\ r.num > 0
  BY DEF OuterPair, FareyPair, Recip, Q
<1>3. InnerPair(Neg(r), Neg(l)) => l.num <= 0 /\ r.num <= 0
  BY <1>a, <1>b DEF InnerPair, FareyPair
<1>4. OuterPair(Neg(r), Neg(l)) => l.num < 0 /\ r.num < 0
  BY <1>a, <1>b DEF OuterPair, FareyPair, Recip, Q
<1>5. l.num > 0 => InnerPair(l, r) \/ OuterPair(l, r)
  BY <1>a, <1>3, <1>4 DEF Pair
<1>6. l.num < 0 => InnerPair(Neg(r), Neg(l)) \/ OuterPair(Neg(r), Neg(l))
  BY <1>a, <1>1, <1>2 DEF Pair
<1>7. ASSUME Above(l)  PROVE OuterPair(l, r)
  <2>1. Supplied /\ Less(corner, l) /\ corner.den > 0 /\ corner.num > 0 /\ corner \in Rational
    BY <1>7 DEF Above, Call0
  <2>2. l.num > 0
    <3> DEFINE a == corner.num  b == corner.den  c == l.num  d == l.den
    <3>1. a * d < c * b /\ a \in Nat /\ b \in Nat /\ c \in Int /\ d \in Nat /\ a > 0 /\ b > 0
      BY <1>0, <1>a, <2>1 DEF Less, Rational
    <3> HIDE DEF a, b, c, d
    <3>2. c > 0
      BY <3>1
    <3> QED BY <3>2 DEF c
  <2>3. Less(corner, r)
    <3>1. ~Less(l, corner)
      BY <1>0, <2>1, Order
    <3> QED BY <1>0, <2>1, Order
  <2> QED BY <1>5, <2>2, <2>3, <2>1 DEF InnerPair
<1>8. ASSUME Inner(l), l.num > 0  PROVE InnerPair(l, r)
  BY <1>5, <1>8 DEF Inner, OuterPair
<1>9. ASSUME Inner(l), l.num < 0  PROVE InnerPair(Neg(r), Neg(l))
  <2> SUFFICES ASSUME OuterPair(Neg(r), Neg(l))  PROVE FALSE
    BY <1>6, <1>9
  <2>1. Supplied /\ ~Less(Neg(r), corner) /\ corner \in Rational /\ corner.den > 0
    BY DEF OuterPair, Call0
  <2>2. Less(Neg(corner), l)
    BY <1>9, <2>1 DEF Inner
  <2>3. ~Less(Neg(corner), r)
    BY <2>1, NegOrder
  <2>4. Neg(corner) \in Rational /\ Neg(corner).den > 0
    BY <2>1, Flip
  <2>5. ~Less(l, Neg(corner)) /\ ~Less(r, l)
    BY <1>0, <2>2, <2>4, Order
  <2> QED BY <1>0, <2>2, <2>3, <2>4, <2>5, Order
<1>10. ASSUME Below(l)  PROVE OuterPair(Neg(r), Neg(l))
  <2>1. Supplied /\ Less(l, Neg(corner)) /\ corner.den > 0 /\ corner.num > 0 /\ corner \in Rational
    BY <1>10 DEF Below, Call0
  <2>2. Less(corner, Neg(l))
    BY <2>1, NegOrder
  <2>3. l.num < 0
    <3> DEFINE a == corner.num  b == corner.den  c == l.num  d == l.den
    <3>1. a * d < (-c) * b /\ a \in Nat /\ b \in Nat /\ c \in Int /\ d \in Nat /\ a > 0 /\ b > 0
      BY <1>0, <1>a, <2>1, <2>2 DEF Less, Rational, Neg, Q
    <3> HIDE DEF a, b, c, d
    <3>2. c < 0
      BY <3>1
    <3> QED BY <3>2 DEF c
  <2> QED BY <1>6, <2>1, <2>2, <2>3 DEF InnerPair
<1>11. l.num > 0 => r.num >= 0
  BY <1>a, <1>1, <1>2, <1>5
<1>12. l.num < 0 => r.num <= 0
  BY <1>a, <1>3, <1>4, <1>6
<1> QED BY <1>7, <1>8, <1>9, <1>10, <1>11, <1>12

\* The seven moves to the left.  A move to the right is one of them on the
\* mirror image.
LEMMA MoveAbove ==
  ASSUME Call0, NEW l \in Rational, NEW r \in Rational, Pair(l, r), Above(l)
  PROVE  LET m == Recip(FareySuccessor(Recip(r), Recip(l), hmax)) IN m \in Rational /\ Pair(m, l)
<1> DEFINE z == FareySuccessor(Recip(r), Recip(l), hmax)
<1>1. FareyPair(Recip(r), Recip(l), hmax)
  BY PairKinds DEF OuterPair
<1>2. z \in Rational /\ FareyPair(Recip(l), z, hmax)
  BY <1>1, Flip, Successor DEF Call0
<1> HIDE DEF z
<1>3. Recip(z) \in Rational /\ Recip(Recip(z)) = z
  BY <1>2, Flip
<1>4. Supplied /\ Less(corner, l) /\ l.den > 0
  BY PairNeighbors DEF Above, Neighbors
<1>5. OuterPair(Recip(z), l)
  BY <1>2, <1>3, <1>4, OuterBound
<1> QED BY <1>3, <1>5 DEF Pair, z

LEMMA MoveAtCorner ==
  ASSUME Call0, NEW l \in Rational, NEW r \in Rational, Pair(l, r), AtCorner(l),
         minusOne \in Rational, FareyPair(minusOne, corner, kmax)
  PROVE  Pair(minusOne, l)
<1>1. l = corner
  <2>1. Same(corner, l) /\ l.den > 0 /\ Irreducible(l)
    BY PairNeighbors DEF AtCorner, Neighbors
  <2> QED BY <2>1, Unique DEF Call0
<1>2. ~Less(corner, corner)
  BY DEF Less, Call0, Rational
<1> QED BY <1>1, <1>2 DEF Pair, InnerPair

LEMMA MovePositive ==
  ASSUME Call0, NEW l \in Rational, NEW r \in Rational, Pair(l, r), Inner(l), l.num > 0
  PROVE  LET m == FareyPredecessor(r, l, kmax) IN m \in Rational /\ Pair(m, l)
<1> DEFINE m == FareyPredecessor(r, l, kmax)
<1>1. FareyPair(l, r, kmax)
  BY PairKinds DEF InnerPair
<1>2. m \in Rational /\ FareyPair(m, l, kmax)
  BY <1>1, Predecessor DEF Call0
<1>3. Supplied => ~Less(corner, l)
  <2>1. l.den > 0 /\ (Supplied => Less(l, corner) /\ corner \in Rational /\ corner.den > 0)
    BY PairNeighbors DEF Inner, Neighbors, Call0
  <2> QED BY <2>1, Order
<1> QED BY <1>2, <1>3 DEF Pair, InnerPair

LEMMA MoveZero ==
  ASSUME Call0, NEW l \in Rational, NEW r \in Rational, Pair(l, r), l.num = 0
  PROVE  l = Q(0, 1) /\ Pair(Q(-1, kmax), l)
<1>1. l.den > 0 /\ Irreducible(l) /\ l.den \in Int
  BY PairNeighbors DEF Neighbors, Rational
<1>2. l.den = 1
  <2>1. Divides(l.den, 0) /\ Divides(l.den, l.den)
    <3>1. 0 \in -Magnitude(0) .. Magnitude(0) /\ l.den * 0 = 0
      BY <1>1 DEF Magnitude
    <3>2. 1 \in -Magnitude(l.den) .. Magnitude(l.den) /\ l.den * 1 = l.den
      BY <1>1 DEF Magnitude
    <3> QED BY <3>1, <3>2 DEF Divides
  <2> QED BY <1>1, <2>1 DEF Irreducible
<1>3. l = Q(0, 1)
  BY <1>2 DEF Rational, Q
<1>4. Neg(Q(-1, kmax)) = Q(1, kmax) /\ Neg(Q(0, 1)) = Q(0, 1)
  BY DEF Neg, Q
<1>5. FareyPair(Q(0, 1), Q(1, kmax), kmax)
  BY FirstPair DEF Call0
<1>6. Supplied => Less(Q(0, 1), corner)
  BY DEF Less, Q, Call0, Rational
<1>7. Q(0, 1) \in Rational /\ Q(1, kmax) \in Rational
  BY DEF Call0, Q, Rational
<1>8. InnerPair(Q(0, 1), Q(1, kmax))
  BY <1>5, <1>6, <1>7, InnerBound
<1> QED BY <1>3, <1>4, <1>8 DEF Pair

LEMMA MoveNegative ==
  ASSUME Call0, NEW l \in Rational, NEW r \in Rational, Pair(l, r), Inner(l), l.num < 0
  PROVE  LET z == FareySuccessor(Neg(r), Neg(l), kmax)
         IN z \in Rational /\ Neg(z) \in Rational /\ Pair(Neg(z), l)
<1> DEFINE z == FareySuccessor(Neg(r), Neg(l), kmax)
<1>0. Neg(l) \in Rational /\ Neg(r) \in Rational
  BY Flip
<1>1. FareyPair(Neg(r), Neg(l), kmax)
  BY PairKinds DEF InnerPair
<1>2. z \in Rational /\ FareyPair(Neg(l), z, kmax)
  BY <1>0, <1>1, Successor DEF Call0
<1> HIDE DEF z
<1>3. Supplied => Less(Neg(l), corner)
  BY NegOrder DEF Inner, Call0
<1>4. InnerPair(Neg(l), z)
  BY <1>0, <1>2, <1>3, InnerBound
<1>5. Neg(z) \in Rational /\ Neg(Neg(z)) = z
  BY <1>2, Flip
<1> QED BY <1>2, <1>4, <1>5 DEF Pair, z

\* The neighbour above the corner is a number if the corner is not the last term.
LEMMA CornerUp ==
  ASSUME Call0, Supplied, plusOne \in Rational, Irreducible(corner),
         FareyPair(Recip(plusOne), Recip(corner), hmax), Less(corner, Q(hmax, 1))
  PROVE  plusOne.den > 0 /\ OuterPair(corner, plusOne)
<1>1. Less(Q(1, hmax), Recip(corner))
  BY DEF Less, Recip, Q, Call0, Rational
<1>2. Recip(plusOne).num > 0
  <2>1. Recip(plusOne) \in Rational /\ Recip(corner) \in Rational
    BY Flip DEF Call0
  <2> QED BY <1>1, <2>1, FirstTerm DEF Call0
<1>3. ~Less(corner, corner)
  BY DEF Less, Call0, Rational
<1> QED BY <1>2, <1>3 DEF OuterPair, Recip, Q

LEMMA MoveAtNegCorner ==
  ASSUME Call0, NEW l \in Rational, NEW r \in Rational, Pair(l, r), AtNegCorner(l), ~AtLeftEnd(l),
         minusOne \in Rational, FareyPair(minusOne, corner, kmax), plusOne \in Rational,
         Irreducible(corner), FareyPair(Recip(plusOne), Recip(corner), hmax)
  PROVE  Neg(plusOne) \in Rational /\ Pair(Neg(plusOne), l)
<1>0. Neg(l) \in Rational /\ Neg(Neg(l)) = l /\ Neg(plusOne) \in Rational /\ Neg(Neg(plusOne)) = plusOne
  BY Flip
<1>1. Neg(l) = corner
  <2>1. Same(corner, Neg(l))
    BY DEF AtNegCorner, Same, Neg, Q, Call0, Rational
  <2>2. Neg(l).den > 0 /\ Irreducible(Neg(l))
    BY PairNeighbors, Flip, FlipIrreducible DEF Neighbors
  <2> QED BY <1>0, <2>1, <2>2, Unique DEF Call0
<1>2. Supplied /\ Less(Q(-hmax, 1), l)
  BY DEF AtNegCorner, AtLeftEnd
<1>3. Less(corner, Q(hmax, 1))
  <2>1. Q(-hmax, 1) = Neg(Q(hmax, 1)) /\ Q(hmax, 1) \in Rational
    BY DEF Neg, Q, Call0, Rational
  <2> QED BY <1>0, <1>1, <1>2, <2>1, NegOrder
<1>4. OuterPair(corner, plusOne)
  BY <1>2, <1>3, CornerUp
<1> QED BY <1>0, <1>1, <1>4 DEF Pair

LEMMA MoveBelow ==
  ASSUME Call0, NEW l \in Rational, NEW r \in Rational, Pair(l, r), Below(l), ~AtLeftEnd(l)
  PROVE  LET z == FareyPredecessor(Recip(Neg(r)), Recip(Neg(l)), hmax)
         IN z \in Rational /\ Neg(Recip(z)) \in Rational /\ Pair(Neg(Recip(z)), l)
<1> DEFINE z == FareyPredecessor(Recip(Neg(r)), Recip(Neg(l)), hmax)
<1>0. Neg(l) \in Rational /\ Neg(r) \in Rational /\ Recip(Neg(l)) \in Rational /\ Recip(Neg(r)) \in Rational
      /\ Neg(l).den = l.den /\ Recip(Neg(l)).num = Neg(l).den /\ Neg(Neg(l)) = l
  BY Flip
<1>1. FareyPair(Recip(Neg(l)), Recip(Neg(r)), hmax)
  BY PairKinds DEF OuterPair
<1>2. l.den > 0 /\ l.den \in Int
  BY PairNeighbors DEF Neighbors, Rational
<1>3. z \in Rational /\ FareyPair(z, Recip(Neg(l)), hmax)
  BY <1>0, <1>1, <1>2, Predecessor DEF Call0
<1> HIDE DEF z
<1>4. Supplied /\ Less(Q(-hmax, 1), l) /\ Less(l, Neg(corner))
  BY DEF Below, AtLeftEnd
<1>5. Less(Neg(l), Q(hmax, 1))
  <2>1. Q(-hmax, 1) = Neg(Q(hmax, 1)) /\ Q(hmax, 1) \in Rational
    BY DEF Neg, Q, Call0, Rational
  <2> QED BY <1>4, <2>1, NegOrder
<1>6. Less(Q(1, hmax), Recip(Neg(l)))
  <2>1. Q(1, hmax) = Recip(Q(hmax, 1)) /\ Q(hmax, 1) \in Rational
    BY DEF Recip, Q, Call0, Rational
  <2> QED BY <1>0, <1>5, <2>1, RecipOrder
<1>7. z.num > 0
  BY <1>0, <1>3, <1>6, FirstTerm DEF Call0
<1>8. ~Less(Neg(l), corner)
  <2>1. Less(corner, Neg(l))
    BY <1>4, NegOrder DEF Call0
  <2> QED BY <1>0, <1>2, <1>4, <2>1, Order DEF Call0
<1>9. Recip(z) \in Rational /\ Recip(Recip(z)) = z /\ Recip(z).den = z.num
      /\ Neg(Recip(z)) \in Rational /\ Neg(Neg(Recip(z))) = Recip(z)
  BY <1>3, Flip
<1>10. OuterPair(Neg(l), Recip(z))
  BY <1>3, <1>4, <1>7, <1>8, <1>9 DEF OuterPair
<1> QED BY <1>0, <1>3, <1>9, <1>10 DEF Pair, z
-----------------------------------------------------------------------------
LEMMA MirrorRegions ==
  ASSUME Call0, NEW x \in Rational
  PROVE  /\ Above(Neg(x)) <=> Below(x)
         /\ AtCorner(Neg(x)) <=> AtNegCorner(x)
         /\ Inner(Neg(x)) <=> Inner(x)
         /\ AtNegCorner(Neg(x)) <=> AtCorner(x)
         /\ Below(Neg(x)) <=> Above(x)
         /\ AtLeftEnd(Neg(x)) <=> AtRightEnd(x)
<1>1. Less(corner, Neg(x)) <=> Less(x, Neg(corner))
  BY NegOrder DEF Call0
<1>2. Less(Neg(corner), Neg(x)) <=> Less(x, corner)
  BY NegOrder DEF Call0
<1>3. Less(Neg(x), corner) <=> Less(Neg(corner), x)
  BY NegOrder DEF Call0
<1>4. Less(Neg(x), Neg(corner)) <=> Less(corner, x)
  BY NegOrder DEF Call0
<1>5. Less(Q(-hmax, 1), Neg(x)) <=> Less(x, Q(hmax, 1))
  <2>1. Q(-hmax, 1) = Neg(Q(hmax, 1)) /\ Q(hmax, 1) \in Rational
    BY DEF Neg, Q, Call0, Rational
  <2> QED BY <2>1, NegOrder
<1>6. (Same(corner, Neg(x)) <=> Same(Neg(corner), x)) /\ (Same(Neg(corner), Neg(x)) <=> Same(corner, x))
  <2> DEFINE a == corner.num  b == corner.den  c == x.num  d == x.den
  <2>1. a \in Int /\ b \in Int /\ c \in Int /\ d \in Int
    BY DEF Call0, Rational
  <2> HIDE DEF a, b, c, d
  <2>2. (a * d = (-c) * b <=> (-a) * d = c * b) /\ ((-a) * d = (-c) * b <=> a * d = c * b)
    <3>1. (-c) * b = -(c * b) /\ (-a) * d = -(a * d) /\ a * d \in Int /\ c * b \in Int
      BY <2>1
    <3> QED BY <3>1
  <2> QED BY <2>2 DEF Same, Neg, Q, a, b, c, d
<1> QED BY <1>1, <1>2, <1>3, <1>4, <1>5, <1>6
        DEF Above, AtCorner, Inner, AtNegCorner, Below, AtLeftEnd, AtRightEnd

\* A number beyond the corner is not zero.
LEMMA AboveIsPositive ==
  ASSUME Call0, NEW x \in Rational, x.den > 0
  PROVE  (Above(x) => x.num > 0) /\ (Below(x) => x.num < 0)
<1>1. ASSUME NEW y \in Rational, y.den > 0, Above(y)  PROVE y.num > 0
  <2> DEFINE a == corner.num  b == corner.den  c == y.num  d == y.den
  <2>1. a * d < c * b /\ a \in Nat /\ b \in Nat /\ c \in Int /\ d \in Nat /\ a > 0 /\ b > 0
    BY <1>1 DEF Less, Rational, Above, Call0
  <2> HIDE DEF a, b, c, d
  <2>2. c > 0
    BY <2>1
  <2> QED BY <2>2 DEF c
<1>2. Neg(x) \in Rational /\ Neg(x).den > 0 /\ Neg(x).num = -x.num /\ x.num \in Int
  BY Flip DEF Rational
<1>3. Below(x) => Above(Neg(x))
  BY MirrorRegions
<1> QED BY <1>1, <1>2, <1>3

\* A number lies in one of the five parts.
LEMMA Regions ==
  ASSUME Call0, NEW x \in Rational, x.den > 0
  PROVE  Inner(x) \/ Below(x) \/ AtNegCorner(x) \/ AtCorner(x) \/ Above(x)
BY DEF Call0, Inner, Below, AtNegCorner, AtCorner, Above, Less, Same, Neg, Q, Rational

\* The first frame around a number that is not beyond the corners.
LEMMA InnerFrame ==
  ASSUME Call0, NEW x \in Rational, x.den > 0, Inner(x),
         NEW u \in Rational, NEW v \in Rational, Less(u, x), Less(x, v),
         IF x.den <= kmax THEN Paired(u, x, kmax) /\ Paired(x, v, kmax) ELSE Paired(u, v, kmax)
  PROVE  IF x.den <= kmax THEN Pair(u, x) /\ Pair(x, v) ELSE Pair(u, v)
<1>1. u.den > 0 /\ v.den > 0
  BY Flip DEF Paired, FareyPair, Call0
<1>2. Supplied => Less(u, corner) /\ Less(x, corner)
  <2>1. Supplied => Less(x, corner) /\ corner \in Rational /\ corner.den > 0
    BY DEF Inner, Call0
  <2>2. ~Less(x, u)
    BY <1>1, Order
  <2> QED BY <1>1, <2>1, <2>2, Order
<1>3. Supplied => Less(Neg(v), corner) /\ Less(Neg(x), corner)
  <2>1. Supplied => Less(Neg(corner), x) /\ Neg(corner) \in Rational /\ Neg(corner).den > 0 /\ corner \in Rational
    BY Flip DEF Inner, Call0
  <2>2. ~Less(v, x)
    BY <1>1, Order
  <2>3. Supplied => Less(Neg(corner), v)
    BY <1>1, <2>1, <2>2, Order
  <2> QED BY <2>1, <2>3, NegOrder
<1>4. Neg(u) \in Rational /\ Neg(v) \in Rational /\ Neg(x) \in Rational
  BY Flip
<1>5. ASSUME NEW p \in Rational, NEW q \in Rational, Paired(p, q, kmax),
             Supplied => Less(p, corner), Supplied => Less(Neg(q), corner)
      PROVE  Pair(p, q)
  <2>1. Neg(p) \in Rational /\ Neg(q) \in Rational
    BY Flip
  <2> QED BY <1>5, <2>1, InnerBound DEF Paired, Pair
<1>6. Paired(u, x, kmax) => Pair(u, x)
  BY <1>2, <1>3, <1>5
<1>7. Paired(x, v, kmax) => Pair(x, v)
  BY <1>2, <1>3, <1>5
<1>8. Paired(u, v, kmax) => Pair(u, v)
  BY <1>2, <1>3, <1>5
<1> QED BY <1>6, <1>7, <1>8

\* The first frame around a number above the corner, from the neighbours u and
\* v of its reciprocal.
LEMMA OuterFrame ==
  ASSUME Call0, NEW x \in Rational, x.den > 0, Above(x), ~Less(Q(hmax, 1), x),
         NEW u \in Rational, NEW v \in Rational, Less(u, Recip(x)), Less(Recip(x), v),
         IF x.num <= hmax THEN FareyPair(u, Recip(x), hmax) /\ FareyPair(Recip(x), v, hmax)
                          ELSE FareyPair(u, v, hmax)
  PROVE  /\ Recip(u) \in Rational /\ Recip(v) \in Rational
         /\ IF x.num <= hmax THEN Pair(Recip(v), x) /\ (~AtRightEnd(x) => Pair(x, Recip(u)))
                             ELSE Pair(Recip(v), Recip(u))
         /\ Less(Recip(v), x)
         /\ x.num > hmax \/ ~AtRightEnd(x) => Less(x, Recip(u))
<1>1. /\ Supplied /\ Less(corner, x) /\ x.num > 0 /\ x.num \in Int
      /\ Recip(x) \in Rational /\ Recip(x).den = x.num /\ Recip(x).num = x.den /\ Recip(Recip(x)) = x
      /\ Recip(u) \in Rational /\ Recip(v) \in Rational /\ Recip(Recip(u)) = u /\ Recip(Recip(v)) = v
      /\ Recip(u).den = u.num
  BY AboveIsPositive, Flip DEF Above, Rational
<1>2. Less(Recip(v), x) /\ Less(x, Recip(u))
  BY <1>1, RecipOrder
<1>3. u.den > 0 /\ v.den > 0
  BY DEF FareyPair, Call0
<1>4. ASSUME x.num <= hmax  PROVE Pair(Recip(v), x)
  <2>1. OuterPair(Recip(v), x)
    BY <1>1, <1>4, OuterBound
  <2> QED BY <2>1 DEF Pair
<1>5. Q(hmax, 1) \in Rational /\ Q(hmax, 1).den > 0 /\ Q(1, hmax) \in Rational /\ Q(1, hmax).den > 0
      /\ Recip(Q(hmax, 1)) = Q(1, hmax)
  BY <1>1 DEF Q, Rational, Recip, Call0, Supplied
<1>6. ASSUME x.num <= hmax, ~AtRightEnd(x)  PROVE Pair(x, Recip(u))
  <2>1. Less(x, Q(hmax, 1))
    BY <1>1, <1>6 DEF AtRightEnd
  <2>2. Less(Q(1, hmax), Recip(x))
    BY <1>5, <2>1, RecipOrder
  <2>3. u.num > 0
    BY <1>1, <1>6, <2>2, FirstTerm DEF Call0
  <2>4. ~Less(x, corner)
    BY <1>1, Order DEF Call0
  <2>5. OuterPair(x, Recip(u))
    BY <1>1, <1>6, <2>3, <2>4 DEF OuterPair
  <2> QED BY <2>5 DEF Pair
<1>7. ASSUME ~(x.num <= hmax)  PROVE Pair(Recip(v), Recip(u))
  <2>1. ~Less(Recip(x), Q(1, hmax))
    BY <1>5, RecipOrder
  <2>2. Less(Q(1, hmax), v)
    BY <1>1, <1>3, <1>5, <2>1, Order
  <2>3. u.num > 0
    BY <1>7, <2>2, FirstTerm DEF Call0
  <2>4. Less(corner, Recip(u))
    <3>1. corner \in Rational /\ corner.den > 0 /\ ~Less(x, corner)
      BY <1>1, Order DEF Call0
    <3>2. ~Less(Recip(u), x)
      BY <1>1, <1>2, <2>3, Order
    <3> QED BY <1>1, <2>3, <3>1, <3>2, Order
  <2>5. OuterPair(Recip(v), Recip(u))
    BY <1>1, <1>7, <2>3, <2>4, OuterBound
  <2> QED BY <2>5 DEF Pair
<1> QED BY <1>1, <1>2, <1>4, <1>6, <1>7
-----------------------------------------------------------------------------
\* The steps.
LEMMA Given ==
  ASSUME FabInv, Accepted
  PROVE  /\ Call0 /\ norm \in Rational /\ norm.den > 0 /\ Irreducible(norm)
         /\ left \in Rational /\ right \in Rational
         /\ minusOne \in Rational /\ plusOne \in Rational
         /\ Supplied => ~Less(Q(hmax, 1), Abs(norm)) /\ Irreducible(corner)
BY DEF FabInv, TypeOK, CallOK, Call0, Same, Q

LEMMA AdvanceLeftOK ==
  ASSUME FabInv, AdvanceLeft
  PROVE  /\ pc = "advanceLeft" /\ pc' = "queueLeft" /\ UNCHANGED <<call, corners, cf, found>>
         /\ left' \in Rational /\ right' = left /\ Pair(left', left)
<1>0. pc = "advanceLeft"
  BY DEF AdvanceLeft, LeftAbove, LeftAtCorner, LeftPositive, LeftZero, LeftNegative,
         LeftAtNegCorner, LeftBelow, MoveLeft
<1>1. Accepted
  BY <1>0 DEF FabInv, CallOK, Accepted
<1>2. /\ Call0 /\ left \in Rational /\ right \in Rational
      /\ minusOne \in Rational /\ plusOne \in Rational
      /\ Supplied => Irreducible(corner)
  BY <1>1, Given
<1>3. Pair(left, right) /\ ~AtLeftEnd(left)
  BY <1>0, <1>1 DEF FabInv, FrameOK
<1>4. Supplied => /\ FareyPair(minusOne, corner, kmax)
                  /\ FareyPair(Recip(plusOne), Recip(corner), hmax)
  BY <1>0, <1>1 DEF FabInv, CornersOK, AfterCorners
<1>5. /\ left.num \in Int /\ right.num \in Int
      /\ left.num < 0 => right.num <= 0
  BY <1>2, <1>3, PairKinds DEF Rational
<1>6. left.den > 0
  BY <1>2, <1>3, PairNeighbors DEF Neighbors
<1>7. ASSUME NEW m, SetFrame(m, left, "queueLeft"), m \in Rational, Pair(m, left)
      PROVE  /\ pc' = "queueLeft" /\ UNCHANGED <<call, corners, cf, found>>
             /\ left' \in Rational /\ right' = left /\ Pair(left', left)
  BY <1>7 DEF SetFrame
<1>8. CASE LeftAbove
  BY <1>0, <1>2, <1>3, <1>7, <1>8, MoveAbove DEF LeftAbove, MoveLeft
<1>9. CASE LeftAtCorner
  <2>1. AtCorner(left) /\ Supplied
    BY <1>9 DEF LeftAtCorner, AtCorner
  <2> QED BY <1>0, <1>2, <1>3, <1>4, <1>7, <1>9, <2>1, MoveAtCorner DEF LeftAtCorner, MoveLeft
<1>10. CASE LeftPositive
  BY <1>0, <1>2, <1>3, <1>7, <1>10, MovePositive DEF LeftPositive, MoveLeft
<1>11. CASE LeftZero
  <2>1. left = Q(0, 1) /\ Pair(Q(-1, kmax), left)
    BY <1>2, <1>3, <1>11, MoveZero DEF LeftZero
  <2>2. Q(-1, kmax) \in Rational
    BY <1>2 DEF Call0, Q, Rational
  <2>3. SetFrame(Q(-1, kmax), left, "queueLeft")
    BY <1>11, <2>1 DEF LeftZero
  <2> QED BY <1>0, <1>7, <2>1, <2>2, <2>3
<1>12. CASE LeftNegative
  <2>1. Inner(left) /\ left.num < 0
    BY <1>12 DEF LeftNegative
  <2>2. Abs(left) = Neg(left) /\ Abs(right) = Neg(right)
    BY <1>2, <1>5, <2>1, Flip
  <2>3. SetFrame(Neg(FareySuccessor(Neg(right), Neg(left), kmax)), left, "queueLeft")
    BY <1>12, <2>2 DEF LeftNegative, MoveLeft
  <2> QED BY <1>0, <1>2, <1>3, <1>7, <2>1, <2>3, MoveNegative
<1>13. CASE LeftAtNegCorner
  <2>1. AtNegCorner(left) /\ Supplied
    BY <1>13 DEF LeftAtNegCorner, AtNegCorner
  <2> QED BY <1>0, <1>2, <1>3, <1>4, <1>7, <1>13, <2>1, MoveAtNegCorner DEF LeftAtNegCorner, MoveLeft
<1>14. CASE LeftBelow
  <2>1. Below(left)
    BY <1>14 DEF LeftBelow
  <2>2. left.num < 0
    BY <1>2, <1>6, <2>1, AboveIsPositive
  <2>3. Abs(left) = Neg(left) /\ Abs(right) = Neg(right)
    BY <1>2, <1>5, <2>2, Flip
  <2>4. SetFrame(Neg(Recip(FareyPredecessor(Recip(Neg(right)), Recip(Neg(left)), hmax))), left, "queueLeft")
    BY <1>14, <2>3 DEF LeftBelow, MoveLeft
  <2> QED BY <1>0, <1>2, <1>3, <1>7, <2>1, <2>4, MoveBelow
<1> QED BY <1>0, <1>8, <1>9, <1>10, <1>11, <1>12, <1>13, <1>14 DEF AdvanceLeft

LEMMA AdvanceRightOK ==
  ASSUME FabInv, AdvanceRight
  PROVE  /\ pc = "advanceRight" /\ pc' = "queueRight" /\ UNCHANGED <<call, corners, cf, found>>
         /\ right' \in Rational /\ left' = right /\ Pair(right, right')
<1>0. pc = "advanceRight"
  BY DEF AdvanceRight, RightAbove, RightAtCorner, RightPositive, RightZero, RightNegative,
         RightAtNegCorner, RightBelow, MoveRight
<1>1. Accepted
  BY <1>0 DEF FabInv, CallOK, Accepted
<1>2. /\ Call0 /\ left \in Rational /\ right \in Rational
      /\ minusOne \in Rational /\ plusOne \in Rational
      /\ Supplied => Irreducible(corner)
  BY <1>1, Given
<1>3. Pair(left, right) /\ ~AtRightEnd(right)
  BY <1>0, <1>1 DEF FabInv, FrameOK
<1>4. Supplied => /\ FareyPair(minusOne, corner, kmax)
                  /\ FareyPair(Recip(plusOne), Recip(corner), hmax)
  BY <1>0, <1>1 DEF FabInv, CornersOK, AfterCorners
\* The mirror image.
<1> DEFINE l == Neg(right)  r == Neg(left)
<1>5. /\ l \in Rational /\ r \in Rational /\ Neg(l) = right /\ Neg(r) = left
      /\ l.num = -right.num /\ r.num = -left.num /\ l.den = right.den
      /\ right.num \in Int /\ left.num \in Int
  BY <1>2, Flip DEF Rational
<1>6. Pair(l, r)
  BY <1>2, <1>3, MirrorPair
<1>7. ~AtLeftEnd(l)
  BY <1>2, <1>3, MirrorRegions
<1>8. l.den > 0 /\ right.den > 0
  BY <1>2, <1>3, <1>5, PairNeighbors DEF Neighbors
<1>9. l.num > 0 => r.num >= 0
  BY <1>2, <1>5, <1>6, PairKinds
<1> HIDE DEF l, r
<1>10. ASSUME NEW m, SetFrame(right, Neg(m), "queueRight"), m \in Rational, Pair(m, l)
       PROVE  /\ pc' = "queueRight" /\ UNCHANGED <<call, corners, cf, found>>
              /\ right' \in Rational /\ left' = right /\ Pair(right, right')
  <2>1. Neg(m) \in Rational /\ Pair(Neg(l), Neg(m))
    BY <1>5, <1>10, Flip, MirrorPair
  <2> QED BY <1>5, <1>10, <2>1 DEF SetFrame
<1>11. CASE RightBelow
  <2>1. Above(l)
    BY <1>2, <1>11, MirrorRegions DEF RightBelow, l
  <2>2. l.num > 0
    BY <1>2, <1>5, <1>8, <2>1, AboveIsPositive
  <2>3. Abs(right) = l /\ Abs(left) = r
    BY <1>2, <1>5, <1>9, <2>2, Flip DEF l, r
  <2>4. SetFrame(right, Neg(Recip(FareySuccessor(Recip(r), Recip(l), hmax))), "queueRight")
    BY <1>11, <2>3 DEF RightBelow, MoveRight
  <2> QED BY <1>0, <1>2, <1>5, <1>6, <1>10, <2>1, <2>4, MoveAbove
<1>12. CASE RightAtNegCorner
  <2>1. AtCorner(l) /\ Supplied
    BY <1>2, <1>12, MirrorRegions DEF RightAtNegCorner, AtNegCorner, l
  <2>2. SetFrame(right, Neg(minusOne), "queueRight")
    BY <1>12 DEF RightAtNegCorner, MoveRight
  <2> QED BY <1>0, <1>2, <1>4, <1>5, <1>6, <1>10, <2>1, <2>2, MoveAtCorner
<1>13. CASE RightNegative
  <2>1. Inner(l) /\ l.num > 0
    BY <1>2, <1>5, <1>13, MirrorRegions DEF RightNegative, l
  <2>2. Abs(right) = l /\ Abs(left) = r
    BY <1>2, <1>5, <1>9, <2>1, Flip DEF l, r
  <2>3. SetFrame(right, Neg(FareyPredecessor(r, l, kmax)), "queueRight")
    BY <1>13, <2>2 DEF RightNegative, MoveRight
  <2> QED BY <1>0, <1>2, <1>5, <1>6, <1>10, <2>1, <2>3, MovePositive
<1>14. CASE RightZero
  <2>1. l.num = 0
    <3>1. right.num = 0
      BY <1>14 DEF RightZero
    <3>2. l.num = 0 - right.num
      BY <1>5
    <3> QED BY <3>1, <3>2
  <2>2. l = Q(0, 1) /\ Pair(Q(-1, kmax), l)
    BY <1>2, <1>5, <1>6, <2>1, MoveZero
  <2>3. Q(-1, kmax) \in Rational /\ Neg(Q(-1, kmax)) = Q(1, kmax) /\ Neg(Q(0, 1)) = Q(0, 1)
    BY <1>2 DEF Call0, Q, Rational, Neg
  <2>4. SetFrame(right, Neg(Q(-1, kmax)), "queueRight")
    BY <1>5, <1>14, <2>2, <2>3 DEF RightZero
  <2> QED BY <1>0, <1>10, <2>2, <2>3, <2>4
<1>15. CASE RightPositive
  <2>1. Inner(l) /\ l.num < 0
    BY <1>2, <1>5, <1>15, MirrorRegions DEF RightPositive, l
  <2> DEFINE z == FareySuccessor(Neg(r), Neg(l), kmax)
  <2>2. z \in Rational /\ Neg(z) \in Rational /\ Pair(Neg(z), l)
    BY <1>2, <1>5, <1>6, <2>1, MoveNegative
  <2>3. Neg(Neg(z)) = z
    BY <2>2, Flip
  <2>4. SetFrame(right, Neg(Neg(z)), "queueRight")
    BY <1>5, <1>15, <2>3 DEF RightPositive, MoveRight
  <2> HIDE DEF z
  <2> QED BY <1>0, <1>10, <2>2, <2>4
<1>16. CASE RightAtCorner
  <2>1. AtNegCorner(l) /\ Supplied
    BY <1>2, <1>16, MirrorRegions DEF RightAtCorner, AtCorner, l
  <2>2. Neg(Neg(plusOne)) = plusOne
    BY <1>2, Flip
  <2>3. SetFrame(right, Neg(Neg(plusOne)), "queueRight")
    BY <1>16, <2>2 DEF RightAtCorner, MoveRight
  <2>4. Neg(plusOne) \in Rational /\ Pair(Neg(plusOne), l)
    BY <1>2, <1>4, <1>5, <1>6, <1>7, <2>1, MoveAtNegCorner
  <2> QED BY <1>0, <1>10, <2>3, <2>4
<1>17. CASE RightAbove
  <2>1. Below(l)
    BY <1>2, <1>17, MirrorRegions DEF RightAbove, l
  <2> DEFINE z == FareyPredecessor(Recip(Neg(r)), Recip(Neg(l)), hmax)
  <2>2. z \in Rational /\ Neg(Recip(z)) \in Rational /\ Pair(Neg(Recip(z)), l)
    BY <1>2, <1>5, <1>6, <1>7, <2>1, MoveBelow
  <2>3. Neg(Neg(Recip(z))) = Recip(z)
    BY <2>2, Flip
  <2>4. SetFrame(right, Neg(Neg(Recip(z))), "queueRight")
    BY <1>5, <1>17, <2>3 DEF RightAbove, MoveRight
  <2> HIDE DEF z
  <2> QED BY <1>0, <1>10, <2>2, <2>4
<1> QED BY <1>0, <1>11, <1>12, <1>13, <1>14, <1>15, <1>16, <1>17 DEF AdvanceRight
-----------------------------------------------------------------------------
LEMMA Asymmetric ==
  ASSUME NEW x \in Rational, NEW y \in Rational
  PROVE  (Less(x, y) => ~Less(y, x)) /\ ~Less(x, x)
BY DEF Less, Rational

\* What the decompositions give once they are done.
LEMMA AroundOK ==
  ASSUME FabInv, pc \in {"leftFrame", "rightFrame"}
  PROVE  /\ Around.left \in Rational /\ Around.right \in Rational
         /\ Less(Around.left, norm) /\ Less(norm, Around.right)
         /\ IF norm.den <= kmax THEN Paired(Around.left, norm, kmax) /\ Paired(norm, Around.right, kmax)
                                ELSE Paired(Around.left, Around.right, kmax)
<1>1. Accepted
  BY DEF FabInv, CallOK, Accepted
<1>2. Call0 /\ norm \in Rational /\ norm.den > 0 /\ Irreducible(norm)
  BY <1>1, Given
<1>3. cf["rn"] \in Rows /\ Decomposed(cf["rn"])
  BY <1>1 DEF FabInv, TypeOK, StageOK, Part
<1>4. \A i \in 1 .. Len(cf["rn"]) : RowOK(Abs(norm), cf["rn"], i)
  BY <1>1 DEF FabInv, RowsOK, Part, Fraction
<1>5. kmax \in Nat /\ kmax > 0
  BY <1>2 DEF Call0
<1> QED BY <1>2, <1>3, <1>4, <1>5, Enclosing DEF Around

LEMMA AroundRecipOK ==
  ASSUME FabInv, pc \in {"leftFrame", "rightFrame"}, Above(Abs(norm))
  PROVE  LET x == Abs(norm)  u == AroundRecip.left  v == AroundRecip.right
         IN /\ u \in Rational /\ v \in Rational /\ x \in Rational /\ x.den > 0
            /\ Less(u, Recip(x)) /\ Less(Recip(x), v)
            /\ IF x.num <= hmax THEN FareyPair(u, Recip(x), hmax) /\ FareyPair(Recip(x), v, hmax)
                                ELSE FareyPair(u, v, hmax)
            /\ ~Less(Q(hmax, 1), x)
<1> DEFINE x == Abs(norm)  y == Recip(x)
<1>1. Accepted
  BY DEF FabInv, CallOK, Accepted
<1>2. Call0 /\ norm \in Rational /\ norm.den > 0 /\ Irreducible(norm) /\ (Supplied => ~Less(Q(hmax, 1), x))
  BY <1>1, Given
<1>3. cf["recip"] \in Rows /\ Decomposed(cf["recip"])
  BY <1>1 DEF FabInv, TypeOK, StageOK, Part
<1>4. \A i \in 1 .. Len(cf["recip"]) : RowOK(y, cf["recip"], i)
  BY <1>1 DEF FabInv, RowsOK, Part, Fraction
<1>5. x \in Rational /\ x.den = norm.den /\ Irreducible(x)
  BY <1>2, Flip, FlipIrreducible DEF Abs, Q
<1>6. x.num > 0 /\ Supplied
  BY <1>2, <1>5, AboveIsPositive DEF Above
<1> HIDE DEF x
<1>7. y \in Rational /\ y.num > 0 /\ y.den > 0 /\ y.den = x.num /\ Irreducible(y) /\ Abs(y) = y
  <2>1. y \in Rational /\ y.num = x.den /\ y.den = x.num
    BY <1>5, Flip
  <2>2. Irreducible(y)
    BY <1>2, <1>5, <1>6, FlipIrreducible
  <2>3. y.num > 0 /\ y.num \in Int
    BY <1>2, <1>5, <2>1 DEF Rational
  <2>4. Abs(y) = y
    BY <2>1, <2>3, Flip
  <2> QED BY <1>6, <2>1, <2>2, <2>3, <2>4
<1>8. hmax \in Nat /\ hmax > 0
  BY <1>2, <1>6 DEF Call0, Supplied
<1>9. AroundRecip = EnclosingNeighbors(y, hmax, cf["recip"])
  BY DEF AroundRecip, x
<1> HIDE DEF y
<1>10. LET e == EnclosingNeighbors(y, hmax, cf["recip"])
       IN /\ e.left \in Rational /\ e.right \in Rational
          /\ Less(e.left, y) /\ Less(y, e.right)
          /\ IF y.den <= hmax THEN FareyPair(e.left, y, hmax) /\ FareyPair(y, e.right, hmax)
                              ELSE FareyPair(e.left, e.right, hmax)
  BY <1>3, <1>4, <1>7, <1>8, Enclosing
<1> QED BY <1>2, <1>5, <1>6, <1>7, <1>9, <1>10 DEF x, y

\* The frames that the walks begin with.
LEMMA FirstFrames ==
  ASSUME FabInv, pc \in {"leftFrame", "rightFrame"}
  PROVE  /\ Call0
         /\ Inner(norm) =>
              /\ Around.left \in Rational /\ Around.right \in Rational
              /\ Less(Around.left, norm) /\ Less(norm, Around.right)
              /\ IF norm.den <= kmax THEN Pair(Around.left, norm) /\ Pair(norm, Around.right)
                                     ELSE Pair(Around.left, Around.right)
         /\ Above(norm) \/ Below(norm) =>
              LET x == Abs(norm)  low == Recip(AroundRecip.right)  high == Recip(AroundRecip.left)
              IN /\ low \in Rational /\ high \in Rational /\ x \in Rational
                 /\ x = IF Above(norm) THEN norm ELSE Neg(norm)
                 /\ ~(Above(norm) /\ Below(norm))
                 /\ Less(low, x)
                 /\ IF RecipFormable THEN Pair(low, x) /\ (~AtRightEnd(x) => Pair(x, high) /\ Less(x, high))
                                     ELSE Pair(low, high) /\ Less(x, high)
<1>1. Accepted
  BY DEF FabInv, CallOK, Accepted
<1>2. Call0 /\ norm \in Rational /\ norm.den > 0
  BY <1>1, Given
<1>3. ASSUME Inner(norm)
      PROVE  IF norm.den <= kmax THEN Pair(Around.left, norm) /\ Pair(norm, Around.right)
                                 ELSE Pair(Around.left, Around.right)
  BY <1>2, <1>3, AroundOK, InnerFrame
<1>4. ASSUME Above(norm) \/ Below(norm)
      PROVE  LET x == Abs(norm)  low == Recip(AroundRecip.right)  high == Recip(AroundRecip.left)
             IN /\ low \in Rational /\ high \in Rational /\ x \in Rational
                /\ x = IF Above(norm) THEN norm ELSE Neg(norm)
                /\ ~(Above(norm) /\ Below(norm))
                /\ Less(low, x)
                /\ IF RecipFormable THEN Pair(low, x) /\ (~AtRightEnd(x) => Pair(x, high) /\ Less(x, high))
                                    ELSE Pair(low, high) /\ Less(x, high)
  <2> DEFINE x == Abs(norm)  u == AroundRecip.left  v == AroundRecip.right
  <2>1. (Above(norm) => norm.num > 0) /\ (Below(norm) => norm.num < 0) /\ norm.num \in Int
    BY <1>2, AboveIsPositive DEF Rational
  <2>2. x = (IF Above(norm) THEN norm ELSE Neg(norm)) /\ ~(Above(norm) /\ Below(norm))
    BY <1>2, <1>4, <2>1, Flip
  <2>3. Above(x)
    BY <1>2, <1>4, <2>2, MirrorRegions
  <2>4. /\ u \in Rational /\ v \in Rational /\ x \in Rational /\ x.den > 0
        /\ Less(u, Recip(x)) /\ Less(Recip(x), v)
        /\ IF x.num <= hmax THEN FareyPair(u, Recip(x), hmax) /\ FareyPair(Recip(x), v, hmax)
                            ELSE FareyPair(u, v, hmax)
        /\ ~Less(Q(hmax, 1), x)
    BY <2>3, AroundRecipOK
  <2>5. RecipFormable <=> x.num <= hmax
    BY DEF RecipFormable, Abs, Q
  <2>6. x.num \in Int /\ hmax \in Int
    BY <1>2, <2>4 DEF Call0, Rational
  <2> HIDE DEF x, u, v
  <2>7. /\ Recip(u) \in Rational /\ Recip(v) \in Rational
        /\ IF x.num <= hmax THEN Pair(Recip(v), x) /\ (~AtRightEnd(x) => Pair(x, Recip(u)))
                            ELSE Pair(Recip(v), Recip(u))
        /\ Less(Recip(v), x)
        /\ x.num > hmax \/ ~AtRightEnd(x) => Less(x, Recip(u))
    BY <1>2, <2>3, <2>4, OuterFrame
  <2> QED BY <2>2, <2>4, <2>5, <2>6, <2>7 DEF x, u, v
<1> QED BY <1>2, <1>3, <1>4, AroundOK
-----------------------------------------------------------------------------
LEMMA CornerFrames ==
  ASSUME FabInv, pc \in {"leftFrame", "rightFrame"}, AtCorner(norm) \/ AtNegCorner(norm)
  PROVE  /\ Call0 /\ Supplied
         /\ norm = IF AtCorner(norm) THEN corner ELSE Neg(corner)
         /\ ~(AtCorner(norm) /\ AtNegCorner(norm))
         /\ minusOne \in Rational /\ plusOne \in Rational
         /\ Pair(minusOne, corner) /\ Less(minusOne, corner)
         /\ Less(corner, Q(hmax, 1)) => Pair(corner, plusOne) /\ Less(corner, plusOne)
<1>1. Accepted
  BY DEF FabInv, CallOK, Accepted
<1>2. /\ Call0 /\ norm \in Rational /\ norm.den > 0 /\ Irreducible(norm)
      /\ minusOne \in Rational /\ plusOne \in Rational /\ Supplied /\ Irreducible(corner)
  BY <1>1, Given DEF AtCorner, AtNegCorner
<1>3. FareyPair(minusOne, corner, kmax) /\ FareyPair(Recip(plusOne), Recip(corner), hmax)
  BY <1>1, <1>2 DEF FabInv, CornersOK, AfterCorners
<1>4. Pair(minusOne, corner) /\ Less(minusOne, corner)
  <2>1. ~Less(corner, corner) /\ corner \in Rational
    BY <1>2, Asymmetric DEF Call0
  <2>2. Less(minusOne, corner)
    BY <1>2, <1>3, <2>1, PairOrder DEF Call0
  <2> QED BY <1>3, <2>1, <2>2 DEF Pair, InnerPair
<1>5. ASSUME Less(corner, Q(hmax, 1))  PROVE Pair(corner, plusOne) /\ Less(corner, plusOne)
  <2>1. OuterPair(corner, plusOne)
    BY <1>2, <1>3, <1>5, CornerUp
  <2>2. Pair(corner, plusOne)
    BY <2>1 DEF Pair
  <2> QED BY <1>2, <2>2, PairNeighbors DEF Neighbors, Call0
<1>6. AtCorner(norm) => norm = corner
  BY <1>2, <1>3, Unique DEF AtCorner, Call0
<1>7. AtNegCorner(norm) => norm = Neg(corner)
  <2>1. AtNegCorner(norm) => Same(corner, Neg(norm))
    BY <1>2, MirrorRegions DEF AtCorner
  <2>2. Neg(norm) \in Rational /\ Neg(norm).den > 0 /\ Irreducible(Neg(norm)) /\ Neg(Neg(norm)) = norm
    BY <1>2, Flip, FlipIrreducible
  <2> QED BY <1>2, <1>3, <2>1, <2>2, Unique DEF Call0
<1>8. corner # Neg(corner)
  <2>1. corner.num > 0 /\ corner.num \in Int /\ Neg(corner).num = -corner.num
    BY SMTT(30), <1>2, Flip DEF Call0, Rational
  <2> QED BY <2>1
<1> QED BY <1>2, <1>4, <1>5, <1>6, <1>7, <1>8

LEMMA LeftFrameOK ==
  ASSUME FabInv, LeftFrame
  PROVE  /\ pc = "leftFrame" /\ pc' = "queueLeft" /\ UNCHANGED <<call, corners, cf, found>>
         /\ left' \in Rational /\ right' \in Rational /\ Pair(left', right')
         /\ Less(left', norm) /\ ~Less(right', norm)
<1>1. pc = "leftFrame" /\ ~AtLeftEnd(norm)
  BY DEF LeftFrame, NoLefts
<1>2. Accepted
  BY <1>1 DEF FabInv, CallOK, Accepted
<1>3. Call0 /\ norm \in Rational /\ norm.den > 0
  BY <1>2, Given
<1>4. Neg(norm) \in Rational /\ Neg(Neg(norm)) = norm /\ ~Less(norm, norm)
  BY <1>3, Flip, Asymmetric
<1>5. ~AtRightEnd(Neg(norm))
  BY <1>1, <1>3, <1>4, MirrorRegions
<1>6. ASSUME NEW l \in Rational, NEW r \in Rational, SetFrame(l, r, "queueLeft"), Pair(l, r),
             Less(l, norm), ~Less(r, norm)
      PROVE  /\ pc' = "queueLeft" /\ UNCHANGED <<call, corners, cf, found>>
             /\ left' \in Rational /\ right' \in Rational /\ Pair(left', right')
             /\ Less(left', norm) /\ ~Less(right', norm)
  BY <1>6 DEF SetFrame
<1>7. CASE Inner(norm) /\ SetFrame(Around.left, IF norm.den <= kmax THEN norm ELSE Around.right, "queueLeft")
  <2> DEFINE r == IF norm.den <= kmax THEN norm ELSE Around.right
  <2>1. /\ Around.left \in Rational /\ r \in Rational
        /\ Pair(Around.left, r) /\ Less(Around.left, norm) /\ ~Less(r, norm)
    BY <1>1, <1>3, <1>4, <1>7, FirstFrames, Asymmetric
  <2> QED BY <1>1, <1>6, <1>7, <2>1
<1>8. CASE Above(norm) /\ SetFrame(Recip(AroundRecip.right),
                                   IF RecipFormable THEN norm ELSE Recip(AroundRecip.left), "queueLeft")
  <2> DEFINE l == Recip(AroundRecip.right)  r == IF RecipFormable THEN norm ELSE Recip(AroundRecip.left)
  <2>1. l \in Rational /\ r \in Rational /\ Pair(l, r) /\ Less(l, norm) /\ ~Less(r, norm)
    BY <1>1, <1>3, <1>4, <1>8, FirstFrames, Asymmetric
  <2> QED BY <1>1, <1>6, <1>8, <2>1
<1>9. CASE Below(norm) /\ SetFrame(Neg(Recip(AroundRecip.left)),
                                   IF RecipFormable THEN norm ELSE Neg(Recip(AroundRecip.right)), "queueLeft")
  <2> DEFINE x == Neg(norm)  low == Recip(AroundRecip.right)  high == Recip(AroundRecip.left)
             r == IF RecipFormable THEN norm ELSE Neg(low)
  <2>1. /\ low \in Rational /\ high \in Rational /\ Less(low, x)
        /\ IF RecipFormable THEN Pair(x, high) /\ Less(x, high) ELSE Pair(low, high) /\ Less(x, high)
    BY <1>1, <1>5, <1>9, FirstFrames
  <2> HIDE DEF low, high
  <2>2. Neg(low) \in Rational /\ Neg(high) \in Rational /\ r \in Rational
    BY <1>3, <2>1, Flip
  <2>3. Pair(Neg(high), r)
    BY <1>3, <1>4, <2>1, MirrorPair
  <2>4. Less(Neg(high), norm) /\ ~Less(r, norm)
    <3>1. Less(Neg(high), norm)
      BY <1>3, <2>1, NegOrder
    <3>2. ~Less(x, low)
      BY <1>4, <2>1, Asymmetric
    <3>3. ~Less(Neg(low), norm)
      BY <1>3, <2>1, <3>2, NegOrder
    <3> QED BY <1>4, <3>1, <3>3
  <2>5. SetFrame(Neg(high), r, "queueLeft")
    BY <1>9 DEF high, low
  <2> QED BY <1>1, <1>6, <2>2, <2>3, <2>4, <2>5
<1>10. CASE AtNegCorner(norm) /\ SetFrame(Neg(plusOne), Neg(corner), "queueLeft")
  <2>1. /\ norm = Neg(corner) /\ plusOne \in Rational /\ Supplied /\ corner \in Rational
        /\ Less(corner, Q(hmax, 1)) => Pair(corner, plusOne) /\ Less(corner, plusOne)
    BY <1>1, <1>3, <1>10, CornerFrames DEF Call0
  <2>2. Less(corner, Q(hmax, 1))
    <3>1. Neg(norm) = corner
      BY <2>1, Flip
    <3> QED BY <1>5, <2>1, <3>1 DEF AtRightEnd
  <2>3. Neg(plusOne) \in Rational /\ Neg(corner) \in Rational
    BY <2>1, Flip
  <2>4. Pair(Neg(plusOne), Neg(corner)) /\ Less(Neg(plusOne), Neg(corner))
    BY <2>1, <2>2, MirrorPair, NegOrder
  <2> QED BY <1>1, <1>4, <1>6, <1>10, <2>1, <2>3, <2>4
<1>11. CASE AtCorner(norm) /\ SetFrame(minusOne, corner, "queueLeft")
  <2>1. norm = corner /\ minusOne \in Rational /\ Pair(minusOne, corner) /\ Less(minusOne, corner)
    BY <1>1, <1>11, CornerFrames
  <2> QED BY <1>1, <1>3, <1>4, <1>6, <1>11, <2>1
<1> QED BY <1>1, <1>7, <1>8, <1>9, <1>10, <1>11 DEF LeftFrame

LEMMA RightFrameOK ==
  ASSUME FabInv, RightFrame
  PROVE  /\ pc = "rightFrame" /\ pc' = "queueRight" /\ UNCHANGED <<call, corners, cf, found>>
         /\ left' \in Rational /\ right' \in Rational /\ Pair(left', right')
         /\ Less(norm, right') /\ ~Less(norm, left')
<1>1. pc = "rightFrame" /\ ~AtRightEnd(norm)
  BY DEF RightFrame, NoRights
<1>2. Accepted
  BY <1>1 DEF FabInv, CallOK, Accepted
<1>3. Call0 /\ norm \in Rational /\ norm.den > 0
  BY <1>2, Given
<1>4. Neg(norm) \in Rational /\ Neg(Neg(norm)) = norm /\ ~Less(norm, norm)
  BY <1>3, Flip, Asymmetric
<1>6. ASSUME NEW l \in Rational, NEW r \in Rational, SetFrame(l, r, "queueRight"), Pair(l, r),
             Less(norm, r), ~Less(norm, l)
      PROVE  /\ pc' = "queueRight" /\ UNCHANGED <<call, corners, cf, found>>
             /\ left' \in Rational /\ right' \in Rational /\ Pair(left', right')
             /\ Less(norm, right') /\ ~Less(norm, left')
  BY <1>6 DEF SetFrame
<1>7. CASE Inner(norm) /\ SetFrame(IF norm.den <= kmax THEN norm ELSE Around.left, Around.right, "queueRight")
  <2> DEFINE l == IF norm.den <= kmax THEN norm ELSE Around.left
  <2>1. /\ Around.right \in Rational /\ l \in Rational
        /\ Pair(l, Around.right) /\ Less(norm, Around.right) /\ ~Less(norm, l)
    BY <1>1, <1>3, <1>4, <1>7, FirstFrames, Asymmetric
  <2> QED BY <1>1, <1>6, <1>7, <2>1
<1>8. CASE Above(norm) /\ SetFrame(IF RecipFormable THEN norm ELSE Recip(AroundRecip.right),
                                   Recip(AroundRecip.left), "queueRight")
  <2> DEFINE l == IF RecipFormable THEN norm ELSE Recip(AroundRecip.right)  r == Recip(AroundRecip.left)
  <2>1. l \in Rational /\ r \in Rational /\ Pair(l, r) /\ Less(norm, r) /\ ~Less(norm, l)
    BY <1>1, <1>3, <1>4, <1>8, FirstFrames, Asymmetric
  <2> QED BY <1>1, <1>6, <1>8, <2>1
<1>9. CASE Below(norm) /\ SetFrame(IF RecipFormable THEN norm ELSE Neg(Recip(AroundRecip.left)),
                                   Neg(Recip(AroundRecip.right)), "queueRight")
  <2> DEFINE x == Neg(norm)  low == Recip(AroundRecip.right)  high == Recip(AroundRecip.left)
             l == IF RecipFormable THEN norm ELSE Neg(high)
  <2>1. /\ low \in Rational /\ high \in Rational /\ Less(low, x)
        /\ IF RecipFormable THEN Pair(low, x) ELSE Pair(low, high) /\ Less(x, high)
    BY <1>1, <1>9, FirstFrames
  <2> HIDE DEF low, high
  <2>2. Neg(low) \in Rational /\ Neg(high) \in Rational /\ l \in Rational
    BY <1>3, <2>1, Flip
  <2>3. Pair(l, Neg(low))
    BY <1>3, <1>4, <2>1, MirrorPair
  <2>4. Less(norm, Neg(low)) /\ ~Less(norm, l)
    <3>1. Less(norm, Neg(low))
      BY <1>3, <2>1, NegOrder
    <3>2. Less(x, high) => ~Less(high, x)
      BY <1>4, <2>1, Asymmetric
    <3>3. ~RecipFormable => ~Less(norm, Neg(high))
      BY <1>3, <2>1, <3>2, NegOrder
    <3> QED BY <1>4, <3>1, <3>3
  <2>5. SetFrame(l, Neg(low), "queueRight")
    BY <1>9 DEF high, low
  <2> QED BY <1>1, <1>6, <2>2, <2>3, <2>4, <2>5
<1>10. CASE AtNegCorner(norm) /\ SetFrame(Neg(corner), Neg(minusOne), "queueRight")
  <2>1. /\ norm = Neg(corner) /\ minusOne \in Rational /\ corner \in Rational
        /\ Pair(minusOne, corner) /\ Less(minusOne, corner)
    BY <1>1, <1>3, <1>10, CornerFrames DEF Call0
  <2>2. Neg(minusOne) \in Rational /\ Neg(corner) \in Rational
    BY <2>1, Flip
  <2>3. Pair(Neg(corner), Neg(minusOne)) /\ Less(Neg(corner), Neg(minusOne))
    BY <2>1, MirrorPair, NegOrder
  <2> QED BY <1>1, <1>4, <1>6, <1>10, <2>1, <2>2, <2>3
<1>11. CASE AtCorner(norm) /\ SetFrame(corner, plusOne, "queueRight")
  <2>1. /\ norm = corner /\ plusOne \in Rational /\ Supplied
        /\ Less(corner, Q(hmax, 1)) => Pair(corner, plusOne) /\ Less(corner, plusOne)
    BY <1>1, <1>11, CornerFrames
  <2>2. Less(corner, Q(hmax, 1))
    BY <1>1, <2>1 DEF AtRightEnd
  <2> QED BY <1>1, <1>3, <1>4, <1>6, <1>11, <2>1, <2>2
<1> QED BY <1>1, <1>7, <1>8, <1>9, <1>10, <1>11 DEF RightFrame
-----------------------------------------------------------------------------
\* Initially.
LEMMA InitOK == Init => FabInv
<1> SUFFICES ASSUME Init  PROVE FabInv
  OBVIOUS
<1>1. TypeOK
  <2>1. Q(0, 1) \in Rational
    BY DEF Q, Rational
  <2>2. <<>> \in Rows
    BY DEF Rows
  <2>3. cf \in [Part -> Rows]
    BY <2>2 DEF Init
  <2>4. pc = "idle" /\ error = "none" /\ kmax \in Nat /\ hmax \in Nat
        /\ wanted \in [left : Nat, right : Nat] /\ equality \in BOOLEAN
    BY DEF Init
  <2>5. norm \in Rational /\ corner \in Rational /\ minusOne \in Rational /\ plusOne \in Rational
        /\ left \in Rational /\ right \in Rational
    BY <2>1 DEF Init
  <2>6. lefts \in Seq(Rational) /\ rights \in Seq(Rational)
    BY DEF Init
  <2> QED BY <2>3, <2>4, <2>5, <2>6 DEF TypeOK
<1>2. CallOK /\ RowsOK /\ StageOK /\ CornersOK /\ FrameOK
  BY DEF Init, CallOK, RowsOK, StageOK, CornersOK, FrameOK, Accepted
<1>3. Unstarted
  BY DEF Init, Unstarted, Part
<1>4. QueuesOK
  BY DEF Init, QueuesOK, Accepted, AfterCorners
<1> QED BY <1>1, <1>2, <1>3, <1>4 DEF FabInv

\* What every step after the corners leaves as it is.
LEMMA LateStep ==
  ASSUME FabInv, pc \in AfterCorners \ {"done"}, pc' \in AfterCorners, UNCHANGED <<call, corners, cf>>
  PROVE  CallOK' /\ RowsOK' /\ StageOK' /\ Unstarted' /\ CornersOK'
<1> USE DEF call, corners
<1>0. pc # "idle" /\ pc' # "idle" /\ pc \notin Part /\ pc' \notin Part
      /\ pc \notin {"aborted", "corners"} /\ pc' \notin {"aborted", "corners"}
  BY DEF AfterCorners, Part
<1>1. Accepted' <=> Accepted
  BY <1>0 DEF Accepted
<1>2. Supplied' <=> Supplied
  BY DEF Supplied
<1>3. CallOK'
  <2>1. error = "none"
    BY DEF FabInv, CallOK
  <2> QED BY <1>1, <1>2, <2>1 DEF FabInv, CallOK, InSeries
<1>4. RowsOK'
  <2>1. \A w \in Part : Fraction(w)' = Fraction(w)
    BY DEF Part, Fraction
  <2> QED BY <1>1, <2>1 DEF FabInv, RowsOK
<1>5. StageOK'
  BY <1>0, <1>1, <1>2 DEF FabInv, StageOK, Above, Part
<1>6. Unstarted'
  BY <1>0 DEF Unstarted, Part
<1>7. CornersOK'
  BY <1>1, <1>2 DEF FabInv, CornersOK
<1> QED BY <1>3, <1>4, <1>5, <1>6, <1>7
-----------------------------------------------------------------------------
\* The first frames and the moves.
LEMMA LeftFrameStep == FabInv /\ LeftFrame => FabInv'
<1> SUFFICES ASSUME FabInv, LeftFrame  PROVE FabInv'
  OBVIOUS
<1>1. /\ pc = "leftFrame" /\ pc' = "queueLeft" /\ UNCHANGED <<call, corners, cf, found>>
      /\ left' \in Rational /\ right' \in Rational /\ Pair(left', right')
      /\ Less(left', norm) /\ ~Less(right', norm)
  BY LeftFrameOK
<1>2. CallOK' /\ RowsOK' /\ StageOK' /\ Unstarted' /\ CornersOK'
  BY <1>1, LateStep DEF AfterCorners
<1>3. TypeOK'
  BY <1>1 DEF FabInv, TypeOK, call, corners, found
<1>4. lefts = <<>> /\ rights = <<>> /\ wanted.left # 0 /\ wanted \in [left : Nat, right : Nat]
  BY <1>1 DEF FabInv, TypeOK, QueuesOK, LeftFrame, NoLefts
<1>5. FrameOK'
  <2>1. Pair(left, right)'
    BY <1>1 DEF Pair, InnerPair, OuterPair, Supplied, call
  <2> QED BY <1>1, <1>4, <2>1 DEF FrameOK, call, found
<1>6. QueuesOK'
  BY <1>1, <1>4 DEF FabInv, QueuesOK, AfterCorners, call, found
<1> QED BY <1>2, <1>3, <1>5, <1>6 DEF FabInv

LEMMA RightFrameStep == FabInv /\ RightFrame => FabInv'
<1> SUFFICES ASSUME FabInv, RightFrame  PROVE FabInv'
  OBVIOUS
<1>1. /\ pc = "rightFrame" /\ pc' = "queueRight" /\ UNCHANGED <<call, corners, cf, found>>
      /\ left' \in Rational /\ right' \in Rational /\ Pair(left', right')
      /\ Less(norm, right') /\ ~Less(norm, left')
  BY RightFrameOK
<1>2. CallOK' /\ RowsOK' /\ StageOK' /\ Unstarted' /\ CornersOK'
  BY <1>1, LateStep DEF AfterCorners
<1>3. TypeOK'
  BY <1>1 DEF FabInv, TypeOK, call, corners, found
<1>4. rights = <<>> /\ wanted.right # 0 /\ wanted \in [left : Nat, right : Nat]
  BY <1>1 DEF FabInv, TypeOK, QueuesOK, RightFrame, NoRights
<1>5. FrameOK'
  <2>1. Pair(left, right)'
    BY <1>1 DEF Pair, InnerPair, OuterPair, Supplied, call
  <2> QED BY <1>1, <1>4, <2>1 DEF FrameOK, call, found
<1>6. QueuesOK'
  <2>1. Accepted' => Accepted
    BY <1>1 DEF Accepted, call
  <2> QED BY <1>1, <1>4, <2>1 DEF FabInv, QueuesOK, AfterCorners, AtLeftEnd, Supplied, call, found
<1> QED BY <1>2, <1>3, <1>5, <1>6 DEF FabInv

LEMMA AdvanceLeftStep == FabInv /\ AdvanceLeft => FabInv'
<1> SUFFICES ASSUME FabInv, AdvanceLeft  PROVE FabInv'
  OBVIOUS
<1>1. /\ pc = "advanceLeft" /\ pc' = "queueLeft" /\ UNCHANGED <<call, corners, cf, found>>
      /\ left' \in Rational /\ right' = left /\ Pair(left', left)
  BY AdvanceLeftOK
<1>2. CallOK' /\ RowsOK' /\ StageOK' /\ Unstarted' /\ CornersOK'
  BY <1>1, LateStep DEF AfterCorners
<1>3. TypeOK'
  BY <1>1 DEF FabInv, TypeOK, call, corners, found
<1>4. Accepted
  BY <1>1 DEF FabInv, CallOK, Accepted
<1>5. FrameOK'
  <2>1. Pair(left, right)'
    BY <1>1 DEF Pair, InnerPair, OuterPair, Supplied, call
  <2>2. lefts # <<>> /\ left = lefts[Len(lefts)]
    BY <1>1, <1>4 DEF FabInv, FrameOK
  <2> QED BY <1>1, <2>1, <2>2 DEF FrameOK, call, found
<1>6. QueuesOK'
  BY <1>1 DEF FabInv, QueuesOK, AfterCorners, call, found
<1> QED BY <1>2, <1>3, <1>5, <1>6 DEF FabInv

LEMMA AdvanceRightStep == FabInv /\ AdvanceRight => FabInv'
<1> SUFFICES ASSUME FabInv, AdvanceRight  PROVE FabInv'
  OBVIOUS
<1>1. /\ pc = "advanceRight" /\ pc' = "queueRight" /\ UNCHANGED <<call, corners, cf, found>>
      /\ right' \in Rational /\ left' = right /\ Pair(right, right')
  BY AdvanceRightOK
<1>2. CallOK' /\ RowsOK' /\ StageOK' /\ Unstarted' /\ CornersOK'
  BY <1>1, LateStep DEF AfterCorners
<1>3. TypeOK'
  BY <1>1 DEF FabInv, TypeOK, call, corners, found
<1>4. Accepted
  BY <1>1 DEF FabInv, CallOK, Accepted
<1>5. FrameOK'
  <2>1. Pair(left, right)'
    BY <1>1 DEF Pair, InnerPair, OuterPair, Supplied, call
  <2>2. rights # <<>> /\ right = rights[Len(rights)]
    BY <1>1, <1>4 DEF FabInv, FrameOK
  <2> QED BY <1>1, <2>1, <2>2 DEF FrameOK, call, found
<1>6. QueuesOK'
  BY <1>1, <1>4 DEF FabInv, QueuesOK, AfterCorners, AtLeftEnd, Supplied, call, found
<1> QED BY <1>2, <1>3, <1>5, <1>6 DEF FabInv

\* Skipping a side, and queueing a term.
LEMMA SkipStep == FabInv /\ (SkipLeft \/ SkipRight) => FabInv'
<1> SUFFICES ASSUME FabInv, SkipLeft \/ SkipRight  PROVE FabInv'
  OBVIOUS
<1>1. /\ \/ pc = "leftFrame" /\ pc' = "rightFrame" /\ NoLefts
         \/ pc = "rightFrame" /\ pc' = "done" /\ NoRights
      /\ UNCHANGED <<call, corners, cf, frame, found>>
  BY DEF SkipLeft, SkipRight, SetFrame, frame
<1>2. CallOK' /\ RowsOK' /\ StageOK' /\ Unstarted' /\ CornersOK'
  BY <1>1, LateStep DEF AfterCorners
<1>3. TypeOK'
  BY <1>1 DEF FabInv, TypeOK, call, corners, frame, found
<1>4. FrameOK'
  BY <1>1 DEF FrameOK
<1>5. QueuesOK'
  <2>1. Accepted
    BY <1>1 DEF FabInv, CallOK, Accepted
  <2>2. CASE pc = "leftFrame"
    <3>1. lefts = <<>> /\ rights = <<>> /\ Len(<<>>) = 0
      BY <2>2 DEF FabInv, QueuesOK, AfterCorners
    <3>2. AtLeftEnd(norm) \/ wanted.left = 0
      BY <1>1, <2>2 DEF NoLefts
    <3> QED BY <1>1, <2>2, <3>1, <3>2
            DEF FabInv, QueuesOK, AfterCorners, AtLeftEnd, Supplied, call, found
  <2>3. CASE pc = "rightFrame"
    <3>1. rights = <<>> /\ Len(<<>>) = 0
      BY <2>3 DEF FabInv, QueuesOK, AfterCorners
    <3>2. AtRightEnd(norm) \/ wanted.right = 0
      BY <1>1, <2>3 DEF NoRights
    <3> QED BY <1>1, <2>1, <2>3, <3>1, <3>2
            DEF FabInv, QueuesOK, AfterCorners, AtLeftEnd, AtRightEnd, Supplied, call, found
  <2> QED BY <1>1, <2>2, <2>3
<1> QED BY <1>2, <1>3, <1>4, <1>5 DEF FabInv

LEMMA QueueLeftStep == FabInv /\ QueueLeft => FabInv'
<1> SUFFICES ASSUME FabInv, QueueLeft  PROVE FabInv'
  OBVIOUS
<1>1. /\ pc = "queueLeft" /\ lefts' = Append(lefts, left)
      /\ pc' = IF Len(lefts) + 1 >= wanted.left \/ AtLeftEnd(left) THEN "rightFrame" ELSE "advanceLeft"
      /\ UNCHANGED <<call, corners, cf, frame, rights>>
  BY DEF QueueLeft
<1>2. CallOK' /\ RowsOK' /\ StageOK' /\ Unstarted' /\ CornersOK'
  BY <1>1, LateStep DEF AfterCorners
<1>3. /\ lefts \in Seq(Rational) /\ left \in Rational /\ wanted \in [left : Nat, right : Nat]
      /\ Accepted /\ Len(lefts) < wanted.left /\ rights = <<>> /\ Pair(left, right)
  BY <1>1 DEF FabInv, TypeOK, CallOK, Accepted, QueuesOK, FrameOK
<1>4. /\ lefts' \in Seq(Rational) /\ lefts' # <<>> /\ Len(lefts') = Len(lefts) + 1
      /\ lefts'[Len(lefts')] = left /\ Len(lefts) \in Nat
  <2> HIDE DEF Rational
  <2> QED BY <1>1, <1>3
<1>5. TypeOK'
  <2> HIDE DEF Rational
  <2> QED BY <1>1, <1>4 DEF FabInv, TypeOK, call, corners, frame
<1>6. FrameOK'
  <2>1. Pair(left, right)'
    BY <1>1, <1>3 DEF Pair, InnerPair, OuterPair, Supplied, call, frame
  <2>2. pc' = "advanceLeft" => ~AtLeftEnd(left)'
    BY <1>1 DEF AtLeftEnd, Supplied, call, frame
  <2> QED BY <1>1, <1>4, <2>1, <2>2 DEF FrameOK, frame
<1>7. QueuesOK'
  <2>1. CASE Len(lefts) + 1 >= wanted.left \/ AtLeftEnd(left)
    <3>1. Len(lefts') = wanted.left \/ AtLeftEnd(left)
      BY <1>3, <1>4, <2>1
    <3>2. (Len(lefts) = wanted.left)' \/ AtLeftEnd(IF lefts = <<>> THEN norm ELSE lefts[Len(lefts)])'
      BY <1>1, <1>4, <3>1 DEF AtLeftEnd, Supplied, call
    <3> QED BY <1>1, <1>3, <1>4, <2>1, <3>2 DEF FabInv, QueuesOK, AfterCorners, call
  <2>2. CASE ~(Len(lefts) + 1 >= wanted.left \/ AtLeftEnd(left))
    <3>1. Len(lefts') < wanted.left
      BY <1>3, <1>4, <2>2
    <3> QED BY <1>1, <1>3, <1>4, <2>2, <3>1 DEF FabInv, QueuesOK, AfterCorners, call
  <2> QED BY <2>1, <2>2
<1> QED BY <1>2, <1>5, <1>6, <1>7 DEF FabInv

LEMMA QueueRightStep == FabInv /\ QueueRight => FabInv'
<1> SUFFICES ASSUME FabInv, QueueRight  PROVE FabInv'
  OBVIOUS
<1>1. /\ pc = "queueRight" /\ rights' = Append(rights, right)
      /\ pc' = IF Len(rights) + 1 >= wanted.right \/ AtRightEnd(right) THEN "done" ELSE "advanceRight"
      /\ UNCHANGED <<call, corners, cf, frame, lefts>>
  BY DEF QueueRight
<1>2. CallOK' /\ RowsOK' /\ StageOK' /\ Unstarted' /\ CornersOK'
  BY <1>1, LateStep DEF AfterCorners
<1>3. /\ rights \in Seq(Rational) /\ right \in Rational /\ wanted \in [left : Nat, right : Nat]
      /\ Accepted /\ Len(rights) < wanted.right /\ Pair(left, right)
      /\ Len(lefts) = wanted.left \/ AtLeftEnd(IF lefts = <<>> THEN norm ELSE lefts[Len(lefts)])
  BY <1>1 DEF FabInv, TypeOK, CallOK, Accepted, QueuesOK, FrameOK
<1>4. /\ rights' \in Seq(Rational) /\ rights' # <<>> /\ Len(rights') = Len(rights) + 1
      /\ rights'[Len(rights')] = right /\ Len(rights) \in Nat
  <2> HIDE DEF Rational
  <2> QED BY <1>1, <1>3
<1>5. TypeOK'
  <2> HIDE DEF Rational
  <2> QED BY <1>1, <1>4 DEF FabInv, TypeOK, call, corners, frame
<1>6. FrameOK'
  <2>1. Pair(left, right)'
    BY <1>1, <1>3 DEF Pair, InnerPair, OuterPair, Supplied, call, frame
  <2>2. pc' = "advanceRight" => ~AtRightEnd(right)'
    BY <1>1 DEF AtRightEnd, Supplied, call, frame
  <2> QED BY <1>1, <1>4, <2>1, <2>2 DEF FrameOK, frame
<1>7. QueuesOK'
  <2>0. (Len(lefts) = wanted.left)' \/ AtLeftEnd(IF lefts = <<>> THEN norm ELSE lefts[Len(lefts)])'
    BY <1>1, <1>3 DEF AtLeftEnd, Supplied, call
  <2>1. CASE Len(rights) + 1 >= wanted.right \/ AtRightEnd(right)
    <3>1. Len(rights') = wanted.right \/ AtRightEnd(right)
      BY <1>3, <1>4, <2>1
    <3>2. (Len(rights) = wanted.right)' \/ AtRightEnd(IF rights = <<>> THEN norm ELSE rights[Len(rights)])'
      BY <1>1, <1>4, <3>1 DEF AtRightEnd, Supplied, call
    <3> QED BY <1>1, <1>3, <1>4, <2>0, <2>1, <3>2 DEF FabInv, QueuesOK, AfterCorners, call
  <2>2. CASE ~(Len(rights) + 1 >= wanted.right \/ AtRightEnd(right))
    <3>1. Len(rights') < wanted.right
      BY <1>3, <1>4, <2>2
    <3> QED BY <1>1, <1>3, <1>4, <2>0, <2>2, <3>1 DEF FabInv, QueuesOK, AfterCorners, call
  <2> QED BY <2>1, <2>2
<1> QED BY <1>2, <1>5, <1>6, <1>7 DEF FabInv
-----------------------------------------------------------------------------
\* A call, the decompositions and the corners.
LEMMA RefuseStep ==
  ASSUME NEW x, NEW k, NEW h, FabInv, Refuse(x, k, h)
  PROVE  FabInv'
<1>1. /\ pc = "idle" /\ pc' = "done" /\ error' \in {"kmax", "hmax", "general"}
      /\ UNCHANGED <<norm, kmax, hmax, wanted, equality, corner, corners, cf, frame, found>>
  BY DEF Refuse
<1>2. ~Accepted'
  BY <1>1 DEF Accepted
<1>3. TypeOK'
  BY <1>1 DEF FabInv, TypeOK, corners, frame, found
<1>4. Unstarted'
  BY <1>1 DEF Unstarted
<1>5. QueuesOK'
  BY <1>1, <1>2 DEF FabInv, QueuesOK, AfterCorners, found
<1>6. CallOK' /\ RowsOK' /\ StageOK' /\ CornersOK' /\ FrameOK'
  BY <1>1, <1>2 DEF CallOK, RowsOK, StageOK, CornersOK, FrameOK
<1> QED BY <1>3, <1>4, <1>5, <1>6 DEF FabInv

LEMMA BeginStep ==
  ASSUME NEW x \in Number, NEW k \in KMax, NEW h \in HMax, NEW l \in Wanted, NEW r \in Wanted,
         FabInv, Begin(x, k, h, l, r)
  PROVE  FabInv'
<1>1. /\ pc = "idle" /\ k > 0 /\ h >= 0 /\ x.den # 0
      /\ kmax' = k /\ hmax' = h /\ wanted' = [left |-> Clamp(l), right |-> Clamp(r)]
      /\ norm' \in Normalized(x)
      /\ h > 0 => ~Less(Q(h, 1), Abs(norm'))
      /\ corner' \in IF h > 0 THEN Normalized(Q(h, k)) ELSE {corner}
      /\ equality' = (norm'.den <= k /\ (h > 0 => Magnitude(norm'.num) <= h))
      /\ pc' = IF h > 0 THEN "corner" ELSE "rn"
      /\ UNCHANGED <<error, corners, cf, frame, found>>
  BY DEF Begin
<1>2. x.num \in Int /\ x.den \in Int /\ k \in Nat /\ h \in Nat /\ l \in Nat /\ r \in Nat
  BY <1>1, FabAssumption
<1>3. norm'.num \in Int /\ norm'.den \in Int /\ norm'.den > 0 /\ Irreducible(norm') /\ norm' \in Rational
  <2>1. Magnitude(x.num) \in Int /\ Magnitude(x.den) \in Int
    BY <1>2 DEF Magnitude
  <2> QED BY <1>1, <2>1 DEF Normalized, Rational
<1>4. h > 0 => /\ corner' \in Rational /\ corner'.num \in 1 .. h /\ corner'.den \in 1 .. k
               /\ Same(corner', Q(h, k)) /\ Irreducible(corner')
  <2> SUFFICES ASSUME h > 0
               PROVE  /\ corner' \in Rational /\ corner'.num \in 1 .. h /\ corner'.den \in 1 .. k
                      /\ Same(corner', Q(h, k)) /\ Irreducible(corner')
    OBVIOUS
  <2>1. corner' \in Normalized(Q(h, k)) /\ Magnitude(h) = h /\ Magnitude(k) = k
    BY <1>1, <1>2 DEF Magnitude
  <2> DEFINE c == corner'
  <2>2. /\ c \in [num : -h .. h, den : 1 .. k] /\ h * c.den = c.num * k /\ Irreducible(c)
    BY <2>1 DEF Normalized, Q, Same
  <2>3. c.num \in Int /\ c.den \in Int /\ c.den > 0 /\ c.den <= k /\ c.num <= h /\ c \in Rational
    BY <1>2, <2>2 DEF Rational
  <2>4. c.num > 0
    <3> DEFINE a == c.num  b == c.den
    <3>1. h * b = a * k /\ a \in Int /\ b \in Int /\ b > 0
      BY <2>2, <2>3
    <3> HIDE DEF a, b
    <3>2. h * b > 0
      BY <1>2, <3>1
    <3>3. a > 0
      BY <1>1, <1>2, <3>1, <3>2
    <3> QED BY <3>3 DEF a
  <2> QED BY <1>2, <2>2, <2>3, <2>4 DEF Same, Q
<1>5. Clamp(l) \in Nat /\ Clamp(r) \in Nat
  BY <1>2, FabAssumption DEF Clamp
<1>6. TypeOK'
  <2>1. corner' \in Rational
    BY <1>1, <1>2, <1>4 DEF FabInv, TypeOK
  <2>2. pc' \in Part
    BY <1>1 DEF Part
  <2>3. wanted' \in [left : Nat, right : Nat]
    BY <1>1, <1>5
  <2>4. equality' \in BOOLEAN
    BY <1>1
  <2> QED BY <1>1, <1>2, <1>3, <2>1, <2>2, <2>3, <2>4 DEF FabInv, TypeOK, corners, frame, found
<1>7. error = "none" /\ error' = "none"
  BY <1>1 DEF FabInv, CallOK
<1>8. CallOK'
  <2>1. Supplied' <=> h > 0
    BY <1>1 DEF Supplied
  <2>2. Supplied' => ~Less(Q(hmax, 1), Abs(norm))'
    BY <1>1, <2>1
  <2>3. Supplied' => /\ corner'.num \in 1 .. hmax' /\ corner'.den \in 1 .. kmax'
                     /\ Same(corner, Q(hmax, kmax))' /\ Irreducible(corner)'
    BY <1>1, <1>4, <2>1
  <2>4. equality' <=> InSeries(norm)'
    <3>1. norm'.den \in 1 .. k <=> norm'.den <= k
      BY <1>2, <1>3
    <3> QED BY <1>1, <3>1 DEF InSeries
  <2> QED BY <1>1, <1>3, <1>7, <2>2, <2>3, <2>4 DEF CallOK
<1>9. cf' = cf /\ \A w \in Part : cf[w] = <<>>
  BY <1>1 DEF FabInv, Unstarted
<1>10. RowsOK'
  <2>1. Len(<<>>) = 0
    OBVIOUS
  <2>2. \A w \in Part : Len(cf'[w]) = 0
    BY <1>9, <2>1
  <2> QED BY <2>2 DEF RowsOK
<1>11. pc' \in {"corner", "rn"} /\ (pc' = "corner" <=> Supplied') /\ pc' \in Part
  BY <1>1, <1>2 DEF Supplied, Part
<1>12. StageOK'
  <2>1. cf'[pc'] = <<>> /\ Len(<<>>) < MaxRows
    BY <1>9, <1>11, FabAssumption
  <2> QED BY <1>11, <2>1 DEF StageOK, Part
<1>13. Unstarted'
  BY <1>9, <1>11 DEF Unstarted, Part
<1>14. CornersOK' /\ FrameOK'
  BY <1>11 DEF CornersOK, FrameOK, AfterCorners
<1>15. QueuesOK'
  <2>1. lefts' = <<>> /\ rights' = <<>> /\ Len(<<>>) = 0
    BY <1>1 DEF FabInv, QueuesOK, AfterCorners, found
  <2> QED BY <1>1, <1>5, <1>11, <2>1 DEF QueuesOK
<1> QED BY <1>6, <1>8, <1>10, <1>12, <1>13, <1>14, <1>15 DEF FabInv

\* What a decomposition is of is a number that is not negative.
LEMMA FractionOK ==
  ASSUME FabInv, pc \in Part
  PROVE  Accepted /\ Fraction(pc) \in Rational /\ Fraction(pc).num >= 0 /\ Fraction(pc).den > 0
<1>1. Accepted
  BY DEF FabInv, CallOK, Accepted, Part
<1>2. Call0 /\ norm \in Rational /\ norm.den > 0
  BY <1>1, Given
<1>3. pc \in {"corner", "cornerRecip", "recip"} => Supplied
  BY <1>1 DEF FabInv, StageOK
<1>4. Abs(norm) \in Rational /\ Abs(norm).den = norm.den /\ Abs(norm).num >= 0 /\ Abs(norm).num \in Int
  BY <1>2, Flip DEF Abs, Q, Magnitude, Rational
<1>5. pc = "recip" => Abs(norm).num > 0
  BY <1>1, <1>2, <1>4, AboveIsPositive DEF FabInv, StageOK
<1>6. Recip(Abs(norm)) \in Rational /\ Recip(Abs(norm)).num = Abs(norm).den
      /\ Recip(Abs(norm)).den = Abs(norm).num
  BY <1>4, Flip
<1>7. pc = "corner" \/ pc = "cornerRecip" =>
        /\ corner \in Rational /\ Recip(corner) \in Rational /\ corner.num > 0 /\ corner.den > 0
        /\ Recip(corner).num = corner.den /\ Recip(corner).den = corner.num
        /\ corner.num \in Int /\ corner.den \in Int
  <2>1. corner \in Rational /\ Recip(corner) \in Rational
        /\ Recip(corner).num = corner.den /\ Recip(corner).den = corner.num
    BY <1>2, Flip DEF Call0
  <2>2. Supplied => corner.num \in 1 .. hmax /\ corner.den \in 1 .. kmax /\ hmax \in Nat /\ kmax \in Nat
    BY <1>2 DEF Call0
  <2> QED BY <1>3, <2>1, <2>2
<1>8. norm.den \in Int
  BY <1>2 DEF Rational
<1>9. CASE pc = "corner"
  BY <1>1, <1>7, <1>9 DEF Fraction
<1>10. CASE pc = "cornerRecip"
  BY <1>1, <1>7, <1>10 DEF Fraction
<1>11. CASE pc = "rn"
  BY <1>1, <1>2, <1>4, <1>11 DEF Fraction
<1>12. CASE pc = "recip"
  BY <1>1, <1>2, <1>4, <1>5, <1>6, <1>8, <1>12 DEF Fraction
<1> QED BY <1>9, <1>10, <1>11, <1>12 DEF Part

LEMMA RowStage ==
  ASSUME FabInv, NEW w \in Part, NEW next \in Part \cup {"corners"}, Row(w, next),
         next # w, \A v \in {next} \cap Part : cf[v] = <<>>
  PROVE  /\ pc = w /\ pc' \in {w, next, "aborted"} /\ Accepted /\ Accepted'
         /\ UNCHANGED <<call, corners, frame, found>>
         /\ TypeOK' /\ CallOK' /\ RowsOK' /\ CornersOK' /\ FrameOK' /\ QueuesOK'
         /\ \A v \in Part \ {w} : cf'[v] = cf[v]
         /\ pc' = next => Decomposed(cf'[w])
         /\ pc' \in Part => /\ Len(cf'[pc']) < MaxRows
                            /\ cf'[pc'] # <<>> => cf'[pc'][Len(cf'[pc'])].remainder > 0
<1> DEFINE x == Fraction(w)  rows == cf[w]  row == NextRow(x, rows)  after == Append(rows, row)
<1>1. /\ pc = w /\ cf' = [cf EXCEPT ![w] = after]
      /\ pc' = CASE Len(rows) + 1 = MaxRows -> "aborted"
                 [] Len(rows) + 1 < MaxRows /\ row.remainder # 0 -> w
                 [] OTHER -> next
      /\ UNCHANGED <<call, corners, frame, found>>
  BY DEF Row
<1>2. Accepted /\ x \in Rational /\ x.num >= 0 /\ x.den > 0
  BY <1>1, FractionOK
<1>3. rows \in Rows /\ (\A i \in 1 .. Len(rows) : RowOK(x, rows, i)) /\ Len(rows) < MaxRows
      /\ (rows # <<>> => rows[Len(rows)].remainder > 0) /\ cf \in [Part -> Rows]
  <2>1. cf \in [Part -> Rows]
    BY DEF FabInv, TypeOK
  <2>2. \A i \in 1 .. Len(rows) : RowOK(x, rows, i)
    BY <1>2 DEF FabInv, RowsOK
  <2>3. Len(rows) < MaxRows /\ (rows # <<>> => rows[Len(rows)].remainder > 0)
    <3>1. pc = w
      BY <1>1
    <3> QED BY <1>2, <3>1 DEF FabInv, StageOK
  <2> QED BY <2>1, <2>2, <2>3
<1>4. /\ after \in Rows /\ Len(after) = Len(rows) + 1
      /\ \A i \in 1 .. Len(after) : RowOK(x, after, i)
      /\ after[Len(after)].remainder = row.remainder /\ row.remainder \in Nat
  <2> HIDE DEF x, rows
  <2> QED BY <1>2, <1>3, NextRowOK
<1>5. Len(rows) \in Nat /\ Len(after) \in Nat /\ after # <<>> /\ MaxRows \in Nat /\ MaxRows > 0
  <2> HIDE DEF x, rows, row
  <2>1. Len(rows) \in Nat
    BY <1>3 DEF Rows
  <2> QED BY <1>4, <2>1, FabAssumption
<1> HIDE DEF x, rows, row, after
<1>6. cf'[w] = after /\ \A v \in Part \ {w} : cf'[v] = cf[v]
  BY <1>1, <1>3
<1>7. pc' \in {w, next, "aborted"}
  BY <1>1
<1>8. /\ pc' = w => Len(after) < MaxRows /\ row.remainder # 0
      /\ pc' = next => row.remainder = 0
  <2>1. w # "aborted" /\ next # "aborted"
    BY DEF Part
  <2>2. CASE Len(rows) + 1 = MaxRows
    BY <1>1, <1>3, <1>5, <2>1, <2>2
  <2>3. CASE Len(rows) + 1 # MaxRows
    <3>1. Len(rows) + 1 < MaxRows
      BY <1>3, <1>5, <2>3
    <3> QED BY <1>1, <1>4, <1>5, <2>1, <2>3, <3>1
  <2> QED BY <2>2, <2>3
<1>9. pc' # "idle" /\ Accepted' /\ error = "none" /\ error' = "none" /\ pc' \notin AfterCorners
      /\ pc \notin AfterCorners
  BY <1>1, <1>2, <1>7 DEF Accepted, call, Part, AfterCorners
<1>10. TypeOK'
  <2>1. cf' \in [Part -> Rows]
    BY <1>1, <1>3, <1>4
  <2>2. pc' \in Part \cup {"aborted", "corners"}
    BY <1>7
  <2> QED BY <1>1, <2>1, <2>2 DEF FabInv, TypeOK, call, corners, frame, found
<1>11. CallOK'
  BY <1>1, <1>2, <1>9 DEF FabInv, CallOK, Accepted, call, Supplied, InSeries
<1>12. RowsOK'
  <2>1. \A v \in Part : Fraction(v)' = Fraction(v)
    BY <1>1 DEF Part, Fraction, call
  <2>2. \A i \in 1 .. Len(after) : RowOK(Fraction(w), after, i)
    BY <1>4 DEF x
  <2>3. \A v \in Part : \A i \in 1 .. Len(cf'[v]) : RowOK(Fraction(v), cf'[v], i)
    BY <1>2, <1>6, <2>2 DEF FabInv, RowsOK
  <2> QED BY <2>1, <2>3 DEF RowsOK
<1>13. CornersOK' /\ FrameOK' /\ QueuesOK'
  <2>1. CornersOK' /\ FrameOK'
    BY <1>7, <1>9 DEF CornersOK, FrameOK, AfterCorners, Part
  <2>2. QueuesOK'
    BY <1>1, <1>9 DEF FabInv, QueuesOK, AfterCorners, call, found
  <2> QED BY <2>1, <2>2
<1>14. pc' = next => Decomposed(cf'[w])
  BY <1>4, <1>5, <1>6, <1>8 DEF Decomposed
<1>15. ASSUME pc' \in Part
       PROVE  /\ Len(cf'[pc']) < MaxRows
              /\ cf'[pc'] # <<>> => cf'[pc'][Len(cf'[pc'])].remainder > 0
  <2>1. CASE pc' = w
    BY <1>4, <1>6, <1>8, <2>1
  <2>2. CASE pc' # w
    <3>1. pc' = next
      BY <1>7, <1>15, <2>2 DEF Part
    <3>2. cf'[pc'] = <<>> /\ Len(<<>>) = 0
      BY <1>6, <1>15, <2>2, <3>1
    <3> QED BY <1>5, <3>2
  <2> QED BY <2>1, <2>2
<1> QED BY <1>1, <1>2, <1>6, <1>7, <1>9, <1>10, <1>11, <1>12, <1>13, <1>14, <1>15

\* The four decompositions, one after the other.
LEMMA DecomposeStep == FabInv /\ Decompose => FabInv'
<1> SUFFICES ASSUME FabInv, Decompose  PROVE FabInv'
  OBVIOUS
<1> USE DEF call
<1>0. /\ pc = "idle" => \A w \in Part : cf[w] = <<>>
      /\ pc = "corner" => \A w \in Part \ {"corner"} : cf[w] = <<>>
      /\ pc = "cornerRecip" => cf["rn"] = <<>> /\ cf["recip"] = <<>>
      /\ pc = "rn" => cf["recip"] = <<>>
  BY DEF FabInv, Unstarted
<1>a. "corner" \in Part /\ "cornerRecip" \in Part /\ "rn" \in Part /\ "recip" \in Part
      /\ "corners" \notin Part /\ "aborted" \notin Part /\ "idle" \notin Part
  BY DEF Part
<1>1. CASE Row("corner", "cornerRecip")
  <2>1. \A v \in {"cornerRecip"} \cap Part : cf[v] = <<>>
    BY <1>0, <1>1, <1>a DEF Row
  <2>2. /\ pc = "corner" /\ pc' \in {"corner", "cornerRecip", "aborted"} /\ Accepted /\ Accepted'
        /\ UNCHANGED <<call, corners, frame, found>>
        /\ TypeOK' /\ CallOK' /\ RowsOK' /\ CornersOK' /\ FrameOK' /\ QueuesOK'
        /\ \A v \in Part \ {"corner"} : cf'[v] = cf[v]
        /\ pc' = "cornerRecip" => Decomposed(cf'["corner"])
        /\ pc' \in Part => /\ Len(cf'[pc']) < MaxRows
                           /\ cf'[pc'] # <<>> => cf'[pc'][Len(cf'[pc'])].remainder > 0
    BY <1>1, <1>a, <2>1, RowStage
  <2>3. StageOK'
    <3>1. Supplied' <=> Supplied
      BY <2>2 DEF Supplied
    <3>2. Supplied
      BY <2>2 DEF FabInv, StageOK
    <3> QED BY <2>2, <3>1, <3>2 DEF StageOK
  <2>4. Unstarted'
    BY <1>0, <1>a, <2>2 DEF Unstarted
  <2> QED BY <2>2, <2>3, <2>4 DEF FabInv
<1>2. CASE Row("cornerRecip", "rn")
  <2>1. \A v \in {"rn"} \cap Part : cf[v] = <<>>
    BY <1>0, <1>2, <1>a DEF Row
  <2>2. /\ pc = "cornerRecip" /\ pc' \in {"cornerRecip", "rn", "aborted"} /\ Accepted /\ Accepted'
        /\ UNCHANGED <<call, corners, frame, found>>
        /\ TypeOK' /\ CallOK' /\ RowsOK' /\ CornersOK' /\ FrameOK' /\ QueuesOK'
        /\ \A v \in Part \ {"cornerRecip"} : cf'[v] = cf[v]
        /\ pc' = "rn" => Decomposed(cf'["cornerRecip"])
        /\ pc' \in Part => /\ Len(cf'[pc']) < MaxRows
                           /\ cf'[pc'] # <<>> => cf'[pc'][Len(cf'[pc'])].remainder > 0
    BY <1>2, <1>a, <2>1, RowStage
  <2>3. StageOK'
    <3>1. Supplied' <=> Supplied
      BY <2>2 DEF Supplied
    <3>2. Supplied /\ Decomposed(cf'["corner"])
      BY <1>a, <2>2 DEF FabInv, StageOK
    <3> QED BY <2>2, <3>1, <3>2 DEF StageOK
  <2>4. Unstarted'
    BY <1>0, <1>a, <2>2 DEF Unstarted
  <2> QED BY <2>2, <2>3, <2>4 DEF FabInv
<1>3. CASE Row("rn", IF Above(Abs(norm)) THEN "recip" ELSE "corners")
  <2> DEFINE next == IF Above(Abs(norm)) THEN "recip" ELSE "corners"
  <2>1. (\A v \in {next} \cap Part : cf[v] = <<>>) /\ next \in Part \cup {"corners"} /\ next # "rn"
    BY <1>0, <1>3, <1>a DEF Row
  <2>2. /\ pc = "rn" /\ pc' \in {"rn", next, "aborted"} /\ Accepted /\ Accepted'
        /\ UNCHANGED <<call, corners, frame, found>>
        /\ TypeOK' /\ CallOK' /\ RowsOK' /\ CornersOK' /\ FrameOK' /\ QueuesOK'
        /\ \A v \in Part \ {"rn"} : cf'[v] = cf[v]
        /\ pc' = next => Decomposed(cf'["rn"])
        /\ pc' \in Part => /\ Len(cf'[pc']) < MaxRows
                           /\ cf'[pc'] # <<>> => cf'[pc'][Len(cf'[pc'])].remainder > 0
    BY <1>3, <1>a, <2>1, RowStage
  <2>3. StageOK'
    <3>1. Supplied' <=> Supplied
      BY <2>2 DEF Supplied
    <3>2. Supplied => Decomposed(cf'["corner"]) /\ Decomposed(cf'["cornerRecip"])
      BY <1>a, <2>2 DEF FabInv, StageOK
    <3>3. Above(Abs(norm))' <=> Above(Abs(norm))
      BY <2>2 DEF Above, Supplied
    <3> QED BY <2>2, <3>1, <3>2, <3>3 DEF StageOK, Above
  <2>4. Unstarted'
    BY <1>0, <1>a, <2>2 DEF Unstarted
  <2> QED BY <2>2, <2>3, <2>4 DEF FabInv
<1>4. CASE Row("recip", "corners")
  <2>1. \A v \in {"corners"} \cap Part : cf[v] = <<>>
    BY <1>a
  <2>2. /\ pc = "recip" /\ pc' \in {"recip", "corners", "aborted"} /\ Accepted /\ Accepted'
        /\ UNCHANGED <<call, corners, frame, found>>
        /\ TypeOK' /\ CallOK' /\ RowsOK' /\ CornersOK' /\ FrameOK' /\ QueuesOK'
        /\ \A v \in Part \ {"recip"} : cf'[v] = cf[v]
        /\ pc' = "corners" => Decomposed(cf'["recip"])
        /\ pc' \in Part => /\ Len(cf'[pc']) < MaxRows
                           /\ cf'[pc'] # <<>> => cf'[pc'][Len(cf'[pc'])].remainder > 0
    BY <1>4, <1>a, <2>1, RowStage
  <2>3. StageOK'
    <3>1. Supplied' <=> Supplied
      BY <2>2 DEF Supplied
    <3>2. /\ Supplied => Decomposed(cf'["corner"]) /\ Decomposed(cf'["cornerRecip"])
          /\ Decomposed(cf'["rn"]) /\ Supplied /\ Above(Abs(norm))
      BY <1>a, <2>2 DEF FabInv, StageOK
    <3>3. Above(Abs(norm))' <=> Above(Abs(norm))
      BY <2>2 DEF Above, Supplied
    <3> QED BY <2>2, <3>1, <3>2, <3>3 DEF StageOK
  <2>4. Unstarted'
    BY <1>a, <2>2 DEF Unstarted
  <2> QED BY <2>2, <2>3, <2>4 DEF FabInv
<1> QED BY <1>1, <1>2, <1>3, <1>4 DEF Decompose

LEMMA CornersStep == FabInv /\ Corners => FabInv'
<1> SUFFICES ASSUME FabInv, Corners  PROVE FabInv'
  OBVIOUS
<1> DEFINE u == EnclosingNeighbors(corner, kmax, cf["corner"]).left
           v == EnclosingNeighbors(Recip(corner), hmax, cf["cornerRecip"]).left
<1>1. /\ pc = "corners" /\ pc' = "leftFrame" /\ UNCHANGED <<call, cf, frame, found>>
      /\ IF Supplied THEN minusOne' = u /\ plusOne' = Recip(v) ELSE UNCHANGED corners
  BY DEF Corners
<1>2. Accepted
  BY <1>1 DEF FabInv, CallOK, Accepted
<1>3. Call0 /\ (Supplied => Irreducible(corner))
  BY <1>2, Given
<1>4. ASSUME Supplied
      PROVE  /\ u \in Rational /\ v \in Rational
             /\ FareyPair(u, corner, kmax) /\ FareyPair(v, Recip(corner), hmax)
  <2> DEFINE y == Recip(corner)
  <2>1. /\ kmax \in Nat /\ kmax > 0 /\ hmax \in Nat /\ hmax > 0 /\ corner \in Rational
        /\ corner.num > 0 /\ corner.den > 0 /\ corner.num <= hmax /\ corner.den <= kmax
        /\ corner.num \in Int /\ corner.den \in Int /\ Irreducible(corner)
    BY <1>3, <1>4 DEF Call0, Supplied
  <2>2. /\ y \in Rational /\ y.num > 0 /\ y.den > 0 /\ y.den <= hmax /\ Irreducible(y)
        /\ Abs(corner) = corner /\ Abs(y) = y
    <3>1. y \in Rational /\ y.num = corner.den /\ y.den = corner.num
      BY <2>1, Flip
    <3>2. Irreducible(y)
      BY <2>1, FlipIrreducible
    <3>3. y.num >= 0 /\ corner.num >= 0
      BY <2>1, <3>1
    <3>4. Abs(corner) = corner /\ Abs(y) = y
      BY <2>1, <3>1, <3>3, Flip
    <3> QED BY <2>1, <3>1, <3>2, <3>4
  <2>3. cf["corner"] \in Rows /\ cf["cornerRecip"] \in Rows
    BY DEF FabInv, TypeOK, Part
  <2>4. Decomposed(cf["corner"]) /\ Decomposed(cf["cornerRecip"])
    BY <1>1, <1>2, <1>4 DEF FabInv, StageOK
  <2>5. /\ \A i \in 1 .. Len(cf["corner"]) : RowOK(corner, cf["corner"], i)
        /\ \A i \in 1 .. Len(cf["cornerRecip"]) : RowOK(y, cf["cornerRecip"], i)
    BY <1>2 DEF FabInv, RowsOK, Part, Fraction
  <2> HIDE DEF y
  <2>6. u \in Rational /\ FareyPair(u, corner, kmax)
    BY <2>1, <2>2, <2>3, <2>4, <2>5, Enclosing
  <2> DEFINE e == EnclosingNeighbors(y, hmax, cf["cornerRecip"])
  <2>7. e.left \in Rational /\ FareyPair(e.left, y, hmax)
    BY <2>1, <2>2, <2>3, <2>4, <2>5, Enclosing
  <2> QED BY <2>6, <2>7 DEF y
<1> HIDE DEF u, v
<1>5. TypeOK'
  <2>1. minusOne' \in Rational /\ plusOne' \in Rational
    <3>1. CASE Supplied
      BY <1>1, <1>4, <3>1, Flip
    <3>2. CASE ~Supplied
      BY <1>1, <3>2 DEF FabInv, TypeOK, corners
    <3> QED BY <3>1, <3>2
  <2> QED BY <1>1, <2>1 DEF FabInv, TypeOK, call, frame, found
<1>6. (Accepted' <=> Accepted) /\ (Supplied' <=> Supplied)
  BY <1>1 DEF Accepted, Supplied, call
<1>7. CallOK'
  BY <1>1, <1>2, <1>6 DEF FabInv, CallOK, Accepted, InSeries, call
<1>8. RowsOK'
  <2>1. \A w \in Part : Fraction(w)' = Fraction(w)
    BY <1>1 DEF Part, Fraction, call
  <2> QED BY <1>1, <1>6, <2>1 DEF FabInv, RowsOK
<1>9. StageOK'
  BY <1>1, <1>6 DEF FabInv, StageOK, Above, Part, call
<1>10. Unstarted'
  BY <1>1 DEF Unstarted
<1>11. CornersOK'
  <2>1. ASSUME Supplied
        PROVE  FareyPair(minusOne', corner', kmax') /\ FareyPair(Recip(plusOne'), Recip(corner'), hmax')
    <3>1. Recip(Recip(v)) = v
      BY <1>4, <2>1, Flip
    <3> QED BY <1>1, <1>4, <2>1, <3>1 DEF call
  <2> QED BY <1>6, <2>1 DEF CornersOK
<1>12. FrameOK'
  BY <1>1 DEF FrameOK
<1>13. QueuesOK'
  BY <1>1 DEF FabInv, QueuesOK, AfterCorners, call, found
<1> QED BY <1>5, <1>7, <1>8, <1>9, <1>10, <1>11, <1>12, <1>13 DEF FabInv

LEMMA StutterStep == FabInv /\ UNCHANGED vars => FabInv'
<1> SUFFICES ASSUME FabInv, UNCHANGED vars  PROVE FabInv'
  OBVIOUS
<1>1. UNCHANGED <<pc, error, norm, kmax, hmax, wanted, equality, corner, minusOne, plusOne, cf,
                  left, right, lefts, rights>>
  BY DEF vars, call, corners, frame, found
<1>2. TypeOK'
  BY <1>1 DEF FabInv, TypeOK
<1>3. CallOK' /\ CornersOK'
  BY <1>1 DEF FabInv, CallOK, CornersOK, Accepted, Supplied, InSeries
<1>4. RowsOK'
  <2>1. \A w \in Part : Fraction(w)' = Fraction(w)
    BY <1>1 DEF Part, Fraction
  <2> QED BY <1>1, <2>1 DEF FabInv, RowsOK, Accepted
<1>5. StageOK' /\ Unstarted'
  BY <1>1 DEF FabInv, StageOK, Unstarted, Accepted, Supplied, Above
<1>6. FrameOK' /\ QueuesOK'
  <2>1. Pair(left, right)' <=> Pair(left, right)
    BY <1>1 DEF Pair, InnerPair, OuterPair, Supplied
  <2> QED BY <1>1, <2>1 DEF FabInv, FrameOK, QueuesOK, Accepted, AtLeftEnd, AtRightEnd, Supplied
<1> QED BY <1>2, <1>3, <1>4, <1>5, <1>6 DEF FabInv

\* The argument holds in every reachable state: the decompositions are exact,
\* and every frame is a pair of neighbours in the series (gmp_ralg.c).
THEOREM FabInvariant == Spec => []FabInv
<1>1. FabInv /\ [Next]_vars => FabInv'
  <2> SUFFICES ASSUME FabInv, [Next]_vars  PROVE FabInv'
    OBVIOUS
  <2>1. CASE Call
    <3>1. PICK x \in Number, k \in KMax, h \in HMax :
            Refuse(x, k, h) \/ \E l, r \in Wanted : Begin(x, k, h, l, r)
      BY <2>1 DEF Call
    <3> QED BY <3>1, RefuseStep, BeginStep
  <2>2. CASE Work
    BY <2>2, DecomposeStep, CornersStep, SkipStep, LeftFrameStep, QueueLeftStep, AdvanceLeftStep,
       RightFrameStep, QueueRightStep, AdvanceRightStep DEF Work
  <2>3. CASE UNCHANGED vars
    BY <2>3, StutterStep
  <2> QED BY <2>1, <2>2, <2>3 DEF Next
<1> QED BY InitOK, <1>1, PTL DEF Spec
-----------------------------------------------------------------------------
\* Between the lower neighbour and a number up to the higher one there is no term.
LEMMA NoTermLeft ==
  ASSUME Call0, NEW l \in Rational, NEW r \in Rational, Pair(l, r),
         NEW n \in Rational, n.den > 0, Less(l, n), ~Less(r, n)
  PROVE  InSeries(l) /\ Irreducible(l) /\ Less(l, n) /\ NoneBetween(l, n)
<1>1. Neighbors(l, r)
  BY PairNeighbors
<1>2. ASSUME NEW k \in 1 .. kmax, NEW h \in (l.num * k) \div l.den .. (n.num * k) \div n.den,
             InSeries(Q(h, k)), Less(l, Q(h, k)), Less(Q(h, k), n)
      PROVE  FALSE
  <2>1. (l.num * k) \div l.den \in Int /\ (n.num * k) \div n.den \in Int
    BY <1>1 DEF Rational, Neighbors, Call0
  <2>2. Q(h, k) \in Rational /\ Q(h, k).den > 0 /\ r.den > 0
    BY <1>1, <2>1 DEF Q, Rational, Neighbors, Call0
  <2>3. Less(Q(h, k), r)
    BY <1>2, <2>2, Order
  <2> QED BY <1>1, <1>2, <2>2, <2>3 DEF Neighbors
<1> QED BY <1>1, <1>2 DEF NoneBetween, Neighbors

LEMMA NoTermRight ==
  ASSUME Call0, NEW l \in Rational, NEW r \in Rational, Pair(l, r),
         NEW n \in Rational, n.den > 0, Less(n, r), ~Less(n, l)
  PROVE  InSeries(r) /\ Irreducible(r) /\ Less(n, r) /\ NoneBetween(n, r)
<1>1. Neighbors(l, r)
  BY PairNeighbors
<1>2. ASSUME NEW k \in 1 .. kmax, NEW h \in (n.num * k) \div n.den .. (r.num * k) \div r.den,
             InSeries(Q(h, k)), Less(n, Q(h, k)), Less(Q(h, k), r)
      PROVE  FALSE
  <2>1. (n.num * k) \div n.den \in Int /\ (r.num * k) \div r.den \in Int
    BY <1>1 DEF Rational, Neighbors, Call0
  <2>2. Q(h, k) \in Rational /\ Q(h, k).den > 0 /\ l.den > 0
    BY <1>1, <2>1 DEF Q, Rational, Neighbors, Call0
  <2>3. Less(l, Q(h, k))
    BY <1>2, <2>2, Order
  <2> QED BY <1>1, <1>2, <2>2, <2>3 DEF Neighbors
<1> QED BY <1>1, <1>2 DEF NoneBetween, Neighbors

LEMMA SameCall ==
  ASSUME NeighborsConsecutive, UNCHANGED <<norm, kmax, hmax, lefts, rights>>
  PROVE  NeighborsConsecutive'
BY DEF NeighborsConsecutive, LeftsConsecutive, RightsConsecutive, NoneBetween, InSeries

LEMMA QueueLeftConsecutive == FabInv /\ NeighborsConsecutive /\ QueueLeft => NeighborsConsecutive'
<1> SUFFICES ASSUME FabInv, NeighborsConsecutive, QueueLeft  PROVE NeighborsConsecutive'
  OBVIOUS
<1>1. pc = "queueLeft" /\ lefts' = Append(lefts, left) /\ UNCHANGED <<norm, kmax, hmax, rights>>
  BY DEF QueueLeft, call
<1>2. Accepted /\ rights = <<>>
  BY <1>1 DEF FabInv, CallOK, Accepted, QueuesOK
<1>3. Call0 /\ norm \in Rational /\ norm.den > 0 /\ left \in Rational /\ right \in Rational
  BY <1>2, Given
<1>4. /\ Pair(left, right)
      /\ IF lefts = <<>> THEN Less(left, norm) /\ ~Less(right, norm)
         ELSE right = lefts[Len(lefts)]
  BY <1>1, <1>2 DEF FabInv, FrameOK
<1>5. lefts \in Seq(Rational)
  BY DEF FabInv, TypeOK
<1> DEFINE n == Len(lefts)
           nearest == IF n = 0 THEN norm ELSE lefts[n]
<1>6. /\ n \in Nat /\ Len(lefts') = n + 1 /\ lefts'[n + 1] = left
      /\ \A i \in 1 .. n : lefts'[i] = lefts[i]
      /\ n = 0 <=> lefts = <<>>
  BY <1>1, <1>3, <1>5
<1>7. nearest \in Rational /\ nearest.den > 0 /\ Less(left, nearest) /\ ~Less(right, nearest)
  <2>1. CASE n = 0
    BY <1>3, <1>4, <1>6, <2>1
  <2>2. CASE n # 0
    <3>1. Less(left, right) /\ right.den > 0
      BY <1>3, <1>4, PairNeighbors DEF Neighbors
    <3> QED BY <1>3, <1>4, <1>6, <2>2, <3>1, Asymmetric
  <2> QED BY <2>1, <2>2
<1> HIDE DEF nearest
<1>8. InSeries(left) /\ Irreducible(left) /\ Less(left, nearest) /\ NoneBetween(left, nearest)
  BY <1>3, <1>4, <1>7, NoTermLeft
<1>9. ASSUME NEW i \in 1 .. Len(lefts')
      PROVE  LET nearer == IF i = 1 THEN norm ELSE lefts'[i - 1]
             IN /\ InSeries(lefts'[i]) /\ Irreducible(lefts'[i])
                /\ Less(lefts'[i], nearer) /\ NoneBetween(lefts'[i], nearer)
  <2>1. CASE i = n + 1
    <3>1. lefts'[i] = left /\ (IF i = 1 THEN norm ELSE lefts'[i - 1]) = nearest
      BY <1>6, <2>1 DEF nearest
    <3> QED BY <1>8, <3>1
  <2>2. CASE i # n + 1
    <3>1. i \in 1 .. n /\ lefts'[i] = lefts[i] /\ (i # 1 => lefts'[i - 1] = lefts[i - 1])
      BY <1>6, <2>2
    <3> QED BY <3>1 DEF NeighborsConsecutive, LeftsConsecutive
  <2> QED BY <2>1, <2>2
<1>10. LeftsConsecutive'
  BY ZenonT(60), <1>1, <1>9 DEF LeftsConsecutive, NoneBetween, InSeries
<1>11. RightsConsecutive'
  <2>1. Len(rights') = 0
    BY <1>1, <1>2
  <2> QED BY <2>1 DEF RightsConsecutive
<1> QED BY <1>10, <1>11 DEF NeighborsConsecutive

LEMMA QueueRightConsecutive == FabInv /\ NeighborsConsecutive /\ QueueRight => NeighborsConsecutive'
<1> SUFFICES ASSUME FabInv, NeighborsConsecutive, QueueRight  PROVE NeighborsConsecutive'
  OBVIOUS
<1>1. pc = "queueRight" /\ rights' = Append(rights, right) /\ UNCHANGED <<norm, kmax, hmax, lefts>>
  BY DEF QueueRight, call
<1>2. Accepted
  BY <1>1 DEF FabInv, CallOK, Accepted
<1>3. Call0 /\ norm \in Rational /\ norm.den > 0 /\ left \in Rational /\ right \in Rational
  BY <1>2, Given
<1>4. /\ Pair(left, right)
      /\ IF rights = <<>> THEN Less(norm, right) /\ ~Less(norm, left)
         ELSE left = rights[Len(rights)]
  BY <1>1, <1>2 DEF FabInv, FrameOK
<1>5. rights \in Seq(Rational)
  BY DEF FabInv, TypeOK
<1> DEFINE n == Len(rights)
           nearest == IF n = 0 THEN norm ELSE rights[n]
<1>6. /\ n \in Nat /\ Len(rights') = n + 1 /\ rights'[n + 1] = right
      /\ \A i \in 1 .. n : rights'[i] = rights[i]
      /\ n = 0 <=> rights = <<>>
  BY <1>1, <1>3, <1>5
<1>7. nearest \in Rational /\ nearest.den > 0 /\ Less(nearest, right) /\ ~Less(nearest, left)
  <2>1. CASE n = 0
    BY <1>3, <1>4, <1>6, <2>1
  <2>2. CASE n # 0
    <3>1. Less(left, right) /\ left.den > 0
      BY <1>3, <1>4, PairNeighbors DEF Neighbors
    <3> QED BY <1>3, <1>4, <1>6, <2>2, <3>1, Asymmetric
  <2> QED BY <2>1, <2>2
<1> HIDE DEF nearest
<1>8. InSeries(right) /\ Irreducible(right) /\ Less(nearest, right) /\ NoneBetween(nearest, right)
  BY <1>3, <1>4, <1>7, NoTermRight
<1>9. ASSUME NEW i \in 1 .. Len(rights')
      PROVE  LET nearer == IF i = 1 THEN norm ELSE rights'[i - 1]
             IN /\ InSeries(rights'[i]) /\ Irreducible(rights'[i])
                /\ Less(nearer, rights'[i]) /\ NoneBetween(nearer, rights'[i])
  <2>1. CASE i = n + 1
    <3>1. rights'[i] = right /\ (IF i = 1 THEN norm ELSE rights'[i - 1]) = nearest
      BY <1>6, <2>1 DEF nearest
    <3> QED BY <1>8, <3>1
  <2>2. CASE i # n + 1
    <3>1. i \in 1 .. n /\ rights'[i] = rights[i] /\ (i # 1 => rights'[i - 1] = rights[i - 1])
      BY <1>6, <2>2
    <3> QED BY <3>1 DEF NeighborsConsecutive, RightsConsecutive
  <2> QED BY <2>1, <2>2
<1>10. RightsConsecutive'
  BY ZenonT(60), <1>1, <1>9 DEF RightsConsecutive, NoneBetween, InSeries
<1>11. LeftsConsecutive'
  BY <1>1 DEF NeighborsConsecutive, LeftsConsecutive, NoneBetween, InSeries
<1> QED BY <1>10, <1>11 DEF NeighborsConsecutive

\* The neighbours that a call has listed so far are the terms of the series
\* next to the number, one after the other, each in lowest terms: the promise
\* of gmp_ralg.h for every number, KMAX and HMAX.
THEOREM Consecutive == Spec => []NeighborsConsecutive
<1>1. Init => NeighborsConsecutive
  BY DEF Init, NeighborsConsecutive, LeftsConsecutive, RightsConsecutive
<1>2. FabInv /\ NeighborsConsecutive /\ [Next]_vars => NeighborsConsecutive'
  <2> SUFFICES ASSUME FabInv, NeighborsConsecutive, [Next]_vars  PROVE NeighborsConsecutive'
    OBVIOUS
  <2> USE DEF call, corners, frame, found
  <2>1. CASE Call
    <3>1. PICK x \in Number, k \in KMax, h \in HMax :
            Refuse(x, k, h) \/ \E l, r \in Wanted : Begin(x, k, h, l, r)
      BY <2>1 DEF Call
    <3>2. pc = "idle" /\ lefts' = lefts /\ rights' = rights
      BY <3>1 DEF Refuse, Begin
    <3>3. lefts = <<>> /\ rights = <<>>
      BY <3>2 DEF FabInv, QueuesOK, AfterCorners
    <3> QED BY <3>2, <3>3 DEF NeighborsConsecutive, LeftsConsecutive, RightsConsecutive
  <2>2. CASE Decompose
    BY <2>2, SameCall DEF Decompose, Row
  <2>3. CASE Corners
    BY <2>3, SameCall DEF Corners
  <2>4. CASE SkipLeft \/ SkipRight
    BY <2>4, SameCall DEF SkipLeft, SkipRight, SetFrame
  <2>5. CASE LeftFrame
    BY <2>5, SameCall, LeftFrameOK
  <2>6. CASE RightFrame
    BY <2>6, SameCall, RightFrameOK
  <2>7. CASE AdvanceLeft
    BY <2>7, SameCall, AdvanceLeftOK
  <2>8. CASE AdvanceRight
    BY <2>8, SameCall, AdvanceRightOK
  <2>9. CASE QueueLeft
    BY <2>9, QueueLeftConsecutive
  <2>10. CASE QueueRight
    BY <2>10, QueueRightConsecutive
  <2>11. CASE UNCHANGED vars
    BY <2>11, SameCall DEF vars
  <2> QED BY <2>1, <2>2, <2>3, <2>4, <2>5, <2>6, <2>7, <2>8, <2>9, <2>10, <2>11 DEF Next, Work
<1> QED BY <1>1, <1>2, FabInvariant, PTL DEF Spec

\* A call comes back with fewer neighbours than it was asked for only where the
\* series ends, and never with more.
THEOREM NoneMissing == Spec => []Complete
<1>1. FabInv /\ NeighborsConsecutive => Complete
  <2> SUFFICES ASSUME FabInv, NeighborsConsecutive, pc = "done", error = "none",
                      NEW k \in 1 .. kmax, NEW h \in -hmax .. hmax
               PROVE  /\ Len(lefts) < wanted.left =>
                           Supplied /\ ~Less(Q(h, k), IF lefts = <<>> THEN norm ELSE lefts[Len(lefts)])
                      /\ Len(rights) < wanted.right =>
                           Supplied /\ ~Less(IF rights = <<>> THEN norm ELSE rights[Len(rights)], Q(h, k))
    BY DEF Complete, FabInv, QueuesOK
  <2> DEFINE x == IF lefts = <<>> THEN norm ELSE lefts[Len(lefts)]
             y == IF rights = <<>> THEN norm ELSE rights[Len(rights)]
  <2>1. Accepted
    BY DEF Accepted
  <2>2. Call0 /\ norm \in Rational /\ norm.den > 0
    BY <2>1, Given
  <2>3. x \in Rational /\ x.den > 0
    <3>1. CASE lefts = <<>>
      BY <2>2, <3>1
    <3>2. CASE lefts # <<>>
      <4>1. lefts \in Seq(Rational)
        BY DEF FabInv, TypeOK
      <4>2. Len(lefts) \in 1 .. Len(lefts)
        BY <3>2, <4>1
      <4>3. InSeries(lefts[Len(lefts)])
        BY <4>2 DEF NeighborsConsecutive, LeftsConsecutive
      <4>4. lefts[Len(lefts)] \in Rational
        BY <4>1, <4>2
      <4> QED BY <2>2, <3>2, <4>3, <4>4 DEF InSeries, Call0
    <3> QED BY <3>1, <3>2
  <2>4. y \in Rational /\ y.den > 0
    <3>1. CASE rights = <<>>
      BY <2>2, <3>1
    <3>2. CASE rights # <<>>
      <4>1. rights \in Seq(Rational)
        BY DEF FabInv, TypeOK
      <4>2. Len(rights) \in 1 .. Len(rights)
        BY <3>2, <4>1
      <4>3. InSeries(rights[Len(rights)])
        BY <4>2 DEF NeighborsConsecutive, RightsConsecutive
      <4>4. rights[Len(rights)] \in Rational
        BY <4>1, <4>2
      <4> QED BY <2>2, <3>2, <4>3, <4>4 DEF InSeries, Call0
    <3> QED BY <3>1, <3>2
  <2>5. (Len(lefts) < wanted.left => AtLeftEnd(x)) /\ (Len(rights) < wanted.right => AtRightEnd(y))
    BY <2>1 DEF FabInv, TypeOK, QueuesOK
  <2> HIDE DEF x, y
  <2>6. /\ Q(h, k) \in Rational /\ Q(h, k).den > 0
        /\ Q(hmax, 1) \in Rational /\ Q(hmax, 1).den > 0 /\ Q(-hmax, 1) \in Rational /\ Q(-hmax, 1).den > 0
    BY <2>2 DEF Q, Rational, Call0
  <2>7. ~Less(Q(h, k), Q(-hmax, 1)) /\ ~Less(Q(hmax, 1), Q(h, k))
    <3>1. hmax * k >= hmax /\ hmax * k \in Int /\ (-hmax) * k = -(hmax * k)
      BY <2>2 DEF Call0
    <3>2. h * 1 = h /\ h >= -hmax /\ h <= hmax /\ h \in Int /\ hmax \in Int
      BY <2>2 DEF Call0
    <3> QED BY <3>1, <3>2 DEF Less, Q
  <2>8. AtLeftEnd(x) => Supplied /\ ~Less(Q(h, k), x)
    BY <2>3, <2>6, <2>7, Order DEF AtLeftEnd
  <2>9. AtRightEnd(y) => Supplied /\ ~Less(y, Q(h, k))
    BY <2>4, <2>6, <2>7, Order DEF AtRightEnd
  <2> QED BY <2>5, <2>8, <2>9 DEF x, y
<1> QED BY <1>1, FabInvariant, Consecutive, PTL
-----------------------------------------------------------------------------
\* A number in lowest terms has the least denominator and the least numerator
\* in magnitude of all the fractions equal to it.
LEMMA LowestTerms ==
  ASSUME NEW x \in Rational, NEW y \in Rational, x.den > 0, y.den > 0, Irreducible(y), Same(x, y)
  PROVE  y.den <= x.den /\ Magnitude(y.num) <= Magnitude(x.num)
<1> DEFINE a == y.num  b == y.den  c == x.num  d == x.den
           T == {k \in Nat : k > 0 /\ \E h \in Int : h * b = a * k}
<1>1. a \in Int /\ b \in Int /\ c \in Int /\ d \in Int /\ b > 0 /\ d > 0 /\ c * b = a * d
  BY DEF Rational, Same
<1> HIDE DEF a, b, c, d
<1>2. T \in SUBSET Nat /\ d \in T
  BY <1>1
<1>3. PICK k \in T : \A j \in T : k <= j
  <2> HIDE DEF T
  <2> QED BY <1>2, Least
<1>4. PICK h \in Int : h * b = a * k
  BY <1>3
<1>5. k \in Nat /\ k > 0
  BY <1>3
<1> DEFINE q == b \div k  r == b % k
<1>6. q \in Nat /\ r \in Nat /\ b = k * q + r /\ r < k
  BY <1>1, <1>5, Division
<1>7. r \notin T
  BY <1>3, <1>6
<1> HIDE DEF q, r
<1>8. r = 0
  <2>1. a - q * h \in Int /\ (a - q * h) * b = a * r
    <3>1. (a - q * h) * b = a * b - q * (h * b)
      BY <1>1, <1>6
    <3>2. q * (h * b) = q * (a * k)
      BY <1>4
    <3>3. a * b - q * (a * k) = a * r
      BY <1>1, <1>5, <1>6
    <3> QED BY <1>1, <1>6, <3>1, <3>2, <3>3
  <2> QED BY <1>6, <1>7, <2>1
<1>9. b = k * q /\ q > 0 /\ a = h * q
  <2>1. b = k * q
    BY <1>5, <1>6, <1>8
  <2>2. q > 0
    BY <1>1, <1>5, <1>6, <2>1
  <2>3. (h * q) * k = a * k
    BY <1>1, <1>4, <1>5, <1>6, <2>1
  <2>4. h * q = a
    BY <1>1, <1>5, <1>6, <2>3
  <2> QED BY <2>1, <2>2, <2>4
<1>10. q = 1
  <2> SUFFICES ASSUME q >= 2  PROVE FALSE
    BY <1>6, <1>9
  <2>1. q \in 2 .. b
    <3>1. k * q >= q
      BY <1>5, <1>6
    <3> QED BY <1>1, <1>6, <1>9, <3>1
  <2>2. Divides(q, b)
    <3>1. k * q >= k
      BY <1>5, <1>6
    <3> QED BY <1>1, <1>5, <1>6, <1>9, <3>1 DEF Divides, Magnitude
  <2>3. Divides(q, a)
    <3>1. CASE h >= 0
      <4>1. h * q >= h
        BY <1>6, <3>1
      <4> QED BY <1>1, <1>6, <1>9, <3>1, <4>1 DEF Divides, Magnitude
    <3>2. CASE h < 0
      <4>1. h * q <= h
        BY <1>6, <3>2
      <4> QED BY <1>1, <1>6, <1>9, <3>2, <4>1 DEF Divides, Magnitude
    <3> QED BY <3>1, <3>2
  <2> QED BY <2>1, <2>2, <2>3 DEF Irreducible, a, b
<1>11. b <= d
  BY <1>1, <1>2, <1>3, <1>5, <1>9, <1>10
<1>12. Magnitude(a) <= Magnitude(c)
  <2>1. CASE a >= 0
    <3>1. c * b >= a * b
      BY <1>1, <1>11, <2>1
    <3>2. c >= a
      BY <1>1, <3>1
    <3> QED BY <1>1, <2>1, <3>2 DEF Magnitude
  <2>2. CASE a < 0
    <3>1. c * b <= a * b
      BY <1>1, <1>11, <2>2
    <3>2. c <= a
      BY <1>1, <3>1
    <3> QED BY <1>1, <2>2, <3>2 DEF Magnitude
  <2> QED BY <1>1, <2>1, <2>2
<1> QED BY <1>11, <1>12 DEF a, b, c, d

\* On the same side of a number the distances order the fractions as their
\* values do.
LEMMA DistanceLeft ==
  ASSUME NEW n \in Rational, NEW x \in Rational, NEW y \in Rational,
         n.den > 0, x.den > 0, y.den > 0, ~Less(n, x), ~Less(n, y)
  PROVE  /\ Less(Distance(x, n), Distance(y, n)) <=> Less(y, x)
         /\ Same(Distance(x, n), Distance(y, n)) <=> Same(x, y)
<1> DEFINE a == x.num  b == x.den  c == y.num  d == y.den  e == n.num  f == n.den
           u == e * b - a * f   v == e * d - c * f   t == c * b - a * d
<1>1. /\ a \in Int /\ b \in Int /\ c \in Int /\ d \in Int /\ e \in Int /\ f \in Int
      /\ b > 0 /\ d > 0 /\ f > 0 /\ u >= 0 /\ v >= 0 /\ u \in Int /\ v \in Int /\ t \in Int
  BY DEF Rational, Less
<1>2. Distance(x, n) = Q(u, b * f) /\ Distance(y, n) = Q(v, d * f)
  <2>1. Magnitude(a * f - e * b) = u /\ Magnitude(c * f - e * d) = v
    <3>1. ASSUME NEW p \in Int, NEW q \in Int, q - p >= 0  PROVE Magnitude(p - q) = q - p
      BY <3>1 DEF Magnitude
    <3>2. a * f \in Int /\ e * b \in Int /\ c * f \in Int /\ e * d \in Int
      BY <1>1
    <3> QED BY <1>1, <3>1, <3>2
  <2> QED BY <2>1 DEF Distance
<1>3. (Less(y, x) <=> t < 0) /\ (Same(x, y) <=> t = 0)
  BY <1>1 DEF Less, Same
<1> HIDE DEF a, b, c, d, e, f
<1>4. u * (d * f) - v * (b * f) = (f * f) * t
  BY <1>1
<1>5. u * (d * f) \in Int /\ v * (b * f) \in Int /\ f * f \in Int /\ f * f > 0
  BY <1>1
<1> HIDE DEF u, v, t
<1>6. /\ u * (d * f) < v * (b * f) <=> t < 0
      /\ u * (d * f) = v * (b * f) <=> t = 0
  <2>1. ASSUME NEW w \in Int, NEW z \in Int, z > 0  PROVE (z * w < 0 <=> w < 0) /\ (z * w = 0 <=> w = 0)
    BY <2>1
  <2>2. ((f * f) * t < 0 <=> t < 0) /\ ((f * f) * t = 0 <=> t = 0)
    BY <1>1, <1>5, <2>1
  <2> QED BY <1>4, <1>5, <2>2
<1> QED BY <1>2, <1>3, <1>6 DEF Less, Same, Q

LEMMA DistanceRight ==
  ASSUME NEW n \in Rational, NEW x \in Rational, NEW y \in Rational,
         n.den > 0, x.den > 0, y.den > 0, ~Less(x, n), ~Less(y, n)
  PROVE  /\ Less(Distance(x, n), Distance(y, n)) <=> Less(x, y)
         /\ Same(Distance(x, n), Distance(y, n)) <=> Same(x, y)
<1>1. /\ Neg(n) \in Rational /\ Neg(x) \in Rational /\ Neg(y) \in Rational
      /\ Neg(n).den > 0 /\ Neg(x).den > 0 /\ Neg(y).den > 0
  BY DEF Neg, Q, Rational
<1>2. ~Less(Neg(n), Neg(x)) /\ ~Less(Neg(n), Neg(y)) /\ (Less(Neg(y), Neg(x)) <=> Less(x, y))
  BY NegOrder
<1>3. Same(Neg(x), Neg(y)) <=> Same(x, y)
  BY DEF Neg, Q, Same, Rational
<1>4. ASSUME NEW z \in Rational  PROVE Distance(Neg(z), Neg(n)) = Distance(z, n)
  BY DEF Distance, Neg, Q, Magnitude, Rational
<1> QED BY <1>1, <1>2, <1>3, <1>4, DistanceLeft

\* Distances are fractions themselves, and so are magnitudes.
LEMMA DistanceIsRational ==
  ASSUME NEW n \in Rational, NEW x \in Rational, n.den > 0, x.den > 0
  PROVE  /\ Distance(x, n) \in Rational /\ Distance(x, n).den > 0
         /\ Abs(x) \in Rational /\ Abs(x).den > 0
BY DEF Distance, Abs, Magnitude, Q, Rational

\* The order of fractions, where one may be replaced by an equal one.
LEMMA OrderSame ==
  ASSUME NEW x \in Rational, NEW y \in Rational, NEW z \in Rational,
         x.den > 0, y.den > 0, z.den > 0
  PROVE  /\ Same(x, y) <=> ~Less(x, y) /\ ~Less(y, x)
         /\ Same(x, y) /\ Same(y, z) => Same(x, z)
         /\ Same(x, y) => (Less(x, z) <=> Less(y, z)) /\ (Less(z, x) <=> Less(z, y))
         /\ Less(x, y) /\ Less(y, z) => Less(x, z)
         /\ Same(x, y) => Same(Abs(x), Abs(y))
<1>1. ASSUME NEW p \in Rational, NEW q \in Rational
      PROVE  Same(p, q) <=> ~Less(p, q) /\ ~Less(q, p)
  <2>1. p.num * q.den \in Int /\ q.num * p.den \in Int
    BY DEF Rational
  <2> QED BY <2>1 DEF Same, Less
<1>2. \A p, q \in Rational : Less(p, q) => ~Less(q, p)
  BY Asymmetric
<1>3. Same(x, y) /\ Same(y, z) => Same(x, z)
  BY <1>1, Order
<1>4. Less(x, y) /\ Less(y, z) => Less(x, z)
  BY <1>2, Order
<1>5. Same(x, y) => (Less(x, z) <=> Less(y, z))
  BY <1>1, Order
<1>6. Same(x, y) => (Less(z, x) <=> Less(z, y))
  BY <1>1, Order
<1>7. Same(x, y) => Same(Abs(x), Abs(y))
  <2> SUFFICES ASSUME Same(x, y)  PROVE Same(Abs(x), Abs(y))
    OBVIOUS
  <2>1. x.num \in Int /\ y.num \in Int /\ x.den \in Int /\ y.den \in Int /\ x.num * y.den = y.num * x.den
    BY DEF Same, Rational
  <2>2. CASE x.num >= 0
    <3>1. y.num * x.den >= 0
      BY <2>1, <2>2
    <3>2. y.num >= 0
      BY <2>1, <3>1
    <3> QED BY <2>1, <2>2, <3>2 DEF Same, Abs, Magnitude, Q
  <2>3. CASE x.num < 0
    <3>1. y.num * x.den < 0
      BY <2>1, <2>3
    <3>2. y.num < 0
      BY <2>1, <3>1
    <3>3. (-x.num) * y.den = (-y.num) * x.den
      BY <2>1
    <3> QED BY <2>1, <2>3, <3>2, <3>3 DEF Same, Abs, Magnitude, Q
  <2> QED BY <2>1, <2>2, <2>3
<1> QED BY <1>1, <1>3, <1>4, <1>5, <1>6, <1>7

\* The bounds of NoneBetween leave no term out.
LEMMA NoTermBetween ==
  ASSUME Call0, NEW x \in Rational, NEW y \in Rational, x.den > 0, y.den > 0, NoneBetween(x, y),
         NEW z \in Rational, InSeries(z)
  PROVE  ~(Less(x, z) /\ Less(z, y))
<1> SUFFICES ASSUME Less(x, z), Less(z, y)  PROVE FALSE
  OBVIOUS
<1> DEFINE k == z.den  h == z.num
<1>1. z = Q(h, k) /\ k \in 1 .. kmax /\ h \in Int /\ k \in Int
  BY DEF InSeries, Q, Rational
<1>2. x.num \in Int /\ x.den \in Int /\ y.num \in Int /\ y.den \in Int
  BY DEF Rational
<1>3. x.num * k < h * x.den /\ h * y.den < y.num * k
  BY DEF Less
<1> HIDE DEF h, k
<1>4. ASSUME NEW p \in Int, NEW q \in Int, q > 0, NEW g \in Int
      PROVE  /\ p < g * q => p \div q <= g
             /\ g * q < p => g <= p \div q
             /\ p \div q \in Int
  <2>1. p \div q \in Int /\ p % q \in 0 .. q - 1 /\ p = q * (p \div q) + (p % q)
    BY <1>4
  <2>2. ASSUME NEW f \in Int, NEW r \in 0 .. q - 1, p = q * f + r
        PROVE  (p < g * q => f <= g) /\ (g * q < p => g <= f)
    <3>1. ASSUME g + 1 <= f  PROVE (g + 1) * q <= f * q
      BY <1>4, <3>1
    <3>2. ASSUME f + 1 <= g  PROVE (f + 1) * q <= g * q
      BY <1>4, <3>2
    <3>3. (g + 1) * q = g * q + q /\ (f + 1) * q = f * q + q /\ q * f = f * q
      BY <1>4
    <3>4. f * q \in Int /\ g * q \in Int /\ (g + 1) * q \in Int /\ (f + 1) * q \in Int
      BY <1>4
    <3> QED BY <1>4, <2>2, <3>1, <3>2, <3>3, <3>4
  <2> QED BY <2>1, <2>2
<1>5. h \in (x.num * k) \div x.den .. (y.num * k) \div y.den
  <2>1. x.num * k \in Int /\ y.num * k \in Int
    BY <1>1, <1>2
  <2> QED BY <1>1, <1>2, <1>3, <1>4, <2>1
<1> QED BY <1>1, <1>5 DEF NoneBetween

\* The number's neighbours are there unless the number is a term itself, and
\* nothing is nearer to it on their sides.
Flanked ==
  /\ Call0 /\ norm \in Rational /\ norm.den > 0 /\ Irreducible(norm)
  /\ equality <=> InSeries(norm)
  /\ ~equality =>
       /\ lefts[1] \in Rational /\ rights[1] \in Rational
       /\ InSeries(lefts[1]) /\ Irreducible(lefts[1]) /\ Less(lefts[1], norm)
       /\ InSeries(rights[1]) /\ Irreducible(rights[1]) /\ Less(norm, rights[1])
       /\ \A z \in Rational : InSeries(z) =>
            /\ ~Same(z, norm)
            /\ Less(z, norm) => ~Less(lefts[1], z)
            /\ Less(norm, z) => ~Less(z, rights[1])

LEMMA FlankedAtEnd ==
  ASSUME FabInv, NeighborsConsecutive, pc = "done", error = "none",
         wanted.left > 0, wanted.right > 0
  PROVE  Flanked
<1>1. Accepted
  BY DEF Accepted
<1>2. Call0 /\ norm \in Rational /\ norm.den > 0 /\ Irreducible(norm)
  BY <1>1, Given
<1>3. equality <=> InSeries(norm)
  BY <1>1 DEF FabInv, CallOK
<1>4. ASSUME ~equality, NEW z \in Rational, InSeries(z)  PROVE ~Same(z, norm)
  <2> SUFFICES ASSUME Same(z, norm)  PROVE FALSE
    OBVIOUS
  <2>1. z.den \in 1 .. kmax /\ (hmax > 0 => Magnitude(z.num) <= hmax) /\ kmax \in Nat /\ hmax \in Nat
    BY <1>2, <1>4 DEF InSeries, Call0
  <2>2. norm.den <= z.den /\ Magnitude(norm.num) <= Magnitude(z.num)
    BY <1>2, <2>1, LowestTerms
  <2>3. norm.den \in Int /\ Magnitude(norm.num) \in Int /\ Magnitude(z.num) \in Int
    BY <1>2 DEF Rational, Magnitude
  <2> QED BY <1>2, <1>3, <1>4, <2>1, <2>2, <2>3 DEF InSeries
<1>5. ASSUME Supplied, AtLeftEnd(norm) \/ AtRightEnd(norm)  PROVE equality
  <2>1. norm.num \in Int /\ norm.den \in Int /\ hmax \in Nat /\ kmax \in Nat /\ hmax > 0 /\ kmax > 0
    BY <1>2, <1>5 DEF Rational, Call0, Supplied
  <2>2. ~(hmax * norm.den < Magnitude(norm.num) * 1)
    BY <1>1, <1>2, <1>5, Given DEF Less, Abs, Q
  <2>3. Magnitude(norm.num) = hmax * norm.den
    BY <1>2, <1>5, <2>1, <2>2 DEF AtLeftEnd, AtRightEnd, Less, Q, Magnitude
  <2>4. \E z \in Rational : InSeries(z) /\ Same(z, norm)
    <3>1. CASE norm.num >= 0
      <4>1. Q(hmax, 1) \in Rational /\ InSeries(Q(hmax, 1)) /\ Same(Q(hmax, 1), norm)
        BY <2>1, <2>3, <3>1 DEF Q, Rational, InSeries, Same, Magnitude
      <4> QED BY <4>1
    <3>2. CASE norm.num < 0
      <4>1. Q(-hmax, 1) \in Rational /\ InSeries(Q(-hmax, 1)) /\ Same(Q(-hmax, 1), norm)
        BY <2>1, <2>3, <3>2 DEF Q, Rational, InSeries, Same, Magnitude
      <4> QED BY <4>1
    <3> QED BY <2>1, <3>1, <3>2
  <2> QED BY <1>4, <2>4
<1>6. ASSUME ~equality
      PROVE  /\ lefts # <<>> /\ rights # <<>>
             /\ lefts \in Seq(Rational) /\ rights \in Seq(Rational)
  <2>1. /\ Len(lefts) = wanted.left \/ AtLeftEnd(IF lefts = <<>> THEN norm ELSE lefts[Len(lefts)])
        /\ Len(rights) = wanted.right \/ AtRightEnd(IF rights = <<>> THEN norm ELSE rights[Len(rights)])
    BY <1>1 DEF FabInv, QueuesOK
  <2>2. lefts \in Seq(Rational) /\ rights \in Seq(Rational)
    BY DEF FabInv, TypeOK
  <2>3. lefts = <<>> => AtLeftEnd(norm) /\ Supplied
    BY <2>1 DEF AtLeftEnd
  <2>4. rights = <<>> => AtRightEnd(norm) /\ Supplied
    BY <2>1 DEF AtRightEnd
  <2> QED BY <1>5, <1>6, <2>2, <2>3, <2>4
<1>7. ASSUME ~equality
      PROVE  /\ lefts[1] \in Rational /\ rights[1] \in Rational
             /\ InSeries(lefts[1]) /\ Irreducible(lefts[1]) /\ Less(lefts[1], norm)
             /\ InSeries(rights[1]) /\ Irreducible(rights[1]) /\ Less(norm, rights[1])
             /\ NoneBetween(lefts[1], norm) /\ NoneBetween(norm, rights[1])
  <2>1. 1 \in 1 .. Len(lefts) /\ 1 \in 1 .. Len(rights)
    BY <1>6, <1>7
  <2> QED BY <1>6, <1>7, <2>1 DEF NeighborsConsecutive, LeftsConsecutive, RightsConsecutive
<1>8. ASSUME ~equality, NEW z \in Rational, InSeries(z)
      PROVE  /\ Less(z, norm) => ~Less(lefts[1], z)
             /\ Less(norm, z) => ~Less(z, rights[1])
  <2>1. lefts[1].den > 0 /\ rights[1].den > 0
    BY <1>2, <1>7, <1>8 DEF InSeries, Call0
  <2> QED BY <1>2, <1>7, <1>8, <2>1, NoTermBetween
<1> QED BY <1>2, <1>3, <1>4, <1>7, <1>8 DEF Flanked

\* best is at least as near to the number as z, and no greater in magnitude if
\* it is only as near.
AsGood(best, z) ==
  \/ Less(Distance(best, norm), Distance(z, norm))
  \/ Same(Distance(best, norm), Distance(z, norm)) /\ ~Less(Abs(z), Abs(best))

LEMMA AsGoodAsItself ==
  ASSUME Flanked, NEW x \in Rational, NEW z \in Rational, x.den > 0, z.den > 0, Same(x, z)
  PROVE  AsGood(x, z)
<1>1. norm \in Rational /\ norm.den > 0
  BY DEF Flanked
<1>2. Same(Abs(x), Abs(z))
  BY OrderSame
<1>3. ~Less(Abs(z), Abs(x))
  BY <1>1, <1>2, OrderSame, DistanceIsRational
<1>4. Same(Distance(x, norm), Distance(z, norm))
  <2>1. CASE ~Less(norm, x) /\ ~Less(norm, z)
    BY <1>1, <2>1, DistanceLeft
  <2>2. CASE ~Less(x, norm) /\ ~Less(z, norm)
    BY <1>1, <2>2, DistanceRight
  <2>3. (Less(norm, x) <=> Less(norm, z)) /\ (Less(x, norm) <=> Less(z, norm))
    BY <1>1, OrderSame
  <2>4. Less(norm, x) => ~Less(x, norm)
    BY <1>1, Asymmetric
  <2> QED BY <2>1, <2>2, <2>3, <2>4
<1> QED BY <1>3, <1>4 DEF AsGood

\* AsGood is transitive.
LEMMA AsGoodTransitive ==
  ASSUME Flanked, NEW x \in Rational, NEW y \in Rational, NEW z \in Rational,
         x.den > 0, y.den > 0, z.den > 0, AsGood(x, y), AsGood(y, z)
  PROVE  AsGood(x, z)
<1>1. norm \in Rational /\ norm.den > 0
  BY DEF Flanked
<1> DEFINE dx == Distance(x, norm)  dy == Distance(y, norm)  dz == Distance(z, norm)
<1>2. /\ dx \in Rational /\ dx.den > 0 /\ dy \in Rational /\ dy.den > 0
      /\ dz \in Rational /\ dz.den > 0
      /\ Abs(x) \in Rational /\ Abs(x).den > 0 /\ Abs(y) \in Rational /\ Abs(y).den > 0
      /\ Abs(z) \in Rational /\ Abs(z).den > 0
  BY <1>1, DistanceIsRational
<1> HIDE DEF dx, dy, dz
<1>3. /\ Less(dx, dy) \/ (Same(dx, dy) /\ ~Less(Abs(y), Abs(x)))
      /\ Less(dy, dz) \/ (Same(dy, dz) /\ ~Less(Abs(z), Abs(y)))
  BY DEF AsGood, dx, dy, dz
<1>4. CASE Less(dx, dy)
  <2>1. Less(dx, dz)
    BY <1>2, <1>3, <1>4, OrderSame
  <2> QED BY <2>1 DEF AsGood, dx, dz
<1>5. CASE Less(dy, dz)
  <2>1. Less(dx, dz)
    BY <1>2, <1>3, <1>5, OrderSame
  <2> QED BY <2>1 DEF AsGood, dx, dz
<1>6. CASE /\ Same(dx, dy) /\ ~Less(Abs(y), Abs(x))
           /\ Same(dy, dz) /\ ~Less(Abs(z), Abs(y))
  <2>1. Same(dx, dz)
    BY <1>2, <1>6, OrderSame
  <2>2. ~Less(Abs(z), Abs(x))
    BY <1>2, <1>6, Order
  <2> QED BY <2>1, <2>2 DEF AsGood, dx, dz
<1> QED BY <1>3, <1>4, <1>5, <1>6

\* A term on one side of the number is no better than the neighbour there.
LEMMA NeighborAsGood ==
  ASSUME Flanked, ~equality, NEW z \in Rational, InSeries(z)
  PROVE  /\ Less(z, norm) => AsGood(lefts[1], z)
         /\ Less(norm, z) => AsGood(rights[1], z)
         /\ Less(z, norm) \/ Less(norm, z)
<1> DEFINE l == lefts[1]  r == rights[1]
<1>1. /\ norm \in Rational /\ norm.den > 0 /\ l \in Rational /\ r \in Rational
      /\ Less(l, norm) /\ Less(norm, r)
      /\ ~Same(z, norm) /\ (Less(z, norm) => ~Less(l, z)) /\ (Less(norm, z) => ~Less(z, r))
  BY DEF Flanked
<1>2. l.den > 0 /\ r.den > 0 /\ z.den > 0
  BY DEF Flanked, InSeries, Call0
<1> HIDE DEF l, r
<1>3. Less(z, norm) \/ Less(norm, z)
  BY <1>1, <1>2, OrderSame
<1>4. ASSUME Less(z, norm)  PROVE AsGood(l, z)
  <2>1. ~Less(norm, l) /\ ~Less(norm, z)
    BY <1>1, <1>4, Asymmetric
  <2>2. CASE Less(z, l)
    BY <1>1, <1>2, <2>1, <2>2, DistanceLeft DEF AsGood
  <2>3. CASE ~Less(z, l)
    BY <1>1, <1>2, <1>4, <2>3, OrderSame, AsGoodAsItself
  <2> QED BY <2>2, <2>3
<1>5. ASSUME Less(norm, z)  PROVE AsGood(r, z)
  <2>1. ~Less(r, norm) /\ ~Less(z, norm)
    BY <1>1, <1>5, Asymmetric
  <2>2. CASE Less(r, z)
    BY <1>1, <1>2, <2>1, <2>2, DistanceRight DEF AsGood
  <2>3. CASE ~Less(r, z)
    BY <1>1, <1>2, <1>5, <2>3, OrderSame, AsGoodAsItself
  <2> QED BY <2>2, <2>3
<1> QED BY <1>3, <1>4, <1>5 DEF l, r

\* The number itself is nearest to itself.
LEMMA NumberAsGood ==
  ASSUME Flanked, NEW z \in Rational, z.den > 0
  PROVE  AsGood(norm, z)
<1>1. norm \in Rational /\ norm.den > 0
  BY DEF Flanked
<1>2. CASE Same(norm, z)
  BY <1>1, <1>2, AsGoodAsItself
<1>3. CASE Less(norm, z)
  <2>1. ~Less(norm, norm) /\ ~Less(z, norm)
    BY <1>1, <1>3, Asymmetric
  <2> QED BY <1>1, <1>3, <2>1, DistanceRight DEF AsGood
<1>4. CASE Less(z, norm)
  <2>1. ~Less(norm, norm) /\ ~Less(norm, z)
    BY <1>1, <1>4, Asymmetric
  <2> QED BY <1>1, <1>4, <2>1, DistanceLeft DEF AsGood
<1> QED BY <1>1, <1>2, <1>3, <1>4, OrderSame

Option == {"closest", "neverlarger", "neversmaller"}

\* cfbrapab's choice, against every term of the series.
LEMMA BestOfAll ==
  ASSUME Flanked, NEW option \in Option
  PROVE  /\ InSeries(Best(option)) /\ Irreducible(Best(option)) /\ Allowed(option, Best(option))
         /\ \A z \in Rational : InSeries(z) /\ Allowed(option, z) => AsGood(Best(option), z)
<1> DEFINE l == lefts[1]  r == rights[1]
<1>1. ASSUME NEW z \in Rational, InSeries(z)  PROVE z.den > 0
  BY <1>1 DEF InSeries, Flanked, Call0
<1>2. CASE equality
  <2>1. Best(option) = norm
    BY <1>2 DEF Best
  <2>2. ~Less(norm, norm)
    BY Asymmetric DEF Flanked
  <2> QED BY <1>1, <1>2, <2>1, <2>2, NumberAsGood DEF Flanked, Allowed
<1>3. CASE ~equality
  <2>1. /\ norm \in Rational /\ l \in Rational /\ r \in Rational
        /\ norm.den > 0 /\ l.den > 0 /\ r.den > 0
        /\ InSeries(l) /\ Irreducible(l) /\ InSeries(r) /\ Irreducible(r)
        /\ Less(l, norm) /\ Less(norm, r) /\ ~Less(norm, l) /\ ~Less(r, norm)
    BY <1>1, <1>3, Asymmetric DEF Flanked
  <2>2. \A z \in Rational : InSeries(z) =>
          /\ Less(z, norm) => AsGood(l, z)
          /\ Less(norm, z) => AsGood(r, z)
          /\ Less(z, norm) \/ Less(norm, z)
    BY <1>3, NeighborAsGood
  <2> HIDE DEF l, r
  <2>3. CASE option = "neverlarger"
    <3>1. Best(option) = l
      BY <1>3, <2>3 DEF Best, l
    <3> QED BY <2>1, <2>2, <2>3, <3>1 DEF Allowed
  <2>4. CASE option = "neversmaller"
    <3>1. Best(option) = r
      BY <1>3, <2>4 DEF Best, r
    <3> QED BY <2>1, <2>2, <2>4, <3>1 DEF Allowed
  <2>5. CASE option = "closest"
    <3>1. CASE Closer(l, r)
      <4>1. Best(option) = l
        BY <1>3, <2>5, <3>1 DEF Best, l, r
      <4>2. AsGood(l, r)
        <5>1. Less(Abs(l), Abs(r)) => ~Less(Abs(r), Abs(l))
          BY <2>1, DistanceIsRational, Asymmetric
        <5> QED BY <3>1, <5>1 DEF AsGood, Closer
      <4>3. ASSUME NEW z \in Rational, InSeries(z)  PROVE AsGood(l, z)
        BY <1>1, <2>1, <2>2, <4>2, <4>3, AsGoodTransitive
      <4> QED BY <2>1, <2>5, <4>1, <4>3 DEF Allowed
    <3>2. CASE ~Closer(l, r)
      <4>1. Best(option) = r
        BY <1>3, <2>5, <3>2 DEF Best, l, r
      <4>2. AsGood(r, l)
        <5> DEFINE dl == Distance(l, norm)  dr == Distance(r, norm)
        <5>1. dl \in Rational /\ dl.den > 0 /\ dr \in Rational /\ dr.den > 0
          BY <2>1, DistanceIsRational
        <5>2. ~Less(dl, dr) /\ ~(Same(dl, dr) /\ Less(Abs(l), Abs(r)))
          BY <3>2 DEF Closer
        <5> HIDE DEF dl, dr
        <5>3. Less(dr, dl) \/ (Same(dr, dl) /\ ~Less(Abs(l), Abs(r)))
          BY <5>1, <5>2, OrderSame
        <5> QED BY <5>3 DEF AsGood, dl, dr
      <4>3. ASSUME NEW z \in Rational, InSeries(z)  PROVE AsGood(r, z)
        BY <1>1, <2>1, <2>2, <4>2, <4>3, AsGoodTransitive
      <4> QED BY <2>1, <2>5, <4>1, <4>3 DEF Allowed
    <3> QED BY <3>1, <3>2
  <2> QED BY <2>3, <2>4, <2>5 DEF Option
<1> QED BY <1>2, <1>3

\* The candidates that BestIsClosest compares with are terms of the series.
LEMMA CandidatesAreTerms ==
  ASSUME Flanked, NEW z \in Candidate
  PROVE  z \in Rational /\ InSeries(z)
<1>1. norm.num \in Int /\ norm.den \in Nat /\ norm.den > 0 /\ kmax \in Nat /\ hmax \in Nat
  BY DEF Flanked, Rational, Call0
<1>2. PICK k \in 1 .. kmax :
        \E h \in IF Supplied THEN -hmax .. hmax
                 ELSE {(norm.num * k) \div norm.den, (norm.num * k) \div norm.den + 1} : z = Q(h, k)
  BY DEF Candidate
<1>3. (norm.num * k) \div norm.den \in Int
  <2>1. norm.num * k \in Int
    BY <1>1
  <2> QED BY <1>1, <2>1
<1>4. PICK h \in Int : z = Q(h, k) /\ (Supplied => h \in -hmax .. hmax)
  BY <1>1, <1>2, <1>3
<1> QED BY <1>1, <1>4 DEF Q, Rational, InSeries, Magnitude, Supplied

\* The number that cfbrapab prints is a term of the series, in lowest terms, and
\* no term that the option allows is nearer, or as near and smaller in magnitude.
THEOREM ClosestIsChosen == Spec => []BestIsClosest
<1>1. FabInv /\ NeighborsConsecutive => BestIsClosest
  <2> SUFFICES ASSUME FabInv, NeighborsConsecutive, pc = "done", error = "none",
                      wanted.left > 0, wanted.right > 0, NEW option \in Option
               PROVE  /\ InSeries(Best(option)) /\ Irreducible(Best(option))
                      /\ Allowed(option, Best(option))
                      /\ \A x \in Candidate : Allowed(option, x) => AsGood(Best(option), x)
    BY DEF BestIsClosest, Option, AsGood
  <2>1. Flanked
    BY FlankedAtEnd
  <2> QED BY <2>1, BestOfAll, CandidatesAreTerms
<1> QED BY <1>1, FabInvariant, Consecutive, PTL

NothingCloser ==
  pc = "done" /\ error = "none" /\ wanted.left > 0 /\ wanted.right > 0 =>
    \A option \in Option, x \in Rational :
      InSeries(x) /\ Allowed(option, x) => AsGood(Best(option), x)

\* The same, compared with all the terms there are: without HMAX these are more
\* than the candidates.
THEOREM NoTermIsCloser == Spec => []NothingCloser
<1>1. FabInv /\ NeighborsConsecutive => NothingCloser
  BY FlankedAtEnd, BestOfAll DEF NothingCloser
<1> QED BY <1>1, FabInvariant, Consecutive, PTL
-----------------------------------------------------------------------------
\* The two facts that CallEnds rests on.  First, no call is stuck: wherever it is,
\* the guard of some action of Work is true.  In the walks, that is one of the rules.
SomeRule(x) == Above(x) \/ AtCorner(x) \/ Inner(x) \/ AtNegCorner(x) \/ Below(x)
Proceeds ==
  \/ pc \in {"idle", "done", "aborted"} \cup Part \cup {"corners", "queueLeft", "queueRight"}
  \/ pc = "leftFrame" /\ (NoLefts \/ SomeRule(norm))
  \/ pc = "advanceLeft" /\ SomeRule(left)
  \/ pc = "rightFrame" /\ (NoRights \/ SomeRule(norm))
  \/ pc = "advanceRight" /\ SomeRule(right)

\* A call never comes to a place where none of its rules applies: the regions of
\* the walk meet without a gap, for the number and for every term on the way.
THEOREM NeverStuck == Spec => []Proceeds
<1>1. FabInv => Proceeds
  <2> SUFFICES ASSUME FabInv, pc \in {"leftFrame", "advanceLeft", "rightFrame", "advanceRight"}
               PROVE  Proceeds
    BY DEF FabInv, TypeOK, Proceeds
  <2>1. Accepted
    BY DEF FabInv, CallOK, Accepted
  <2>2. /\ Call0 /\ norm \in Rational /\ norm.den > 0
        /\ left \in Rational /\ right \in Rational
    BY <2>1, Given
  <2>3. CASE pc \in {"leftFrame", "rightFrame"}
    BY <2>2, <2>3, Regions DEF Proceeds, SomeRule
  <2>4. CASE pc \in {"advanceLeft", "advanceRight"}
    <3>1. Pair(left, right)
      BY <2>1, <2>4 DEF FabInv, FrameOK
    <3>2. left.den > 0 /\ right.den > 0
      BY <2>2, <3>1, PairNeighbors DEF Neighbors, InSeries, Call0
    <3>3. QED
      BY <2>2, <2>4, <3>2, Regions DEF Proceeds, SomeRule
  <2>5. QED
    BY <2>3, <2>4
<1>2. QED
  BY <1>1, FabInvariant, PTL

\* Second, every step brings it nearer to its end: to a later stage, or in the same
\* stage to fewer rows or terms that may still come.
Stage(s) ==
  CASE s = "corner" -> 9 [] s = "cornerRecip" -> 8 [] s = "rn" -> 7 [] s = "recip" -> 6
    [] s = "corners" -> 5 [] s = "leftFrame" -> 4 [] s \in {"queueLeft", "advanceLeft"} -> 3
    [] s = "rightFrame" -> 2 [] s \in {"queueRight", "advanceRight"} -> 1 [] OTHER -> 0
ToCome ==
  CASE pc \in Part -> MaxRows - Len(cf[pc])
    [] pc = "queueLeft" -> 2 * (wanted.left - Len(lefts))
    [] pc = "advanceLeft" -> 2 * (wanted.left - Len(lefts)) + 1
    [] pc = "queueRight" -> 2 * (wanted.right - Len(rights))
    [] pc = "advanceRight" -> 2 * (wanted.right - Len(rights)) + 1
    [] OTHER -> 0
Descends ==
  /\ Stage(pc') < Stage(pc) \/ (Stage(pc') = Stage(pc) /\ ToCome' < ToCome)
  /\ Stage(pc') \in Nat /\ ToCome' \in Nat

\* The cases are disjoint.
LEMMA ToComeIs ==
  /\ pc \in Part => ToCome = MaxRows - Len(cf[pc])
  /\ pc = "queueLeft" => ToCome = 2 * (wanted.left - Len(lefts))
  /\ pc = "advanceLeft" => ToCome = 2 * (wanted.left - Len(lefts)) + 1
  /\ pc = "queueRight" => ToCome = 2 * (wanted.right - Len(rights))
  /\ pc = "advanceRight" => ToCome = 2 * (wanted.right - Len(rights)) + 1
  /\ pc \notin Part \cup {"queueLeft", "advanceLeft", "queueRight", "advanceRight"} => ToCome = 0
BY DEF ToCome, Part
LEMMA ToComeIsNext ==
  (/\ pc \in Part => ToCome = MaxRows - Len(cf[pc])
   /\ pc = "queueLeft" => ToCome = 2 * (wanted.left - Len(lefts))
   /\ pc = "advanceLeft" => ToCome = 2 * (wanted.left - Len(lefts)) + 1
   /\ pc = "queueRight" => ToCome = 2 * (wanted.right - Len(rights))
   /\ pc = "advanceRight" => ToCome = 2 * (wanted.right - Len(rights)) + 1)'
BY ToComeIs, PTL

LEMMA ToComeNatural == FabInv => ToCome \in Nat
<1> SUFFICES ASSUME FabInv PROVE ToCome \in Nat
  OBVIOUS
<1>1. /\ wanted.left \in Nat /\ wanted.right \in Nat
      /\ Len(lefts) \in Nat /\ Len(rights) \in Nat
      /\ \A w \in Part : Len(cf[w]) \in Nat
      /\ Len(lefts) <= wanted.left /\ Len(rights) <= wanted.right
  BY DEF FabInv, TypeOK, QueuesOK, Rows
<1>2. pc \in Part => Len(cf[pc]) < MaxRows
  <2>1. pc \in Part => Accepted
    BY DEF FabInv, CallOK, Accepted, Part
  <2>2. QED
    BY <2>1 DEF FabInv, StageOK
<1>3. CASE pc \in Part
  <2>1. Len(cf[pc]) \in Nat /\ MaxRows \in Nat
    BY <1>1, <1>3, FabAssumption
  <2>2. QED
    BY <1>2, <1>3, <2>1, ToComeIs
<1>4. CASE pc \notin Part
  BY <1>1, <1>4, ToComeIs
<1>5. QED
  BY <1>3, <1>4

LEMMA ToComeNaturalNext == (FabInv => ToCome \in Nat)'
BY ToComeNatural, PTL

LEMMA RowDescends ==
  ASSUME FabInv, NEW w \in Part, NEW next, Row(w, next), Stage(next) < Stage(w)
  PROVE  \/ Stage(pc') < Stage(pc)
         \/ Stage(pc') = Stage(pc) /\ ToCome' < ToCome
<1>1. pc = w /\ pc' \in {w, next, "aborted"} /\ cf \in [Part -> Rows]
  BY DEF Row, FabInv, TypeOK
<1>2. CASE pc' = w
  <2>1. PICK row : cf' = [cf EXCEPT ![w] = Append(cf[w], row)]
    BY DEF Row
  <2>2. Len(cf'[w]) = Len(cf[w]) + 1 /\ Len(cf[w]) \in Nat
    BY <1>1, <2>1 DEF Rows
  <2>3. QED
    BY <1>1, <1>2, <2>2, FabAssumption, ToComeIs, ToComeIsNext
<1>3. CASE pc' = next
  BY <1>1, <1>3
<1>4. CASE pc' = "aborted"
  BY <1>1, <1>4 DEF Stage, Part
<1>5. QED
  BY <1>1, <1>2, <1>3, <1>4

\* With WF_vars(Work), NeverStuck and the descent of two natural numbers in
\* lexicographic order, every call ends; that last inference is an induction.
THEOREM EveryStepDescends == Spec => [][Work => Descends]_vars
<1>1. ASSUME FabInv, FabInv', Work PROVE Descends
  <2>1. ToCome \in Nat /\ ToCome' \in Nat
    BY <1>1, ToComeNatural, ToComeNaturalNext
  <2>2. Stage(pc') \in Nat
    BY DEF Stage
  <2>3. SUFFICES Stage(pc') < Stage(pc) \/ (Stage(pc') = Stage(pc) /\ ToCome' < ToCome)
    BY <2>1, <2>2 DEF Descends
  <2>4. CASE Decompose
    <3>1. \A w, next \in Part \cup {"corners"} :
            w \in Part /\ Row(w, next) /\ Stage(next) < Stage(w) =>
              Stage(pc') < Stage(pc) \/ (Stage(pc') = Stage(pc) /\ ToCome' < ToCome)
      BY <1>1, RowDescends
    <3>2. PICK w \in Part, next \in Part \cup {"corners"} :
            Row(w, next) /\ Stage(next) < Stage(w)
      <4>1. /\ Stage("cornerRecip") < Stage("corner") /\ Stage("rn") < Stage("cornerRecip")
            /\ Stage("recip") < Stage("rn") /\ Stage("corners") < Stage("rn")
            /\ Stage("corners") < Stage("recip")
        BY DEF Stage
      <4>2. QED
        BY <2>4, <4>1 DEF Decompose, Part
    <3>3. QED
      BY <3>1, <3>2
  <2>5. CASE Corners
    BY <2>5 DEF Corners, Stage
  <2>6. CASE SkipLeft \/ LeftFrame \/ SkipRight \/ RightFrame
    <3>1. \/ pc = "leftFrame" /\ pc' \in {"queueLeft", "rightFrame"}
          \/ pc = "rightFrame" /\ pc' \in {"queueRight", "done"}
      BY <2>6 DEF SkipLeft, LeftFrame, SkipRight, RightFrame, SetFrame
    <3>2. QED
      BY <3>1 DEF Stage
  <2>7. CASE QueueLeft \/ QueueRight
    <3>1. /\ wanted.left \in Nat /\ wanted.right \in Nat /\ wanted' = wanted
          /\ Len(lefts) \in Nat /\ Len(rights) \in Nat
      BY <1>1, <2>7 DEF FabInv, TypeOK, QueueLeft, QueueRight, call
    <3>2. CASE QueueLeft
      <4>1. /\ pc = "queueLeft" /\ pc' \in {"rightFrame", "advanceLeft"}
            /\ Len(lefts') = Len(lefts) + 1
        BY <1>1, <3>2 DEF QueueLeft, FabInv, TypeOK
      <4>2. QED
        BY <3>1, <4>1, ToComeIs, ToComeIsNext DEF Stage
    <3>3. CASE QueueRight
      <4>1. /\ pc = "queueRight" /\ pc' \in {"done", "advanceRight"}
            /\ Len(rights') = Len(rights) + 1
        BY <1>1, <3>3 DEF QueueRight, FabInv, TypeOK
      <4>2. QED
        BY <3>1, <4>1, ToComeIs, ToComeIsNext DEF Stage
    <3>4. QED
      BY <2>7, <3>2, <3>3
  <2>8. CASE AdvanceLeft \/ AdvanceRight
    <3>1. /\ wanted.left \in Nat /\ wanted.right \in Nat
          /\ Len(lefts) \in Nat /\ Len(rights) \in Nat
      BY <1>1 DEF FabInv, TypeOK
    <3>2. UNCHANGED <<wanted, lefts, rights>>
      BY <1>1, <2>8, AdvanceLeftOK, AdvanceRightOK DEF call, found
    <3>3. \/ pc = "advanceLeft" /\ pc' = "queueLeft"
          \/ pc = "advanceRight" /\ pc' = "queueRight"
      BY <1>1, <2>8, AdvanceLeftOK, AdvanceRightOK
    <3>4. QED
      BY <3>1, <3>2, <3>3, ToComeIs, ToComeIsNext DEF Stage
  <2>9. QED
    BY <1>1, <2>4, <2>5, <2>6, <2>7, <2>8 DEF Work
<1>2. QED
  BY <1>1, FabInvariant, PTL DEF Spec
=============================================================================
