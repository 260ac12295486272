------------------------------ MODULE FabTerms -------------------------------
(***************************************************************************)
(* gmp_ralg.c of the ETS libraries: best rational approximations.          *)
(* GMP_RALG_consecutive_fab_terms lists the terms next to a given number   *)
(* in a series: the fractions with a denominator up to KMAX and, if HMAX   *)
(* is given, a numerator up to HMAX in magnitude.  It decomposes up to     *)
(* four numbers into continued fractions (GMP_RALG_cfdecomp_init), finds   *)
(* the two terms around the number from the convergents                    *)
(* (GMP_RALG_enclosing_farey_neighbors) and then walks away from it, term  *)
(* by term, first to the left and then to the right, with a rule for each  *)
(* part of the series; cfbrapab's c_main.c picks the closer neighbour.     *)
(*                                                                         *)
(* A row of a decomposition, a frame (two neighbours) and a queued term    *)
(* are one step each.  Integers are those of the mathematics: the library  *)
(* computes with up to 10,382 limbs and the overflow flags are left out.   *)
(* The build is one with assertions.                                       *)
(***************************************************************************)
EXTENDS Integers, Sequences

CONSTANTS
  Number,   \* the numbers asked for, as passed: not reduced, any signs
  KMax,     \* values of KMAX
  HMax,     \* values of HMAX, 0 if there is none
  Wanted,   \* numbers of neighbours asked for on a side
  MaxRows,  \* rows of a decomposition: 100000
  MaxTerms  \* the neighbours it is willing to find on a side: 10000

ASSUME FabAssumption ==
  /\ Number \subseteq [num : Int, den : Int]
  /\ KMax \subseteq Int /\ HMax \subseteq Int
  /\ Wanted \subseteq Nat
  /\ MaxRows \in Nat \ {0}
  /\ MaxTerms \in Nat \ {0}

VARIABLES
  pc,          \* the decomposition or the part of the function it is in
  error,       \* why there is no result, or "none"
  norm,        \* norm_rn
  kmax, hmax,  \* kmax_in, hmax_in: 0 stands for not supplied
  wanted,      \* n_left_in, n_right_in
  equality,    \* the number is a term of the series itself
  corner,      \* corner_point, HMAX/KMAX reduced
  minusOne,    \* corner_point_minus_one
  plusOne,     \* corner_point_plus_one
  cf,          \* the rows of the four decompositions
  left, right, \* the frame: left_neighbor, right_neighbor
  lefts, rights

call == <<error, norm, kmax, hmax, wanted, equality, corner>>
corners == <<minusOne, plusOne>>
frame == <<left, right>>
found == <<lefts, rights>>
vars == <<pc, call, corners, cf, frame, found>>
-----------------------------------------------------------------------------
\* Rational numbers (gmp_rats.c).
Q(h, k) == [num |-> h, den |-> k]
Magnitude(i) == IF i < 0 THEN -i ELSE i
Abs(x) == Q(Magnitude(x.num), x.den)
Neg(x) == Q(-x.num, x.den)
Recip(x) == Q(x.den, x.num)
Less(x, y) == x.num * y.den < y.num * x.den
Same(x, y) == x.num * y.den = y.num * x.den

Divides(d, i) == \E x \in -Magnitude(i) .. Magnitude(i) : d * x = i
Irreducible(x) == \A d \in 2 .. x.den : ~(Divides(d, x.num) /\ Divides(d, x.den))

\* The one irreducible number of the same value with a positive denominator.
Normalized(x) ==
  {y \in [num : -Magnitude(x.num) .. Magnitude(x.num), den : 1 .. Magnitude(x.den)] :
     Same(x, y) /\ Irreducible(y)}

\* A term of the series.
InSeries(x) == x.den \in 1 .. kmax /\ (hmax > 0 => Magnitude(x.num) <= hmax)
-----------------------------------------------------------------------------
\* The i-th convergent, counted from 1, with the two that precede the first.
Convergent(rows, i) ==
  IF i = -1 THEN Q(0, 1) ELSE IF i = 0 THEN Q(1, 0) ELSE Q(rows[i].p, rows[i].q)

\* The row that the division loop adds to the rows of x.
NextRow(x, rows) ==
  LET n == Len(rows)
      dividend == IF n = 0 THEN x.num ELSE rows[n].divisor
      divisor == IF n = 0 THEN x.den ELSE rows[n].remainder
      a == dividend \div divisor
  IN [divisor |-> divisor, a |-> a, remainder |-> dividend % divisor,
      p |-> a * Convergent(rows, n).num + Convergent(rows, n - 1).num,
      q |-> a * Convergent(rows, n).den + Convergent(rows, n - 1).den]

FareyPredecessor(two, one, N) ==
  LET f == (two.den + N) \div one.den
  IN Q(f * one.num - two.num, f * one.den - two.den)

\* Mutant: the floor is of one less.
SuccessorTooNear(two, one, N) ==
  LET f == (two.den + N - 1) \div one.den
  IN Q(f * one.num - two.num, f * one.den - two.den)
FareySuccessor(two, one, N) ==
  LET f == (two.den + N) \div one.den
  IN Q(f * one.num - two.num, f * one.den - two.den)

\* The search for the last convergent with a denominator up to N: the first row
\* that is the last one or has a greater denominator after it.
Stops(rows, N, i) == i = Len(rows) \/ rows[i + 1].q > N
LastConvergent(rows, N) ==
  CHOOSE i \in 1 .. Len(rows) : Stops(rows, N, i) /\ \A j \in 1 .. i - 1 : ~Stops(rows, N, j)

\* The neighbours of x in the Farey series of order N, x not negative; if x is
\* a term, the number itself is none of them.
PositiveNeighbors(x, N, rows) ==
  LET i == LastConvergent(rows, N)
      c == Convergent(rows, i)
      prev == Convergent(rows, i - 1)
      f == (N - prev.den) \div c.den
      other == Q(f * c.num + prev.num, f * c.den + prev.den)
      formable == x.den <= N
  IN IF i % 2 = 1
     THEN [left |-> IF formable THEN FareyPredecessor(other, x, N) ELSE c, right |-> other]
     ELSE [left |-> other, right |-> IF formable THEN FareySuccessor(other, x, N) ELSE c]

EnclosingNeighbors(x, N, rows) ==
  IF x.num = 0 THEN [left |-> Q(-1, N), right |-> Q(1, N)]
  ELSE LET e == PositiveNeighbors(Abs(x), N, rows)
       IN IF x.num > 0 THEN e ELSE [left |-> Neg(e.right), right |-> Neg(e.left)]
-----------------------------------------------------------------------------
\* Where a number lies: beyond the corner HMAX is the constraint that counts.
Supplied == hmax > 0
Above(x) == Supplied /\ Less(corner, x)
AtCorner(x) == Supplied /\ Same(corner, x)
AtNegCorner(x) == Supplied /\ Same(Neg(corner), x)
Below(x) == Supplied /\ Less(x, Neg(corner))
Inner(x) == Supplied => Less(Neg(corner), x) /\ Less(x, corner)

\* The ends of the series, if it has any.
AtLeftEnd(x) == Supplied /\ ~Less(Q(-hmax, 1), x)
AtRightEnd(x) == Supplied /\ ~Less(x, Q(hmax, 1))

Part == {"corner", "cornerRecip", "rn", "recip"}
Fraction(w) == CASE w = "corner" -> corner
                 [] w = "cornerRecip" -> Recip(corner)
                 [] w = "rn" -> Abs(norm)
                 [] w = "recip" -> Recip(Abs(norm))

Init ==
  /\ pc = "idle" /\ error = "none"
  /\ norm = Q(0, 1) /\ kmax = 0 /\ hmax = 0
  /\ wanted = [left |-> 0, right |-> 0]
  /\ equality = FALSE
  /\ corner = Q(0, 1) /\ minusOne = Q(0, 1) /\ plusOne = Q(0, 1)
  /\ cf = [w \in Part |-> <<>>]
  /\ left = Q(0, 1) /\ right = Q(0, 1)
  /\ lefts = <<>> /\ rights = <<>>

Clamp(n) == IF n > MaxTerms THEN MaxTerms ELSE n

\* A call that is refused: KMAX or HMAX out of range, no number, or a number
\* that is greater than HMAX/1 in magnitude.
Refuse(x, k, h) ==
  /\ pc = "idle"
  /\ \/ k <= 0 /\ error' = "kmax"
     \/ k > 0 /\ h < 0 /\ error' = "hmax"
     \/ k > 0 /\ h >= 0 /\ x.den = 0 /\ error' = "general"
     \/ /\ k > 0 /\ h > 0 /\ x.den # 0
        /\ \E y \in Normalized(x) : Less(Q(h, 1), Abs(y))
        /\ error' = "general"
  /\ pc' = "done"
  /\ UNCHANGED <<norm, kmax, hmax, wanted, equality, corner, corners, cf, frame, found>>

Begin(x, k, h, l, r) ==
  /\ pc = "idle"
  /\ k > 0 /\ h >= 0 /\ x.den # 0
  /\ kmax' = k /\ hmax' = h
  /\ wanted' = [left |-> Clamp(l), right |-> Clamp(r)]
  /\ norm' \in Normalized(x)
  /\ h > 0 => ~Less(Q(h, 1), Abs(norm'))
  /\ corner' \in IF h > 0 THEN Normalized(Q(h, k)) ELSE {corner}
  /\ equality' = (norm'.den <= k /\ (h > 0 => Magnitude(norm'.num) <= h))
  /\ pc' = IF h > 0 THEN "corner" ELSE "rn"
  /\ UNCHANGED <<error, corners, cf, frame, found>>

\* One turn of the loop of GMP_RALG_cfdecomp_init.
Row(w, next) ==
  /\ pc = w
  /\ LET row == NextRow(Fraction(w), cf[w])
     IN /\ cf' = [cf EXCEPT ![w] = Append(@, row)]
        /\ pc' = CASE Len(cf[w]) + 1 = MaxRows -> "aborted"
                   [] Len(cf[w]) + 1 < MaxRows /\ row.remainder # 0 -> w
                   [] OTHER -> next
  /\ UNCHANGED <<call, corners, frame, found>>

Decompose ==
  \/ Row("corner", "cornerRecip")
  \/ Row("cornerRecip", "rn")
  \/ Row("rn", IF Above(Abs(norm)) THEN "recip" ELSE "corners")
  \/ Row("recip", "corners")

\* Mutant: the neighbour of the corner's reciprocal is taken on the wrong side.
CornersSwapped ==
  /\ pc = "corners"
  /\ IF Supplied
     THEN /\ minusOne' = EnclosingNeighbors(corner, kmax, cf["corner"]).left
          /\ plusOne' = Recip(EnclosingNeighbors(Recip(corner), hmax, cf["cornerRecip"]).right)
     ELSE UNCHANGED corners
  /\ pc' = "leftFrame"
  /\ UNCHANGED <<call, cf, frame, found>>
\* The terms on either side of the corner.
Corners ==
  /\ pc = "corners"
  /\ IF Supplied
     THEN /\ minusOne' = EnclosingNeighbors(corner, kmax, cf["corner"]).left
          /\ plusOne' = Recip(EnclosingNeighbors(Recip(corner), hmax, cf["cornerRecip"]).left)
     ELSE UNCHANGED corners
  /\ pc' = "leftFrame"
  /\ UNCHANGED <<call, cf, frame, found>>
-----------------------------------------------------------------------------
SetFrame(l, r, next) ==
  /\ left' = l /\ right' = r
  /\ pc' = next
  /\ UNCHANGED <<call, corners, cf, found>>

\* The neighbours of the number, and those of its reciprocal in F_HMAX.
Around == EnclosingNeighbors(norm, kmax, cf["rn"])
AroundRecip == EnclosingNeighbors(Recip(Abs(norm)), hmax, cf["recip"])
\* The series these are neighbours in has the number itself as a term.
RecipFormable == Magnitude(norm.num) <= hmax

NoLefts == AtLeftEnd(norm) \/ wanted.left = 0
NoRights == AtRightEnd(norm) \/ wanted.right = 0

SkipLeft == pc = "leftFrame" /\ NoLefts /\ SetFrame(left, right, "rightFrame")

\* The frame whose left end is the first left neighbour; its right end is the
\* number itself if that is a term.
LeftFrame ==
  /\ pc = "leftFrame" /\ ~NoLefts
  /\ \/ /\ Inner(norm)
        /\ SetFrame(Around.left, IF norm.den <= kmax THEN norm ELSE Around.right, "queueLeft")
     \/ /\ Below(norm)
        /\ SetFrame(Neg(Recip(AroundRecip.left)),
                    IF RecipFormable THEN norm ELSE Neg(Recip(AroundRecip.right)), "queueLeft")
     \/ /\ AtNegCorner(norm)
        /\ SetFrame(Neg(plusOne), Neg(corner), "queueLeft")
     \/ /\ AtCorner(norm)
        /\ SetFrame(minusOne, corner, "queueLeft")
     \/ /\ Above(norm)
        /\ SetFrame(Recip(AroundRecip.right),
                    IF RecipFormable THEN norm ELSE Recip(AroundRecip.left), "queueLeft")

\* Mutant: the walk ends at the corner.
QueueLeftToCorner ==
  /\ pc = "queueLeft"
  /\ lefts' = Append(lefts, left)
  /\ pc' = IF Len(lefts) + 1 >= wanted.left \/ AtNegCorner(left)
           THEN "rightFrame" ELSE "advanceLeft"
  /\ UNCHANGED <<call, corners, cf, frame, rights>>
QueueLeft ==
  /\ pc = "queueLeft"
  /\ lefts' = Append(lefts, left)
  /\ pc' = IF Len(lefts) + 1 >= wanted.left \/ AtLeftEnd(left)
           THEN "rightFrame" ELSE "advanceLeft"
  /\ UNCHANGED <<call, corners, cf, frame, rights>>

MoveLeft(l) == pc = "advanceLeft" /\ SetFrame(l, left, "queueLeft")

LeftAbove ==
  Above(left) /\ MoveLeft(Recip(FareySuccessor(Recip(right), Recip(left), hmax)))
LeftAtCorner ==
  AtCorner(left) /\ MoveLeft(minusOne)
LeftPositive ==
  Inner(left) /\ left.num > 0 /\ MoveLeft(FareyPredecessor(right, left, kmax))
LeftZero ==
  /\ pc = "advanceLeft" /\ Inner(left) /\ left.num = 0
  /\ SetFrame(Q(-1, kmax), Q(0, 1), "queueLeft")
LeftNegative ==
  Inner(left) /\ left.num < 0 /\ MoveLeft(Neg(FareySuccessor(Abs(right), Abs(left), kmax)))
LeftAtNegCorner ==
  AtNegCorner(left) /\ MoveLeft(Neg(plusOne))
LeftBelow ==
  Below(left) /\ MoveLeft(Neg(Recip(FareyPredecessor(Recip(Abs(right)), Recip(Abs(left)), hmax))))

\* Mutant: there is no rule for the negative corner.
NoMoveAtNegCorner ==
  LeftAbove \/ LeftAtCorner \/ LeftPositive \/ LeftZero \/ LeftNegative \/ LeftBelow
AdvanceLeft ==
  LeftAbove \/ LeftAtCorner \/ LeftPositive \/ LeftZero \/ LeftNegative
  \/ LeftAtNegCorner \/ LeftBelow
-----------------------------------------------------------------------------
SkipRight == pc = "rightFrame" /\ NoRights /\ SetFrame(left, right, "done")

RightFrame ==
  /\ pc = "rightFrame" /\ ~NoRights
  /\ \/ /\ Inner(norm)
        /\ SetFrame(IF norm.den <= kmax THEN norm ELSE Around.left, Around.right, "queueRight")
     \/ /\ Below(norm)
        /\ SetFrame(IF RecipFormable THEN norm ELSE Neg(Recip(AroundRecip.left)),
                    Neg(Recip(AroundRecip.right)), "queueRight")
     \/ /\ AtNegCorner(norm)
        /\ SetFrame(Neg(corner), Neg(minusOne), "queueRight")
     \/ /\ AtCorner(norm)
        /\ SetFrame(corner, plusOne, "queueRight")
     \/ /\ Above(norm)
        /\ SetFrame(IF RecipFormable THEN norm ELSE Recip(AroundRecip.right),
                    Recip(AroundRecip.left), "queueRight")

QueueRight ==
  /\ pc = "queueRight"
  /\ rights' = Append(rights, right)
  /\ pc' = IF Len(rights) + 1 >= wanted.right \/ AtRightEnd(right)
           THEN "done" ELSE "advanceRight"
  /\ UNCHANGED <<call, corners, cf, frame, lefts>>

MoveRight(r) == pc = "advanceRight" /\ SetFrame(right, r, "queueRight")

RightBelow ==
  Below(right) /\ MoveRight(Neg(Recip(FareySuccessor(Recip(Abs(left)), Recip(Abs(right)), hmax))))
RightAtNegCorner ==
  AtNegCorner(right) /\ MoveRight(Neg(minusOne))
RightNegative ==
  Inner(right) /\ right.num < 0 /\ MoveRight(Neg(FareyPredecessor(Abs(left), Abs(right), kmax)))
RightZero ==
  /\ pc = "advanceRight" /\ Inner(right) /\ right.num = 0
  /\ SetFrame(Q(0, 1), Q(1, kmax), "queueRight")
RightPositive ==
  Inner(right) /\ right.num > 0 /\ MoveRight(FareySuccessor(left, right, kmax))
RightAtCorner ==
  AtCorner(right) /\ MoveRight(plusOne)
RightAbove ==
  Above(right) /\ MoveRight(Recip(FareyPredecessor(Recip(left), Recip(right), hmax)))

AdvanceRight ==
  RightBelow \/ RightAtNegCorner \/ RightNegative \/ RightZero \/ RightPositive
  \/ RightAtCorner \/ RightAbove
-----------------------------------------------------------------------------
Call == \E x \in Number, k \in KMax, h \in HMax :
          Refuse(x, k, h) \/ \E l, r \in Wanted : Begin(x, k, h, l, r)

Work == Decompose \/ Corners \/ SkipLeft \/ LeftFrame \/ QueueLeft \/ AdvanceLeft
        \/ SkipRight \/ RightFrame \/ QueueRight \/ AdvanceRight

Next == Call \/ Work

Spec == Init /\ [][Next]_vars /\ WF_vars(Work)
-----------------------------------------------------------------------------
\* cfbrapab's choice (CMAIN_classic): the number itself if it is a term, or the
\* closer of its neighbours, the smaller one in magnitude if they are as close.
Distance(x, y) == Q(Magnitude(x.num * y.den - y.num * x.den), x.den * y.den)
\* Mutant: ties go to the right neighbour.
CloserNoTie(x, y) == Less(Distance(x, norm), Distance(y, norm))
Closer(x, y) ==
  \/ Less(Distance(x, norm), Distance(y, norm))
  \/ Same(Distance(x, norm), Distance(y, norm)) /\ Less(Abs(x), Abs(y))
Best(option) ==
  IF equality THEN norm
  ELSE IF option # "neversmaller" /\ (option = "neverlarger" \/ Closer(lefts[1], rights[1]))
       THEN lefts[1] ELSE rights[1]
-----------------------------------------------------------------------------
\* No term lies strictly between x and y: a fraction h/k between them has an h
\* within the bounds below.
NoneBetween(x, y) ==
  \A k \in 1 .. kmax : \A h \in (x.num * k) \div x.den .. (y.num * k) \div y.den :
    InSeries(Q(h, k)) => ~(Less(x, Q(h, k)) /\ Less(Q(h, k), y))

\* What has been queued to the left of the number are the terms next to it, one
\* after the other, in lowest terms and without a gap, through the corners of
\* the series and through zero; likewise to the right.
LeftsConsecutive ==
  \A i \in 1 .. Len(lefts) :
    LET nearer == IF i = 1 THEN norm ELSE lefts[i - 1]
    IN /\ InSeries(lefts[i]) /\ Irreducible(lefts[i])
       /\ Less(lefts[i], nearer) /\ NoneBetween(lefts[i], nearer)
RightsConsecutive ==
  \A i \in 1 .. Len(rights) :
    LET nearer == IF i = 1 THEN norm ELSE rights[i - 1]
    IN /\ InSeries(rights[i]) /\ Irreducible(rights[i])
       /\ Less(nearer, rights[i]) /\ NoneBetween(nearer, rights[i])
NeighborsConsecutive == LeftsConsecutive /\ RightsConsecutive

\* An accepted call ends with as many neighbours on each side as were asked for
\* (and no more), unless the series has no further term on that side.
Complete ==
  pc = "done" /\ error = "none" =>
    /\ Len(lefts) <= wanted.left /\ Len(rights) <= wanted.right
    /\ \A k \in 1 .. kmax, h \in -hmax .. hmax :
         /\ Len(lefts) < wanted.left =>
              Supplied /\ ~Less(Q(h, k), IF lefts = <<>> THEN norm ELSE lefts[Len(lefts)])
         /\ Len(rights) < wanted.right =>
              Supplied /\ ~Less(IF rights = <<>> THEN norm ELSE rights[Len(rights)], Q(h, k))

\* What cfbrapab prints is a term, and no term that the option allows is nearer
\* to the number, or as near and smaller in magnitude.
Candidate ==
  UNION {{Q(h, k) : h \in IF Supplied THEN -hmax .. hmax
                          ELSE {(norm.num * k) \div norm.den, (norm.num * k) \div norm.den + 1}} :
         k \in 1 .. kmax}
Allowed(option, x) ==
  /\ option = "neverlarger" => ~Less(norm, x)
  /\ option = "neversmaller" => ~Less(x, norm)
BestIsClosest ==
  pc = "done" /\ error = "none" /\ wanted.left > 0 /\ wanted.right > 0 =>
    \A option \in {"closest", "neverlarger", "neversmaller"} :
      LET best == Best(option)
      IN /\ InSeries(best) /\ Irreducible(best) /\ Allowed(option, best)
         /\ \A x \in Candidate :
              Allowed(option, x) =>
                \/ Less(Distance(best, norm), Distance(x, norm))
                \/ Same(Distance(best, norm), Distance(x, norm)) /\ ~Less(Abs(x), Abs(best))

\* Every call ends: the decompositions reach a remainder of zero or their limit,
\* and the walks the number of terms wanted or the end of the series.
CallEnds == (pc # "idle") ~> (pc \in {"done", "aborted"})
-----------------------------------------------------------------------------
\* The argument, as an inductive invariant.  Two fractions x < y are a Farey
\* pair of order N if their determinant is 1 and no third denominator up to N
\* fits between them.
FareyPair(x, y, N) ==
  /\ x.num >= 0 /\ y.num >= 0
  /\ x.den \in 1 .. N /\ y.den \in 1 .. N
  /\ y.num * x.den - x.num * y.den = 1
  /\ x.den + y.den > N

\* Neighbours in the inner part of the series and above its corner.
InnerPair(x, y) == FareyPair(x, y, kmax) /\ (Supplied => ~Less(corner, y))
OuterPair(x, y) == Supplied /\ y.den > 0 /\ FareyPair(Recip(y), Recip(x), hmax) /\ ~Less(x, corner)
Pair(x, y) ==
  \/ InnerPair(x, y) \/ InnerPair(Neg(y), Neg(x))
  \/ OuterPair(x, y) \/ OuterPair(Neg(y), Neg(x))

Rational == [num : Int, den : Int]
Rows == Seq([divisor : Nat, a : Nat, remainder : Nat, p : Nat, q : Nat])

TypeOK ==
  /\ pc \in Part \cup {"idle", "aborted", "corners", "leftFrame", "queueLeft", "advanceLeft",
                       "rightFrame", "queueRight", "advanceRight", "done"}
  /\ error \in {"none", "kmax", "hmax", "general"}
  /\ norm \in Rational /\ kmax \in Nat /\ hmax \in Nat
  /\ wanted \in [left : Nat, right : Nat]
  /\ equality \in BOOLEAN
  /\ corner \in Rational /\ minusOne \in Rational /\ plusOne \in Rational
  /\ cf \in [Part -> Rows]
  /\ left \in Rational /\ right \in Rational
  /\ lefts \in Seq(Rational) /\ rights \in Seq(Rational)

\* A call that was accepted.
Accepted == pc # "idle" /\ error = "none"
CallOK ==
  /\ error # "none" => pc = "done"
  /\ Accepted =>
       /\ kmax > 0
       /\ norm.den > 0 /\ Irreducible(norm)
       /\ Supplied => ~Less(Q(hmax, 1), Abs(norm))
       /\ Supplied => /\ corner.num \in 1 .. hmax /\ corner.den \in 1 .. kmax
                      /\ Same(corner, Q(hmax, kmax)) /\ Irreducible(corner)
       /\ equality <=> InSeries(norm)

\* The rows of a decomposition of x: each convergent and the one before it have
\* determinant 1, and give back x together with the row's divisor and remainder.
RowOK(x, rows, i) ==
  LET c == Convergent(rows, i)
      prev == Convergent(rows, i - 1)
      d == rows[i].divisor
      r == rows[i].remainder
  IN /\ d > 0 /\ r < d /\ c.den > 0 /\ prev.den >= 0
     /\ x.num = c.num * d + prev.num * r
     /\ x.den = c.den * d + prev.den * r
     /\ c.num * prev.den - c.den * prev.num = IF i % 2 = 1 THEN -1 ELSE 1
     /\ i > 1 =>
          /\ d = rows[i - 1].remainder /\ rows[i - 1].divisor >= rows[i].a * d + r
          /\ rows[i].a > 0
          /\ c.den = rows[i].a * prev.den + Convergent(rows, i - 2).den
RowsOK == Accepted => \A w \in Part : \A i \in 1 .. Len(cf[w]) : RowOK(Fraction(w), cf[w], i)

Decomposed(rows) == rows # <<>> /\ rows[Len(rows)].remainder = 0
StageOK ==
  Accepted =>
    /\ pc \in {"corner", "cornerRecip", "recip"} => Supplied
    /\ pc \in Part => /\ Len(cf[pc]) < MaxRows
                      /\ cf[pc] # <<>> => cf[pc][Len(cf[pc])].remainder > 0
    /\ Supplied /\ pc \notin {"aborted", "corner"} => Decomposed(cf["corner"])
    /\ Supplied /\ pc \notin {"aborted", "corner", "cornerRecip"} => Decomposed(cf["cornerRecip"])
    /\ pc \notin {"aborted", "corner", "cornerRecip", "rn"} => Decomposed(cf["rn"])
    /\ pc = "recip" => Above(Abs(norm))
    /\ pc \notin {"aborted", "corner", "cornerRecip", "rn", "recip"} /\ Above(Abs(norm)) =>
         Decomposed(cf["recip"])
Unstarted ==
  /\ pc = "idle" => \A w \in Part : cf[w] = <<>>
  /\ pc = "corner" => \A w \in Part \ {"corner"} : cf[w] = <<>>
  /\ pc = "cornerRecip" => cf["rn"] = <<>> /\ cf["recip"] = <<>>
  /\ pc = "rn" => cf["recip"] = <<>>

AfterCorners == {"leftFrame", "queueLeft", "advanceLeft", "rightFrame", "queueRight",
                 "advanceRight", "done"}
CornersOK ==
  Accepted /\ Supplied /\ pc \in AfterCorners =>
    /\ FareyPair(minusOne, corner, kmax)
    /\ FareyPair(Recip(plusOne), Recip(corner), hmax)

FrameOK ==
  Accepted =>
    /\ pc \in {"queueLeft", "advanceLeft", "queueRight", "advanceRight"} => Pair(left, right)
    /\ pc = "queueLeft" =>
         IF lefts = <<>> THEN Less(left, norm) /\ ~Less(right, norm)
         ELSE right = lefts[Len(lefts)]
    /\ pc = "advanceLeft" => lefts # <<>> /\ left = lefts[Len(lefts)] /\ ~AtLeftEnd(left)
    /\ pc = "queueRight" =>
         IF rights = <<>> THEN Less(norm, right) /\ ~Less(norm, left)
         ELSE left = rights[Len(rights)]
    /\ pc = "advanceRight" => rights # <<>> /\ right = rights[Len(rights)] /\ ~AtRightEnd(right)

QueuesOK ==
  /\ Accepted /\ pc \in {"rightFrame", "queueRight", "advanceRight", "done"} =>
       Len(lefts) = wanted.left \/ AtLeftEnd(IF lefts = <<>> THEN norm ELSE lefts[Len(lefts)])
  /\ Accepted /\ pc = "done" =>
       Len(rights) = wanted.right \/ AtRightEnd(IF rights = <<>> THEN norm ELSE rights[Len(rights)])
  /\ Len(lefts) <= wanted.left /\ Len(rights) <= wanted.right
  /\ pc \in {"queueLeft", "advanceLeft"} => Len(lefts) < wanted.left
  /\ pc \in {"queueRight", "advanceRight"} => Len(rights) < wanted.right
  /\ pc \notin AfterCorners \ {"leftFrame"} => lefts = <<>>
  /\ pc \notin {"queueRight", "advanceRight", "done"} => rights = <<>>

FabInv == TypeOK /\ CallOK /\ RowsOK /\ StageOK /\ Unstarted /\ CornersOK /\ FrameOK /\ QueuesOK
=============================================================================
