---------------------------- MODULE IrDots_proofs ----------------------------
(***************************************************************************)
(* Proofs about IrDots, for any views of the camera, any settings and any  *)
(* number of its dots.                                                     *)
(***************************************************************************)
EXTENDS IrDots, FiniteSetTheorems, WellFoundedInduction, TLAPS

\* Squares of distances: no two dots are 2000 apart.
Near == {n \in Nat : n < Square(2000)}

\* Where dots can be, after the correction of the roll, too.
Box == {x \in Int : -150 <= x /\ x <= 1150} \X {y \in Int : -250 <= y /\ y <= 1050}
Dot == [at : {Hidden} \cup Box, order : 0 .. Dots]
Screen == [aspect : {"4:3", "16:9"}, pos : {"ABOVE", "BELOW"}, offset : Int, vres : Nat \X Nat]

IrTypeInv ==
    /\ dot \in [Slots -> Dot]
    /\ tracking \in BOOLEAN
    /\ dist2 \in Near
    /\ middle \in Int \X Int
    /\ cursor \in Int \X Int
    /\ screen \in Screen
    /\ drawn \in Nat \X Nat
    /\ swapped \in BOOLEAN

\* No place is given twice, in the order of the dots d.
Apart(d) == \A i, j \in Slots : i # j /\ d[i].order # 0 => d[i].order # d[j].order

\* Every dot that is seen has a place.
Ordered(d) == \A i \in Seen(d) : d[i].order # 0

\* Two dots are seen.
Two(d) == \E i, j \in Seen(d) : i # j

\* Dots are tracked from when there are two until there is none.
TrackingFits ==
    /\ tracking => Seen(dot) # {}
    /\ Two(dot) => tracking

\* While two are seen, distance and middle are theirs.
MeasuresFit == Two(dot) => dist2 = Distance2(dot) /\ middle = Average(dot)

IInv ==
    /\ IrTypeInv
    /\ Apart(dot)
    /\ tracking /\ ~swapped => Ordered(dot)
    /\ TrackingFits
    /\ MeasuresFit
    /\ CursorIsOnScreen

-----------------------------------------------------------------------------
(* Arithmetic                                                              *)

LEMMA Least ==
  ASSUME NEW S, S \subseteq Nat, S # {}
  PROVE  \E m \in S : \A n \in S : m <= n
<1> DEFINE R == OpToRel(<, Nat)
<1>1. IsWellFoundedOn(R, Nat)
  BY NatLessThanWellFounded
<1>2. \A m, n \in Nat : <<n, m>> \notin R => m <= n
  BY DEF OpToRel
<1> HIDE DEF R
<1>3. PICK m \in S : \A n \in S : <<n, m>> \notin R
  BY <1>1, WFMin
<1> QED
  BY <1>2, <1>3

LEMMA SquareGrows ==
  ASSUME NEW a \in Nat, NEW b \in Nat
  PROVE  /\ Square(a) \in Nat
         /\ a < b => Square(a) < Square(b)
         /\ a <= b => Square(a) <= Square(b)
<1>1. a * a \in Nat /\ a * b \in Nat /\ b * b \in Nat
  OBVIOUS
<1>2. ASSUME a < b PROVE a * a < b * b
  <2>1. a * a <= a * b
    BY <1>2
  <2>2. a * b < b * b
    BY <1>2
  <2> QED
    BY <1>1, <2>1, <2>2
<1> QED
  BY <1>1, <1>2 DEF Square

LEMMA SquareOfInt ==
  ASSUME NEW a \in Int
  PROVE  /\ Square(a) \in Nat /\ Square(-a) = Square(a)
         /\ \A b \in Nat : -b <= a /\ a <= b => Square(a) <= Square(b)
<1>1. (-a) * (-a) = a * a
  OBVIOUS
<1>2. CASE a >= 0
  BY <1>1, <1>2, SquareGrows DEF Square
<1>3. CASE a < 0
  <2>1. -a \in Nat
    BY <1>3
  <2>2. Square(-a) = Square(a)
    BY <1>1 DEF Square
  <2>3. Square(-a) \in Nat /\ \A b \in Nat : -a <= b => Square(-a) <= Square(b)
    BY <2>1, SquareGrows
  <2> QED
    BY <2>2, <2>3
<1> QED
  BY <1>2, <1>3

LEMMA HundredsFacts ==
  ASSUME NEW n \in Near
  PROVE  /\ Hundreds(n) \in 0 .. 19
         /\ Square(100 * Hundreds(n)) <= n /\ n < Square(100 * Hundreds(n) + 100)
<1> DEFINE S == {h \in 1 .. 20 : n < Square(100 * h)}
<1>1. 20 \in S /\ S \subseteq Nat
  BY DEF Near, Square
<1> n \in Nat
  BY DEF Near
<1>2. PICK m \in S : \A h \in S : m <= h
  <2> HIDE DEF S
  <2> QED
    BY <1>1, Least
<1>3. m \in 1 .. 20 /\ n < Square(100 * m)
  BY <1>2
<1>4. m - 1 \in 0 .. 19 /\ 100 * (m - 1) + 100 = 100 * m
  BY <1>3
<1>5. Square(100 * (m - 1)) <= n
  <2>1. CASE m = 1
    BY <2>1 DEF Square
  <2>2. CASE m # 1
    <3>1. m - 1 \in 1 .. 20 /\ ~(m <= m - 1)
      BY <1>3, <2>2
    <3>4. m - 1 \notin S
      BY <1>2, <3>1
    <3>2. Square(100 * (m - 1)) \in Nat
      BY <1>4, SquareGrows
    <3>3. 100 * (m - 1) \in Nat
      BY <3>1
    <3> QED
      BY <3>1, <3>4, <3>2
  <2> QED
    BY <2>1, <2>2
<1> QED
  BY <1>3, <1>4, <1>5 DEF Hundreds

\* RootDown is the root, rounded down.
LEMMA RootFacts ==
  ASSUME NEW n \in Near
  PROVE  /\ RootDown(n) \in Nat
         /\ Square(RootDown(n)) <= n /\ n < Square(RootDown(n) + 1)
<1> DEFINE c == 100 * Hundreds(n)
           S == {r \in c + 1 .. c + 100 : n < Square(r)}
<1>1. c \in Nat /\ Square(c) <= n /\ n < Square(c + 100) /\ n \in Nat
  BY HundredsFacts DEF Near
<1> HIDE DEF c
<1>2. c + 100 \in S /\ S \subseteq Nat
  BY <1>1
<1>3. PICK m \in S : \A r \in S : m <= r
  BY <1>2, Least
<1>4. m \in c + 1 .. c + 100 /\ n < Square(m)
  BY <1>3
<1>5. m - 1 \in c .. c + 99 /\ (m - 1) + 1 = m /\ m - 1 \in Nat
  BY <1>1, <1>4
<1>6. Square(m - 1) <= n
  <2>1. CASE m - 1 = c
    BY <1>1, <2>1
  <2>2. CASE m - 1 # c
    <3>1. m - 1 \in c + 1 .. c + 100
      BY <1>1, <1>5, <2>2
    <3>2. m - 1 \notin S
      BY <1>3, <1>4, <1>5
    <3>3. Square(m - 1) \in Nat /\ n \in Nat
      BY <1>1, <1>5, SquareGrows
    <3>4. ~(n < Square(m - 1))
      BY <3>1, <3>2
    <3> QED
      BY <3>3, <3>4
  <2> QED
    BY <2>1, <2>2
<1>7. RootDown(n) = CHOOSE r \in c .. c + 99 : Square(r) <= n /\ n < Square(r + 1)
  BY DEF RootDown, c
<1>8. /\ RootDown(n) \in c .. c + 99
      /\ Square(RootDown(n)) <= n /\ n < Square(RootDown(n) + 1)
  BY <1>4, <1>5, <1>6, <1>7
<1> QED
  BY <1>1, <1>8

LEMMA RootOfSquare ==
  ASSUME NEW m \in Nat, Square(m) \in Near
  PROVE  RootDown(Square(m)) = m /\ RootUp(Square(m)) = m
<1> DEFINE r == RootDown(Square(m))
<1>1. r \in Nat /\ Square(r) <= Square(m) /\ Square(m) < Square(r + 1)
  BY RootFacts
<1> HIDE DEF r
<1>2. Square(m) \in Nat /\ Square(r) \in Nat /\ Square(r + 1) \in Nat
  BY <1>1, SquareGrows
<1>3. ~(m < r)
  BY <1>1, <1>2, SquareGrows
<1>4. ~(r + 1 <= m)
  <2>1. r + 1 \in Nat
    BY <1>1
  <2>2. r + 1 <= m => Square(r + 1) <= Square(m)
    BY <2>1, SquareGrows
  <2> QED
    BY <1>1, <1>2, <2>2
<1>5. r = m
  BY <1>1, <1>3, <1>4
<1> QED
  BY <1>5 DEF RootUp, r

LEMMA QuotientFacts ==
  ASSUME NEW a \in Int, NEW b \in Nat \ {0}
  PROVE  /\ Quotient(a, b) \in Int
         /\ a >= 0 => Quotient(a, b) >= 0
BY DEF Quotient

LEMMA TenThousandth ==
  ASSUME NEW a \in Int, -(634 * 10000) <= a, a <= 634 * 10000
  PROVE  Quotient(a, 10000) \in Int /\ -634 <= Quotient(a, 10000) /\ Quotient(a, 10000) <= 634
BY SMT DEF Quotient

LEMMA HalfOfTwice ==
  ASSUME NEW a \in Int
  PROVE  Quotient(a + a, 2) = a
BY DEF Quotient

-----------------------------------------------------------------------------
(* The image                                                               *)

LEMMA SlotsFew == Slots \subseteq 1 .. 4 /\ Slots \subseteq Nat /\ Dots \in Nat
BY IrAssumption DEF Slots

LEMMA Directions ==
  /\ Cos(45) = 7071 /\ Sin(45) = 7071
  /\ Cos(90) = 0 /\ Sin(90) = 10000
  /\ Cos(180) = -10000 /\ Sin(180) = 0
BY DEF Cos, Sin

LEMMA PairInBox ==
  ASSUME NEW x \in Int, -150 <= x, x <= 1150, NEW y \in Int, -250 <= y, y <= 1050
  PROVE  <<x, y>> \in Box
<1> DEFINE X == {n \in Int : -150 <= n /\ n <= 1150}
           Y == {n \in Int : -250 <= n /\ n <= 1050}
<1>1. x \in X /\ y \in Y
  OBVIOUS
<1>2. Box = X \X Y
  BY DEF Box
<1> HIDE DEF X, Y
<1> QED
  BY <1>1, <1>2

LEMMA UprightInBox ==
  ASSUME NEW p \in (0 .. 1023) \X (0 .. 767), NEW roll \in {0, 45, 90, 180}, NEW wraps \in BOOLEAN
  PROVE  Upright(p, roll, wraps) \in Box
<1> DEFINE x == p[1] - 512
           y == p[2] - 384
           a == Sin(roll)
           c == Cos(roll)
           v == Quotient(c * x - a * y, 10000)
           w == Quotient(a * x + c * y, 10000)
<1>1. x \in -512 .. 511 /\ y \in -384 .. 383
  OBVIOUS
<1>2. CASE roll = 0
  <2>1. Upright(p, roll, wraps) = p
    BY <1>2 DEF Upright
  <2>2. p[1] \in 0 .. 1023 /\ p[2] \in 0 .. 767 /\ p = <<p[1], p[2]>>
    OBVIOUS
  <2>3. <<p[1], p[2]>> \in Box
    <3> DEFINE t == p[1]
               u == p[2]
    <3>a. t \in 0 .. 1023 /\ u \in 0 .. 767
      BY <2>2
    <3> HIDE DEF t, u
    <3>1. /\ t \in Int /\ -150 <= t /\ t <= 1150
          /\ u \in Int /\ -250 <= u /\ u <= 1050
      BY <3>a, SMT
    <3>2. <<t, u>> \in Box
      BY <3>1, PairInBox
    <3> QED
      BY <3>2 DEF t, u
  <2> QED
    BY <2>1, <2>2, <2>3
<1>3. CASE roll # 0
  <2>1. Upright(p, roll, wraps) = <<Unsigned(v, wraps) + 512, Unsigned(w, wraps) + 384>>
    BY <1>3 DEF Upright
  <2> HIDE DEF x, y
  <2>2. /\ c * x - a * y \in Int /\ a * x + c * y \in Int
        /\ -(634 * 10000) <= c * x - a * y /\ c * x - a * y <= 634 * 10000
        /\ -(634 * 10000) <= a * x + c * y /\ a * x + c * y <= 634 * 10000
    <3>1. (c = 7071 /\ a = 7071) \/ (c = 0 /\ a = 10000) \/ (c = -10000 /\ a = 0)
      BY <1>3, Directions
    <3> HIDE DEF a, c
    <3>2. CASE c = 7071 /\ a = 7071
      BY <1>1, <3>2, SMT
    <3>3. CASE c = 0 /\ a = 10000
      BY <1>1, <3>3, SMT
    <3>4. CASE c = -10000 /\ a = 0
      BY <1>1, <3>4, SMT
    <3> QED
      BY <3>1, <3>2, <3>3, <3>4
  <2>3. /\ v \in Int /\ -634 <= v /\ v <= 634
        /\ w \in Int /\ -634 <= w /\ w <= 634
    BY <2>2, TenThousandth
  <2> HIDE DEF v, w
  <2> DEFINE t == Unsigned(v, wraps) + 512
             u == Unsigned(w, wraps) + 384
  <2>4. /\ t \in Int /\ -150 <= t /\ t <= 1150
        /\ u \in Int /\ -250 <= u /\ u <= 1050
    BY <2>3, SMT DEF Unsigned
  <2> HIDE DEF t, u
  <2>5. <<t, u>> \in Box
    BY <2>4, PairInBox
  <2> QED
    BY <2>1, <2>5 DEF t, u
<1> QED
  BY <1>2, <1>3

LEMMA PlacedFacts ==
  ASSUME dot \in [Slots -> Dot], NEW image \in Images, NEW d, d = Placed(image)
  PROVE  /\ d \in [Slots -> Dot]
         /\ \A i \in Slots : d[i].order = dot[i].order
<1>1. PICK view \in Views, wraps \in BOOLEAN :
         image = [i \in Slots |-> IF view.at[i] = Hidden THEN Hidden
                                  ELSE Upright(view.at[i], view.roll, wraps)]
  BY DEF Images
<1>2. /\ \A i \in Slots : view.at[i] \in {Hidden} \cup (0 .. 1023) \X (0 .. 767)
      /\ view.roll \in {0, 45, 90, 180}
  BY IrAssumption DEF Slots, Hidden
<1>3. ASSUME NEW i \in Slots PROVE image[i] \in {Hidden} \cup Box
  BY <1>1, <1>2, UprightInBox
<1>4. ASSUME NEW i \in Slots
      PROVE  [at |-> image[i], order |-> dot[i].order] \in Dot
  <2>1. dot[i].order \in 0 .. Dots
    BY DEF Dot
  <2> QED
    BY <1>3, <2>1 DEF Dot
<1> QED
  BY <1>4 DEF Placed

-----------------------------------------------------------------------------
(* Dots that are seen, and their order                                     *)

LEMMA SeenFacts ==
  ASSUME NEW d \in [Slots -> Dot]
  PROVE  /\ Seen(d) \subseteq Slots /\ IsFiniteSet(Seen(d))
         /\ Cardinality(Seen(d)) \in 0 .. Dots
         /\ \A i \in Seen(d) : /\ d[i].at \in Box
                               /\ d[i].at[1] \in Int /\ d[i].at[2] \in Int
<1>1. IsFiniteSet(Slots) /\ Cardinality(Slots) = Dots
  BY SlotsFew, FS_Interval DEF Slots
<1>2. Seen(d) \subseteq Slots
  BY DEF Seen
<1>3. /\ IsFiniteSet(Seen(d)) /\ Cardinality(Seen(d)) <= Dots
      /\ Cardinality(Seen(d)) \in Nat
  BY <1>1, <1>2, FS_Subset, FS_CardinalityType
<1>4. \A i \in Seen(d) : d[i].at \in Box
  BY <1>2 DEF Dot, Seen
<1>5. ASSUME NEW p \in Box PROVE p[1] \in Int /\ p[2] \in Int
  <2> DEFINE X == {x \in Int : -150 <= x /\ x <= 1150}
             Y == {y \in Int : -250 <= y /\ y <= 1050}
  <2>1. p \in X \X Y
    BY DEF Box
  <2>2. X \subseteq Int /\ Y \subseteq Int
    OBVIOUS
  <2> HIDE DEF X, Y
  <2> QED
    BY <2>1, <2>2
<1> QED
  BY <1>2, <1>3, <1>4, <1>5, SlotsFew

\* Less is a strict total order.
LEMMA LessFacts ==
  ASSUME NEW a \in Int, NEW b \in Int, NEW c \in Int
  PROVE  /\ ~Less(a, a)
         /\ Less(a, b) /\ Less(b, c) => Less(a, c)
         /\ a # b => Less(a, b) \/ Less(b, a)
<1>1. \A m, n \in Int : Less(m, n) <=> \/ 0 <= m /\ n < 0
                                       \/ 0 <= m /\ m < n
                                       \/ m < n /\ n < 0
  <2> TAKE m, n \in Int
  <2>1. CASE m < 0 /\ n < 0
    BY <2>1 DEF Less
  <2>2. CASE m < 0 /\ ~(n < 0)
    BY <2>2 DEF Less
  <2>3. CASE ~(m < 0) /\ n < 0
    BY <2>3 DEF Less
  <2>4. CASE ~(m < 0) /\ ~(n < 0)
    BY <2>4 DEF Less
  <2> QED
    BY <2>1, <2>2, <2>3, <2>4
<1>2. ~Less(a, a)
  BY <1>1
<1>3. Less(a, b) /\ Less(b, c) => Less(a, c)
  BY <1>1
<1>4. a # b => Less(a, b) \/ Less(b, a)
  BY <1>1
<1> QED
  BY <1>2, <1>3, <1>4

\* So is IsBefore, on the dots that are seen.
LEMMA BeforeFacts ==
  ASSUME NEW d \in [Slots -> Dot],
         NEW i \in Seen(d), NEW j \in Seen(d), NEW k \in Seen(d)
  PROVE  /\ ~IsBefore(d, i, i)
         /\ IsBefore(d, i, j) /\ IsBefore(d, j, k) => IsBefore(d, i, k)
         /\ i # j => IsBefore(d, i, j) \/ IsBefore(d, j, i)
<1> DEFINE X(n) == d[n].at[1]
<1>1. X(i) \in Int /\ X(j) \in Int /\ X(k) \in Int
  BY SeenFacts
<1>2. i \in Int /\ j \in Int /\ k \in Int
  <2>1. i \in Slots /\ j \in Slots /\ k \in Slots
    BY SeenFacts
  <2> QED
    BY <2>1, SlotsFew
<1>3. \A m, n : IsBefore(d, m, n) <=> Less(X(m), X(n)) \/ (X(m) = X(n) /\ m < n)
  BY DEF IsBefore
<1> HIDE DEF X
<1>4. /\ ~Less(X(i), X(i))
      /\ Less(X(i), X(j)) /\ Less(X(j), X(k)) => Less(X(i), X(k))
      /\ X(i) # X(j) => Less(X(i), X(j)) \/ Less(X(j), X(i))
  BY <1>1, LessFacts
<1>5. ~IsBefore(d, i, i)
  BY <1>2, <1>3, <1>4
<1>6. IsBefore(d, i, j) /\ IsBefore(d, j, k) => IsBefore(d, i, k)
  <2>1. i < j /\ j < k => i < k
    BY <1>2
  <2> QED
    BY <1>3, <1>4, <2>1
<1>7. i # j => IsBefore(d, i, j) \/ IsBefore(d, j, i)
  <2>1. i # j => i < j \/ j < i
    BY <1>2
  <2> QED
    BY <1>3, <1>4, <2>1
<1> QED
  BY <1>5, <1>6, <1>7

\* reorder_ir_dots() gives every dot that is seen a place of its own.
LEMMA ReorderedFacts ==
  ASSUME NEW d \in [Slots -> Dot], NEW e, e = Reordered(d)
  PROVE  /\ e \in [Slots -> Dot]
         /\ \A i \in Slots : e[i].at = d[i].at
         /\ Apart(e) /\ Ordered(e)
<1> DEFINE S == Seen(d)
           Ahead(i) == {j \in S : IsBefore(d, j, i)}
<1>1. IsFiniteSet(S) /\ Cardinality(S) \in 0 .. Dots /\ S \subseteq Slots
  BY SeenFacts
<1>2. ASSUME NEW i \in S
      PROVE  /\ Cardinality(Ahead(i)) \in Nat /\ Cardinality(Ahead(i)) + 1 <= Dots
             /\ IsFiniteSet(Ahead(i))
  <2>1. i \notin Ahead(i)
    BY BeforeFacts
  <2> DEFINE A == Ahead(i)
  <2>2. A \subseteq S
    OBVIOUS
  <2> HIDE DEF A, S
  <2>3. IsFiniteSet(A) /\ Cardinality(A) \in Nat /\ Cardinality(A) <= Cardinality(S)
    BY <1>1, <2>2, FS_Subset, FS_CardinalityType
  <2>4. Cardinality(A) # Cardinality(S)
    <3>1. A # S
      BY <2>1 DEF A
    <3> QED
      BY <1>1, <2>2, <3>1, FS_Subset
  <2> QED
    BY <1>1, <2>3, <2>4, SlotsFew DEF A
<1>3. ASSUME NEW i \in S, NEW j \in S, IsBefore(d, i, j)
      PROVE  Cardinality(Ahead(i)) # Cardinality(Ahead(j))
  <2>1. Ahead(i) \subseteq Ahead(j)
    BY <1>3, BeforeFacts
  <2>2. i \in Ahead(j) /\ i \notin Ahead(i)
    BY <1>3, BeforeFacts
  <2>3. IsFiniteSet(Ahead(j))
    BY <1>2
  <2> HIDE DEF Ahead
  <2> QED
    BY <2>1, <2>2, <2>3, FS_Subset
<1> DEFINE N(i) == Cardinality(Ahead(i))
<1>a. /\ e = [i \in Slots |-> [d[i] EXCEPT !.order = IF d[i].at = Hidden THEN 0 ELSE 1 + N(i)]]
      /\ \A i \in Slots : i \in S <=> d[i].at # Hidden
  BY DEF Reordered, Seen
<1>b. \A i \in S : N(i) \in Nat /\ N(i) + 1 <= Dots
  BY <1>2
<1>c. \A i, j \in S : IsBefore(d, i, j) => N(i) # N(j)
  BY <1>3
<1> HIDE DEF N
<1>4. ASSUME NEW i \in Slots
      PROVE  /\ e[i].at = d[i].at
             /\ i \in S => e[i].order = 1 + N(i)
             /\ i \notin S => e[i].order = 0
             /\ e[i] = [at |-> e[i].at, order |-> e[i].order]
  <2>1. d[i] = [at |-> d[i].at, order |-> d[i].order]
    BY DEF Dot
  <2>2. e[i] = [at |-> d[i].at, order |-> IF d[i].at = Hidden THEN 0 ELSE 1 + N(i)]
    BY <1>a, <2>1
  <2> QED
    BY <1>a, <2>2
<1>5. \A i \in Slots : e[i].at = d[i].at
  BY <1>4
<1>6. Seen(e) = S
  BY <1>5 DEF Seen
<1>7. e \in [Slots -> Dot]
  <2>1. ASSUME NEW i \in Slots PROVE e[i] \in Dot
    <3> DEFINE o == e[i].order
               a == e[i].at
    <3>1. o \in 0 .. Dots
      <4>1. (o = 0) \/ (o = 1 + N(i) /\ i \in S)
        BY <1>4
      <4>2. i \in S => N(i) \in Nat /\ N(i) + 1 <= Dots
        BY <1>b
      <4> HIDE DEF o, S
      <4> QED
        BY <4>1, <4>2, SlotsFew
    <3>2. a \in {Hidden} \cup Box
      BY <1>4 DEF Dot
    <3>3. e[i] = [at |-> a, order |-> o]
      BY <1>4
    <3> HIDE DEF o, a
    <3> QED
      BY <3>1, <3>2, <3>3 DEF Dot
  <2>2. e = [i \in Slots |-> e[i]]
    BY <1>a
  <2> QED
    BY <2>1, <2>2
<1>8. Ordered(e)
  <2>1. ASSUME NEW i \in S PROVE e[i].order # 0
    <3>1. e[i].order = 1 + N(i)
      BY <1>1, <1>4
    <3>2. N(i) \in Nat
      BY <1>b
    <3> QED
      BY <3>1, <3>2
  <2> QED
    BY <1>6, <2>1 DEF Ordered
<1>9. Apart(e)
  <2>1. ASSUME NEW i \in Slots, NEW j \in Slots, i # j, e[i].order # 0
        PROVE  e[i].order # e[j].order
    <3>1. i \in S /\ e[i].order = 1 + N(i)
      BY <1>4, <2>1
    <3>2. CASE j \notin S
      BY <1>4, <2>1, <3>2
    <3>3. CASE j \in S
      <4>1. e[j].order = 1 + N(j)
        BY <1>4, <3>3
      <4>2. N(i) # N(j)
        BY <1>c, <2>1, <3>1, <3>3, BeforeFacts
      <4>3. N(i) \in Nat /\ N(j) \in Nat
        BY <1>b, <3>1, <3>3
      <4> QED
        BY <3>1, <4>1, <4>2, <4>3
    <3> QED
      BY <3>2, <3>3
  <2> QED
    BY <2>1 DEF Apart
<1> QED
  BY <1>5, <1>7, <1>8, <1>9

-----------------------------------------------------------------------------
(* Distance and middle                                                     *)

LEMMA TwoFacts ==
  ASSUME NEW d \in [Slots -> Dot]
  PROVE  Two(d) <=> Cardinality(Seen(d)) >= 2
<1> DEFINE S == Seen(d)
<1>1. IsFiniteSet(S) /\ Cardinality(S) \in Nat
  BY SeenFacts, FS_CardinalityType
<1>2. Two(d) <=> \E i, j \in S : i # j
  BY DEF Two
<1> HIDE DEF S
<1>3. ASSUME NEW i \in S, NEW j \in S, i # j PROVE Cardinality(S) >= 2
  <2>1. Cardinality(S) # 0
    BY <1>1, FS_EmptySet
  <2>2. Cardinality(S) # 1
    BY <1>1, <1>3, FS_Singleton
  <2> QED
    BY <1>1, <2>1, <2>2
<1>4. ASSUME Cardinality(S) >= 2 PROVE \E i, j \in S : i # j
  <2>1. S # {}
    BY <1>4, FS_EmptySet
  <2>2. PICK i \in S : TRUE
    BY <2>1
  <2>3. S # {i}
    BY <1>4, FS_Singleton
  <2> QED
    BY <2>2, <2>3
<1> QED
  BY <1>2, <1>3, <1>4 DEF S

First(d)  == CHOOSE i \in Seen(d) : \A j \in Seen(d) : i <= j
Second(d) == CHOOSE i \in Seen(d) \ {First(d)} : \A j \in Seen(d) \ {First(d)} : i <= j

LEMMA FirstTwo ==
  ASSUME NEW d \in [Slots -> Dot], Two(d)
  PROVE  /\ First(d) \in Seen(d) /\ \A j \in Seen(d) : First(d) <= j
         /\ Second(d) \in Seen(d) \ {First(d)}
         /\ \A j \in Seen(d) \ {First(d)} : Second(d) <= j
         /\ Distance2(d) = Square(d[Second(d)].at[1] - d[First(d)].at[1])
                           + Square(d[Second(d)].at[2] - d[First(d)].at[2])
<1>1. Seen(d) \subseteq Nat /\ Seen(d) # {}
  BY SeenFacts, SlotsFew DEF Two
<1>2. First(d) \in Seen(d) /\ \A j \in Seen(d) : First(d) <= j
  BY <1>1, Least DEF First
<1> DEFINE R == Seen(d) \ {First(d)}
<1>3. R \subseteq Nat /\ R # {}
  BY <1>1 DEF Two
<1>4. Second(d) = CHOOSE i \in R : \A j \in R : i <= j
  BY DEF Second
<1>5. Second(d) \in R /\ \A j \in R : Second(d) <= j
  <2> HIDE DEF R
  <2> QED
    BY <1>3, <1>4, Least
<1>6. Distance2(d) = Square(d[Second(d)].at[1] - d[First(d)].at[1])
                     + Square(d[Second(d)].at[2] - d[First(d)].at[2])
  BY DEF Distance2, First, Second
<1> QED
  BY <1>2, <1>5, <1>6

LEMMA DistanceNear ==
  ASSUME NEW d \in [Slots -> Dot], Two(d)
  PROVE  Distance2(d) \in Near
<1> DEFINE p == d[First(d)].at
           q == d[Second(d)].at
           x == q[1] - p[1]
           y == q[2] - p[2]
<1>1. p \in Box /\ q \in Box
  BY FirstTwo, SeenFacts
<1>2. Distance2(d) = Square(x) + Square(y)
  BY FirstTwo
<1> HIDE DEF p, q
<1>3. ASSUME NEW r \in Box
      PROVE  /\ r[1] \in Int /\ -150 <= r[1] /\ r[1] <= 1150
             /\ r[2] \in Int /\ -250 <= r[2] /\ r[2] <= 1050
  BY DEF Box
<1>4. /\ x \in Int /\ -1300 <= x /\ x <= 1300
      /\ y \in Int /\ -1300 <= y /\ y <= 1300
  <2>1. /\ p[1] \in Int /\ -150 <= p[1] /\ p[1] <= 1150
        /\ p[2] \in Int /\ -250 <= p[2] /\ p[2] <= 1050
        /\ q[1] \in Int /\ -150 <= q[1] /\ q[1] <= 1150
        /\ q[2] \in Int /\ -250 <= q[2] /\ q[2] <= 1050
    BY <1>1, <1>3
  <2> QED
    BY <2>1, SMT
<1> HIDE DEF x, y
<1>5. /\ Square(x) \in Nat /\ Square(x) <= Square(1300)
      /\ Square(y) \in Nat /\ Square(y) <= Square(1300)
  BY <1>4, SquareOfInt
<1>6. Square(1300) + Square(1300) < Square(2000) /\ Square(1300) \in Nat /\ Square(2000) \in Nat
  BY SMT DEF Square
<1> QED
  BY <1>2, <1>5, <1>6 DEF Near

LEMMA AverageType ==
  ASSUME NEW d \in [Slots -> Dot], Two(d)
  PROVE  Average(d) \in Int \X Int
<1> DEFINE n == Cardinality(Seen(d))
           Part(i, k) == IF i \in Seen(d) THEN d[i].at[k] ELSE 0
           Sum(k) == Part(1, k) + Part(2, k) + Part(3, k) + Part(4, k)
<1>1. n \in Nat \ {0}
  BY TwoFacts, SeenFacts, SlotsFew
<1>2. \A i : Part(i, 1) \in Int /\ Part(i, 2) \in Int
  BY SeenFacts
<1>3. Average(d) = <<Quotient(Sum(1), n), Quotient(Sum(2), n)>>
  BY DEF Average
<1> HIDE DEF n, Part
<1>4. Sum(1) \in Int /\ Sum(2) \in Int
  BY <1>2
<1> HIDE DEF Sum
<1>5. Quotient(Sum(1), n) \in Int /\ Quotient(Sum(2), n) \in Int
  BY <1>1, <1>4, QuotientFacts
<1> QED
  BY <1>3, <1>5

\* The order of the dots does not matter to either.
LEMMA SameAt ==
  ASSUME NEW d \in [Slots -> Dot], NEW e \in [Slots -> Dot],
         \A i \in Slots : e[i].at = d[i].at
  PROVE  /\ Seen(e) = Seen(d)
         /\ Two(e) <=> Two(d)
         /\ Average(e) = Average(d)
         /\ Two(d) => Distance2(e) = Distance2(d)
<1>1. Seen(e) = Seen(d)
  BY DEF Seen
<1>2. Two(e) <=> Two(d)
  BY <1>1 DEF Two
<1>3. Average(e) = Average(d)
  <2>1. \A i \in Seen(d) : e[i].at = d[i].at
    BY SeenFacts
  <2> QED
    BY <1>1, <2>1 DEF Average
<1>4. ASSUME Two(d) PROVE Distance2(e) = Distance2(d)
  <2>1. First(e) = First(d) /\ Second(e) = Second(d)
    BY <1>1 DEF First, Second
  <2>2. First(d) \in Slots /\ Second(d) \in Slots
    BY <1>4, FirstTwo, SeenFacts
  <2>3. e[First(d)].at = d[First(d)].at /\ e[Second(d)].at = d[Second(d)].at
    BY <2>2
  <2> QED
    BY <1>2, <1>4, <2>1, <2>3, FirstTwo
<1> QED
  BY <1>1, <1>2, <1>3, <1>4

\* What they are of exactly two dots.
LEMMA MeasuresOfTwo ==
  ASSUME NEW d \in [Slots -> Dot], NEW i, NEW j, i # j, Seen(d) = {i, j}
  PROVE  /\ Two(d)
         /\ Distance2(d) = Square(d[i].at[1] - d[j].at[1]) + Square(d[i].at[2] - d[j].at[2])
         /\ Average(d) = <<Quotient(d[i].at[1] + d[j].at[1], 2),
                           Quotient(d[i].at[2] + d[j].at[2], 2)>>
<1>1. Two(d)
  BY DEF Two
<1>2. /\ i \in 1 .. 4 /\ j \in 1 .. 4
      /\ d[i].at[1] \in Int /\ d[i].at[2] \in Int
      /\ d[j].at[1] \in Int /\ d[j].at[2] \in Int
  BY SeenFacts, SlotsFew
<1>3. Distance2(d) = Square(d[i].at[1] - d[j].at[1]) + Square(d[i].at[2] - d[j].at[2])
  <2>1. \/ First(d) = i /\ Second(d) = j
        \/ First(d) = j /\ Second(d) = i
    BY <1>1, FirstTwo
  <2>2. \A a, b \in Int : Square(a - b) = Square(b - a)
    <3> TAKE a, b \in Int
    <3>1. b - a = -(a - b) /\ a - b \in Int
      OBVIOUS
    <3> QED
      BY <3>1, SquareOfInt
  <2> QED
    BY <1>1, <1>2, <2>1, <2>2, FirstTwo
<1>4. Average(d) = <<Quotient(d[i].at[1] + d[j].at[1], 2),
                     Quotient(d[i].at[2] + d[j].at[2], 2)>>
  <2> DEFINE Part(n, k) == IF n \in Seen(d) THEN d[n].at[k] ELSE 0
             Sum(k) == Part(1, k) + Part(2, k) + Part(3, k) + Part(4, k)
  <2>1. Cardinality(Seen(d)) = 2
    <3>1. IsFiniteSet({i}) /\ Cardinality({i}) = 1 /\ {i, j} = {i} \cup {j}
      BY FS_Singleton
    <3>2. Cardinality({i} \cup {j}) = 2
      BY <3>1, FS_AddElement
    <3> QED
      BY <3>1, <3>2
  <2>2. ASSUME NEW k \in {1, 2} PROVE Sum(k) = d[i].at[k] + d[j].at[k]
    <3> DEFINE a == d[i].at[k]
               b == d[j].at[k]
    <3>1. \A n : Part(n, k) = IF n = i THEN a ELSE IF n = j THEN b ELSE 0
      OBVIOUS
    <3>2. a \in Int /\ b \in Int
      BY <1>2
    <3> HIDE DEF a, b, Part
    <3>3. Sum(k) = a + b
      BY <1>2, <3>1, <3>2
    <3> QED
      BY <3>3 DEF a, b
  <2>3. Average(d) = <<Quotient(Sum(1), 2), Quotient(Sum(2), 2)>>
    BY <2>1 DEF Average
  <2> HIDE DEF Sum
  <2> QED
    BY <2>2, <2>3
<1> QED
  BY <1>1, <1>3, <1>4

-----------------------------------------------------------------------------
(* The cursor                                                              *)

LEMMA ScreenFacts ==
  ASSUME IrTypeInv
  PROVE  /\ Width(screen.aspect) \in {660, 560} /\ Height(screen.aspect) \in {370, 420}
         /\ screen.vres \in Nat \X Nat /\ screen.vres[1] \in Nat /\ screen.vres[2] \in Nat
         /\ screen.offset \in Int
<1>1. screen \in Screen
  BY DEF IrTypeInv
<1>2. screen.vres \in Nat \X Nat /\ screen.offset \in Int
  BY <1>1 DEF Screen
<1> QED
  BY <1>2 DEF Width, Height

\* A part of w, of which there are v.
LEMMA ScaleFacts ==
  ASSUME NEW w \in {660, 560, 370, 420}, NEW a \in Int, 0 <= a, a <= w, NEW v \in Nat
  PROVE  0 <= Quotient(a * v, w) /\ Quotient(a * v, w) <= v
<1> DEFINE z == a * v
<1>1. z \in Int /\ 0 <= z /\ z <= w * v
  <2>1. w * v - a * v = (w - a) * v /\ (w - a) \in Nat
    OBVIOUS
  <2>2. (w - a) * v \in Nat /\ a * v \in Nat
    BY <2>1
  <2> QED
    BY <2>1, <2>2
<1> HIDE DEF z
<1>2. Quotient(z, w) = z \div w
  BY <1>1 DEF Quotient
<1>3. 0 <= z \div w /\ z \div w <= v
  <2>1. CASE w = 660
    BY <1>1, <2>1
  <2>2. CASE w = 560
    BY <1>1, <2>2
  <2>3. CASE w = 370
    BY <1>1, <2>3
  <2>4. CASE w = 420
    BY <1>1, <2>4
  <2> QED
    BY <2>1, <2>2, <2>3, <2>4
<1> QED
  BY <1>2, <1>3 DEF z

LEMMA OnScreenType ==
  ASSUME IrTypeInv, NEW p, p[1] \in Int, p[2] \in Int
  PROVE  OnScreen(p) \in Int \X Int
<1> DEFINE w == Width(screen.aspect)
           h == Height(screen.aspect)
           x == (p[1] - (1024 - w) \div 2) * screen.vres[1]
           y == (p[2] - (768 - h) \div 2) * screen.vres[2]
<1>1. w \in Nat \ {0} /\ h \in Nat \ {0} /\ screen.vres[1] \in Nat /\ screen.vres[2] \in Nat
  BY ScreenFacts
<1>2. OnScreen(p) = <<Quotient(x, w), Quotient(y, h)>>
  BY DEF OnScreen
<1> HIDE DEF w, h
<1>3. x \in Int /\ y \in Int
  BY <1>1
<1> HIDE DEF x, y
<1>4. Quotient(x, w) \in Int /\ Quotient(y, h) \in Int
  BY <1>1, <1>3, QuotientFacts
<1> QED
  BY <1>2, <1>4

\* What is within the bounds is on the screen.
LEMMA OnScreenInside ==
  ASSUME IrTypeInv, NEW p, p[1] \in Int, p[2] \in Int, InBounds(p),
         NEW c, c = OnScreen(Corrected(p))
  PROVE  /\ c \in Int \X Int
         /\ 0 <= c[1] /\ c[1] <= screen.vres[1]
         /\ 0 <= c[2] /\ c[2] <= screen.vres[2]
<1> DEFINE w == Width(screen.aspect)
           h == Height(screen.aspect)
           a == p[1] - (1024 - w) \div 2
           b == (p[2] - screen.offset) - (768 - h) \div 2
<1>1. /\ w \in {660, 560} /\ h \in {370, 420}
      /\ screen.vres[1] \in Nat /\ screen.vres[2] \in Nat /\ screen.offset \in Int
  BY ScreenFacts
<1>2. c = <<Quotient(a * screen.vres[1], w), Quotient(b * screen.vres[2], h)>>
  BY DEF OnScreen, Corrected
<1>3. /\ a \in Int /\ 0 <= a /\ a <= w
      /\ b \in Int /\ 0 <= b /\ b <= h
  <2> DEFINE x0 == (1024 - w) \div 2
             y0 == (768 - h) \div 2 + screen.offset
  <2>1. p[1] \in x0 .. x0 + w /\ p[2] \in y0 .. y0 + h
    BY DEF InBounds
  <2> HIDE DEF w, h
  <2>2. (1024 - w) \div 2 \in Int /\ (768 - h) \div 2 \in Int
    BY <1>1
  <2> QED
    BY <1>1, <2>1, <2>2
<1> HIDE DEF a, b, w, h
<1>4. /\ 0 <= Quotient(a * screen.vres[1], w) /\ Quotient(a * screen.vres[1], w) <= screen.vres[1]
      /\ 0 <= Quotient(b * screen.vres[2], h) /\ Quotient(b * screen.vres[2], h) <= screen.vres[2]
  <2> w \in {660, 560, 370, 420} /\ h \in {660, 560, 370, 420}
    BY <1>1
  <2> DEFINE u == screen.vres[1]
             v == screen.vres[2]
  <2>1. u \in Nat /\ v \in Nat
    BY <1>1
  <2> HIDE DEF u, v
  <2>2. 0 <= Quotient(a * u, w) /\ Quotient(a * u, w) <= u
    BY <1>3, <2>1, ScaleFacts
  <2>3. 0 <= Quotient(b * v, h) /\ Quotient(b * v, h) <= v
    BY <1>3, <2>1, ScaleFacts
  <2> QED
    BY <2>2, <2>3 DEF u, v
<1>5. Corrected(p)[1] \in Int /\ Corrected(p)[2] \in Int
  BY <1>1 DEF Corrected
<1>6. c \in Int \X Int
  BY <1>5, OnScreenType
<1> QED
  BY <1>2, <1>4, <1>6

\* A cursor c that is on the screen it was drawn for, and its successor.
LEMMA FollowsFacts ==
  ASSUME IrTypeInv, NEW p \in Int \X Int, NEW c \in Int \X Int,
         0 <= c[1], c[1] <= drawn[1], 0 <= c[2], c[2] <= drawn[2],
         Follows(p, c)
  PROVE  /\ middle' = p
         /\ cursor' \in Int \X Int /\ drawn' \in Nat \X Nat
         /\ 0 <= cursor'[1] /\ cursor'[1] <= drawn'[1]
         /\ 0 <= cursor'[2] /\ cursor'[2] <= drawn'[2]
<1>1. middle' = p
  BY DEF Follows
<1>2. CASE InBounds(p)
  <2>1. cursor' = OnScreen(Corrected(p)) /\ drawn' = screen.vres
    BY <1>2 DEF Follows
  <2>2. p[1] \in Int /\ p[2] \in Int
    OBVIOUS
  <2> QED
    BY <1>1, <1>2, <2>1, <2>2, OnScreenInside, ScreenFacts
<1>3. CASE ~InBounds(p)
  <2>1. cursor' = c /\ drawn' = drawn
    BY <1>3 DEF Follows
  <2> QED
    BY <1>1, <2>1 DEF IrTypeInv
<1> QED
  BY <1>2, <1>3

-----------------------------------------------------------------------------
(* Reports                                                                 *)

LEMMA RootsOfDistance ==
  ASSUME dist2 \in Near
  PROVE  RootDown(dist2) \in Nat /\ RootUp(dist2) \in Nat
<1>1. RootDown(dist2) \in Nat
  BY RootFacts
<1> QED
  BY <1>1 DEF RootUp

LEMMA GuessesType ==
  ASSUME dist2 \in Near, NEW x \in Int, NEW order, NEW g \in Guesses(x, order)
  PROVE  g \in Int
<1>1. RootDown(dist2) \in Int /\ RootUp(dist2) \in Int
  BY RootsOfDistance
<1>2. Far \in Int /\ -Far \in Int
  BY SMT DEF Far
<1>3. \A a \in Int : Quotient(a, 2) \in Int
  BY QuotientFacts
<1>4. /\ x + (x + RootDown(dist2)) \in Int
      /\ x + (x - RootUp(dist2)) \in Int
      /\ x + (x - RootDown(dist2)) \in Int
  BY <1>1
<1>5. \/ g = Quotient(x, 2) \/ g = -Far \/ g = Far
      \/ g = Quotient(x + (x + RootDown(dist2)), 2)
      \/ g = Quotient(x + (x - RootUp(dist2)), 2)
      \/ g = Quotient(x + (x - RootDown(dist2)), 2)
  BY DEF Guesses
<1> QED
  BY <1>2, <1>3, <1>4, <1>5

\* The dots of a report keep their places.
LEMMA PlacedKeeps ==
  ASSUME IInv, NEW image \in Images, NEW d, d = Placed(image)
  PROVE  /\ d \in [Slots -> Dot] /\ Apart(d)
         /\ \A i \in Slots : d[i].order = dot[i].order
         /\ Ordered(dot) /\ Seen(d) \subseteq Seen(dot) => Ordered(d)
<1>1. d \in [Slots -> Dot] /\ \A i \in Slots : d[i].order = dot[i].order
  BY PlacedFacts DEF IInv, IrTypeInv
<1>2. Apart(d)
  BY <1>1 DEF IInv, Apart
<1>3. Ordered(dot) /\ Seen(d) \subseteq Seen(dot) => Ordered(d)
  <2>1. Seen(d) \subseteq Slots
    BY <1>1, SeenFacts
  <2> QED
    BY <1>1, <2>1 DEF Ordered
<1> QED
  BY <1>1, <1>2, <1>3

LEMMA NoDotsKeeps ==
  ASSUME IInv, NEW image \in Images, NEW d, d = Placed(image), NoDots(d)
  PROVE  IInv'
<1>1. d \in [Slots -> Dot]
  BY PlacedKeeps
<1>0. /\ Seen(d) = {} /\ dot' = [i \in Slots |-> [d[i] EXCEPT !.order = 0]]
      /\ tracking' = FALSE /\ swapped' = FALSE /\ cursor' = <<0, 0>> /\ drawn' = screen.vres
      /\ dist2' = dist2 /\ middle' = middle /\ screen' = screen
  BY DEF NoDots, Origin
<1>2. \A i \in Slots : dot'[i] = [at |-> Hidden, order |-> 0]
  <2> TAKE i \in Slots
  <2>1. d[i].at = Hidden
    BY <1>0 DEF Seen
  <2>2. d[i] = [at |-> d[i].at, order |-> d[i].order]
    BY <1>1 DEF Dot
  <2> QED
    BY <1>0, <2>1, <2>2
<1>3. Seen(dot') = {} /\ ~Two(dot')
  BY <1>2 DEF Seen, Two
<1>4. dot' \in [Slots -> Dot]
  <2>1. [at |-> Hidden, order |-> 0] \in Dot
    BY SlotsFew DEF Dot
  <2> QED
    BY <1>0, <1>2, <2>1
<1>5. IrTypeInv'
  <2>1. tracking' \in BOOLEAN /\ swapped' \in BOOLEAN
    BY <1>0
  <2>4. cursor' \in Int \X Int
    BY <1>0
  <2>2. drawn' \in Nat \X Nat
    BY <1>0, ScreenFacts DEF IInv
  <2>3. dist2' \in Near /\ middle' \in Int \X Int /\ screen' \in Screen
    BY <1>0 DEF IInv, IrTypeInv
  <2> QED
    BY <1>4, <2>1, <2>2, <2>3, <2>4 DEF IrTypeInv
<1>6. Apart(dot')
  BY <1>2 DEF Apart
<1> QED
  BY <1>0, <1>3, <1>5, <1>6 DEF IInv, TrackingFits, MeasuresFit, CursorIsOnScreen

LEMMA FirstDotKeeps ==
  ASSUME IInv, NEW image \in Images, NEW d, d = Placed(image), FirstDot(d)
  PROVE  IInv'
<1>1. d \in [Slots -> Dot] /\ Apart(d)
  BY PlacedKeeps
<1>2. PICK i \in Slots : /\ Seen(d) = {i}
                         /\ middle' = d[i].at
                         /\ cursor' = OnScreen(d[i].at)
  BY DEF FirstDot
<1>3. dot' = d /\ ~Two(d)
  BY <1>2 DEF FirstDot, Two
<1>4. d[i].at \in Int \X Int /\ d[i].at[1] \in Int /\ d[i].at[2] \in Int
  <2>1. d[i].at \in Box /\ d[i].at[1] \in Int /\ d[i].at[2] \in Int
    BY <1>1, <1>2, SeenFacts
  <2> QED
    BY <2>1 DEF Box
<1>5. IrTypeInv'
  <2>1. swapped' \in BOOLEAN
    BY DEF FirstDot, IInv, IrTypeInv
  <2>2. drawn' \in Nat \X Nat
    BY ScreenFacts DEF IInv, FirstDot
  <2>3. dist2' \in Near /\ screen' \in Screen /\ tracking' \in BOOLEAN
    BY DEF IInv, IrTypeInv, FirstDot
  <2>4. cursor' \in Int \X Int
    BY <1>2, <1>4, OnScreenType DEF IInv
  <2>5. middle' \in Int \X Int
    BY <1>2, <1>4
  <2>6. dot' \in [Slots -> Dot]
    BY <1>1, <1>3
  <2> QED
    BY <2>1, <2>2, <2>3, <2>4, <2>5, <2>6 DEF IrTypeInv
<1>6. ~tracking'
  BY DEF FirstDot
<1> QED
  BY <1>1, <1>3, <1>5, <1>6 DEF IInv, TrackingFits, MeasuresFit, CursorIsOnScreen

LEMMA LoneDotKeeps ==
  ASSUME IInv, NEW image \in Images, NEW d, d = Placed(image), LoneDot(d)
  PROVE  IInv'
<1>1. /\ d \in [Slots -> Dot] /\ Apart(d)
      /\ Ordered(dot) /\ Seen(d) \subseteq Seen(dot) => Ordered(d)
  BY PlacedKeeps
<1>2. PICK i \in Slots :
         /\ Seen(d) = {i}
         /\ \E x \in Guesses(d[i].at[1], d[i].order) : Follows(<<x, d[i].at[2]>>, cursor)
  BY DEF LoneDot
<1>3. PICK x \in Guesses(d[i].at[1], d[i].order) : Follows(<<x, d[i].at[2]>>, cursor)
  BY <1>2
<1>4. dot' = d /\ ~Two(d)
  BY <1>2 DEF LoneDot, Two
<1>5. <<x, d[i].at[2]>> \in Int \X Int
  <2>1. d[i].at[1] \in Int /\ d[i].at[2] \in Int
    BY <1>1, <1>2, SeenFacts
  <2>2. x \in Int
    BY <2>1, GuessesType DEF IInv, IrTypeInv
  <2> QED
    BY <2>1, <2>2
<1>6. /\ cursor \in Int \X Int
      /\ 0 <= cursor[1] /\ cursor[1] <= drawn[1]
      /\ 0 <= cursor[2] /\ cursor[2] <= drawn[2]
  BY DEF IInv, IrTypeInv, CursorIsOnScreen, LoneDot
<1>7. /\ middle' \in Int \X Int
      /\ cursor' \in Int \X Int /\ drawn' \in Nat \X Nat
      /\ 0 <= cursor'[1] /\ cursor'[1] <= drawn'[1]
      /\ 0 <= cursor'[2] /\ cursor'[2] <= drawn'[2]
  <2> DEFINE p == <<x, d[i].at[2]>>
  <2>1. p \in Int \X Int /\ Follows(p, cursor)
    BY <1>3, <1>5
  <2> HIDE DEF p
  <2> QED
    BY <1>6, <2>1, FollowsFacts DEF IInv
<1>8. IrTypeInv'
  <2>1. swapped' \in BOOLEAN
    BY DEF LoneDot, IInv, IrTypeInv
  <2>2. dist2' \in Near /\ screen' \in Screen /\ tracking' \in BOOLEAN
    BY DEF IInv, IrTypeInv, LoneDot
  <2>3. dot' \in [Slots -> Dot]
    BY <1>1, <1>4
  <2> QED
    BY <1>7, <2>1, <2>2, <2>3 DEF IrTypeInv
<1>9. ASSUME ~swapped' PROVE Ordered(d)
  <2>1. tracking /\ ~swapped /\ ~Swaps(d)
    BY <1>9 DEF LoneDot
  <2>2. Ordered(dot) /\ Seen(dot) # {}
    BY <2>1 DEF IInv, TrackingFits
  <2>3. Seen(d) \subseteq Seen(dot)
    BY <1>2, <2>1, <2>2 DEF Swaps
  <2> QED
    BY <1>1, <2>2, <2>3
<1>10. TrackingFits' /\ MeasuresFit'
  BY <1>2, <1>4 DEF TrackingFits, MeasuresFit
<1>11. CursorIsOnScreen'
  BY <1>7 DEF CursorIsOnScreen
<1> QED
  BY <1>1, <1>4, <1>8, <1>9, <1>10, <1>11 DEF IInv

LEMMA ManyDotsKeeps ==
  ASSUME IInv, NEW image \in Images, NEW d, d = Placed(image), ManyDots(d)
  PROVE  IInv'
<1> DEFINE more == Cardinality(Seen(d)) > Cardinality(Seen(dot))
<1>1. /\ d \in [Slots -> Dot] /\ Apart(d)
      /\ Ordered(dot) /\ Seen(d) \subseteq Seen(dot) => Ordered(d)
  BY PlacedKeeps
<1>2. /\ Cardinality(Seen(d)) >= 2
      /\ tracking' = TRUE
      /\ dot' = IF more THEN Reordered(d) ELSE d
      /\ swapped' = (~more /\ (swapped \/ Swaps(d)))
      /\ Follows(Average(d), IF more THEN Origin ELSE cursor)
      /\ dist2' = Distance2(d)
      /\ screen' = screen
  BY DEF ManyDots
<1>3. Two(d) /\ dot \in [Slots -> Dot]
  BY <1>1, <1>2, TwoFacts DEF IInv, IrTypeInv
<1>4. /\ dot' \in [Slots -> Dot] /\ Apart(dot')
      /\ \A i \in Slots : dot'[i].at = d[i].at
      /\ more => Ordered(dot')
  BY <1>1, <1>2, ReorderedFacts
<1>5. /\ Seen(dot') = Seen(d) /\ Two(dot')
      /\ Average(dot') = Average(d) /\ Distance2(dot') = Distance2(d)
  BY <1>1, <1>3, <1>4, SameAt
<1>6. ASSUME ~more PROVE Two(dot)
  <2>1. /\ Cardinality(Seen(d)) \in Nat /\ Cardinality(Seen(dot)) \in Nat
    BY <1>1, <1>3, SeenFacts, SlotsFew
  <2> QED
    BY <1>2, <1>3, <1>6, <2>1, TwoFacts
<1>7. ASSUME ~swapped' PROVE Ordered(dot')
  <2>1. CASE more
    BY <1>4, <2>1
  <2>2. CASE ~more
    <3>1. ~swapped /\ ~Swaps(d) /\ dot' = d
      BY <1>2, <1>7, <2>2
    <3>2. Ordered(dot)
      BY <1>6, <2>2, <3>1 DEF IInv, TrackingFits
    <3>3. IsFiniteSet(Seen(d)) /\ IsFiniteSet(Seen(dot))
      BY <1>1, <1>3, SeenFacts
    <3>4. Seen(d) \subseteq Seen(dot)
      <4>1. CASE Seen(dot) \subseteq Seen(d)
        <5>1. /\ Cardinality(Seen(d)) \in Nat /\ Cardinality(Seen(dot)) \in Nat
          BY <3>3, FS_CardinalityType
        <5>2. Cardinality(Seen(dot)) <= Cardinality(Seen(d))
          BY <3>3, <4>1, FS_Subset
        <5>3. Cardinality(Seen(dot)) = Cardinality(Seen(d))
          BY <2>2, <5>1, <5>2
        <5> QED
          BY <3>3, <4>1, <5>3, FS_Subset
      <4> QED
        BY <3>1, <4>1 DEF Swaps
    <3> QED
      BY <1>1, <3>1, <3>2, <3>4
  <2> QED
    BY <2>1, <2>2
<1>8. /\ middle' = Average(d) /\ middle' \in Int \X Int
      /\ cursor' \in Int \X Int /\ drawn' \in Nat \X Nat
      /\ 0 <= cursor'[1] /\ cursor'[1] <= drawn'[1]
      /\ 0 <= cursor'[2] /\ cursor'[2] <= drawn'[2]
  <2> DEFINE c == IF more THEN Origin ELSE cursor
             p == Average(d)
  <2>1. p \in Int \X Int /\ Follows(p, c)
    BY <1>1, <1>2, <1>3, AverageType
  <2>2. /\ c \in Int \X Int
        /\ 0 <= c[1] /\ c[1] <= drawn[1]
        /\ 0 <= c[2] /\ c[2] <= drawn[2]
    <3>1. CASE more
      <4>1. drawn[1] \in Nat /\ drawn[2] \in Nat
        BY DEF IInv, IrTypeInv
      <4>2. c = <<0, 0>>
        BY <3>1 DEF Origin
      <4> HIDE DEF c
      <4> QED
        BY <4>1, <4>2
    <3>2. CASE ~more
      <4>1. c = cursor /\ tracking
        BY <1>6, <3>2 DEF IInv, TrackingFits
      <4> HIDE DEF c
      <4> QED
        BY <4>1 DEF IInv, IrTypeInv, CursorIsOnScreen
    <3> QED
      BY <3>1, <3>2
  <2> HIDE DEF c, p
  <2>3. /\ middle' = p
        /\ cursor' \in Int \X Int /\ drawn' \in Nat \X Nat
        /\ 0 <= cursor'[1] /\ cursor'[1] <= drawn'[1]
        /\ 0 <= cursor'[2] /\ cursor'[2] <= drawn'[2]
    BY <2>1, <2>2, FollowsFacts DEF IInv
  <2> QED
    BY <2>1, <2>3 DEF p
<1>9. IrTypeInv'
  <2>1. swapped' \in BOOLEAN /\ tracking' \in BOOLEAN
    BY <1>2
  <2>2. dist2' \in Near
    BY <1>1, <1>2, <1>3, DistanceNear
  <2>3. screen' \in Screen
    BY <1>2 DEF IInv, IrTypeInv
  <2> QED
    BY <1>4, <1>8, <2>1, <2>2, <2>3 DEF IrTypeInv
<1>10. Seen(dot') # {}
  BY <1>5 DEF Two
<1>11. TrackingFits' /\ MeasuresFit'
  BY <1>2, <1>5, <1>8, <1>10 DEF TrackingFits, MeasuresFit
<1>12. CursorIsOnScreen'
  BY <1>8 DEF CursorIsOnScreen
<1> QED
  BY <1>4, <1>7, <1>9, <1>11, <1>12 DEF IInv

-----------------------------------------------------------------------------
(* The invariant                                                           *)

LEMMA Sizes ==
  /\ Width("4:3") \in Nat /\ Height("4:3") \in Nat
  /\ \A aspect \in {"4:3", "16:9"} :
        /\ <<Width(aspect), Height(aspect)>> \in Nat \X Nat
        /\ \A pos \in {"ABOVE", "BELOW"} : Offset(aspect, pos) \in Int
<1>1. \A aspect : Width(aspect) \in Nat /\ Height(aspect) \in Nat
  BY DEF Width, Height
<1>2. \A aspect, pos : Offset(aspect, pos) \in Int
  <2> TAKE aspect, pos
  <2>1. Height(aspect) \div 2 \in Int
    BY <1>1
  <2> HIDE DEF Height
  <2> QED
    BY <2>1 DEF Offset
<1> QED
  BY <1>1, <1>2

LEMMA InitEstablishes ==
  ASSUME Init
  PROVE  IInv
<1>1. \A i \in Slots : dot[i] = [at |-> Hidden, order |-> 0]
  BY DEF Init
<1>2. Seen(dot) = {} /\ ~Two(dot)
  BY <1>1 DEF Seen, Two
<1>3. dot \in [Slots -> Dot]
  <2>1. [at |-> Hidden, order |-> 0] \in Dot
    BY SlotsFew DEF Dot
  <2> QED
    BY <2>1 DEF Init
<1>4. screen \in Screen /\ drawn \in Nat \X Nat
  <2>1. /\ <<Width("4:3"), Height("4:3")>> \in Nat \X Nat
        /\ Offset("4:3", "ABOVE") \in Int
    BY Sizes
  <2>2. /\ screen = [aspect |-> "4:3", pos |-> "ABOVE",
                     offset |-> Offset("4:3", "ABOVE"),
                     vres |-> <<Width("4:3"), Height("4:3")>>]
        /\ drawn = <<Width("4:3"), Height("4:3")>>
    BY DEF Init
  <2> QED
    BY <2>1, <2>2 DEF Screen
<1>5. /\ tracking = FALSE /\ swapped = FALSE /\ dist2 = 0
      /\ middle = <<0, 0>> /\ cursor = <<0, 0>>
  BY DEF Init, Origin
<1>6. dist2 \in Near
  BY <1>5 DEF Near, Square
<1>7. IrTypeInv
  <2>1. tracking \in BOOLEAN /\ swapped \in BOOLEAN
    BY <1>5
  <2>2. middle \in Int \X Int /\ cursor \in Int \X Int
    BY <1>5
  <2> QED
    BY <1>3, <1>4, <1>6, <2>1, <2>2 DEF IrTypeInv
<1> QED
  BY <1>1, <1>2, <1>5, <1>7 DEF IInv, Apart, TrackingFits, MeasuresFit, CursorIsOnScreen

\* Settings touch neither the dots nor the cursor, and keep their types.
LEMMA SettingsKeep ==
  ASSUME IInv, screen' \in Screen,
         UNCHANGED <<dot, tracking, dist2, middle, cursor, drawn, swapped>>
  PROVE  IInv'
<1>1. IrTypeInv'
  BY DEF IInv, IrTypeInv
<1>2. Seen(dot') = Seen(dot) /\ Two(dot') = Two(dot)
  OBVIOUS
<1>3. TrackingFits' /\ MeasuresFit' /\ CursorIsOnScreen'
  BY DEF IInv, TrackingFits, MeasuresFit, CursorIsOnScreen
<1>4. Apart(dot') /\ (tracking' /\ ~swapped' => Ordered(dot'))
  BY DEF IInv
<1> QED
  BY <1>1, <1>3, <1>4 DEF IInv

LEMMA StepKeeps ==
  ASSUME IInv, [Next]_vars
  PROVE  IInv'
<1> DEFINE Rest == UNCHANGED <<dot, tracking, dist2, middle, cursor, drawn, swapped>>
<1>1. screen \in Screen /\ screen.aspect \in {"4:3", "16:9"} /\ screen.pos \in {"ABOVE", "BELOW"}
  BY DEF IInv, IrTypeInv, Screen
<1>2. ASSUME Report PROVE IInv'
  <2>1. PICK image \in Images : \E d \in {Placed(image)} :
           NoDots(d) \/ FirstDot(d) \/ LoneDot(d) \/ ManyDots(d)
    BY <1>2 DEF Report
  <2>2. PICK d \in {Placed(image)} : NoDots(d) \/ FirstDot(d) \/ LoneDot(d) \/ ManyDots(d)
    BY <2>1
  <2> QED
    BY <2>2, NoDotsKeeps, FirstDotKeeps, LoneDotKeeps, ManyDotsKeeps
<1>3. ASSUME NEW pos \in Positions, SetPosition(pos) PROVE IInv'
  <2>1. pos \in {"ABOVE", "BELOW"}
    BY IrAssumption
  <2>2. Offset(screen.aspect, pos) \in Int
    BY <1>1, <2>1, Sizes
  <2>3. /\ screen' = [screen EXCEPT !.pos = pos, !.offset = Offset(screen.aspect, pos)]
        /\ Rest
    BY <1>3 DEF SetPosition
  <2>4. screen' \in Screen
    BY <1>1, <2>1, <2>2, <2>3 DEF Screen
  <2> QED
    BY <2>3, <2>4, SettingsKeep
<1>4. ASSUME NEW aspect \in Aspects, SetAspect(aspect) PROVE IInv'
  <2>1. aspect \in {"4:3", "16:9"}
    BY IrAssumption
  <2>2. Offset(aspect, screen.pos) \in Int /\ <<Width(aspect), Height(aspect)>> \in Nat \X Nat
    BY <1>1, <2>1, Sizes
  <2>3. /\ screen' = [screen EXCEPT !.aspect = aspect,
                                    !.vres = <<Width(aspect), Height(aspect)>>,
                                    !.offset = Offset(aspect, screen.pos)]
        /\ Rest
    BY <1>4 DEF SetAspect
  <2>4. screen' \in Screen
    BY <1>1, <2>1, <2>2, <2>3 DEF Screen
  <2> QED
    BY <2>3, <2>4, SettingsKeep
<1>5. ASSUME NEW size \in Resolutions, SetResolution(size) PROVE IInv'
  <2>1. size[1] - 1 \in Nat /\ size[2] - 1 \in Nat
    BY IrAssumption
  <2>2. /\ screen' = [screen EXCEPT !.vres = <<size[1] - 1, size[2] - 1>>]
        /\ Rest
    BY <1>5 DEF SetResolution
  <2>3. screen' \in Screen
    BY <1>1, <2>1, <2>2 DEF Screen
  <2> QED
    BY <2>2, <2>3, SettingsKeep
<1>6. ASSUME UNCHANGED vars PROVE IInv'
  <2>1. Rest /\ screen' = screen
    BY <1>6 DEF vars
  <2> QED
    BY <1>1, <2>1, SettingsKeep
<1> QED
  BY <1>2, <1>3, <1>4, <1>5, <1>6 DEF Next

(* The inductive invariant holds in every behaviour. *)
THEOREM IrInvariance == Spec => []IInv
BY InitEstablishes, StepKeeps, PTL DEF Spec

(* Type correctness, for any views, settings and resolutions. *)
THEOREM IrTypeCorrect == Spec => []IrTypeOK
<1>1. IInv => IrTypeOK
  <2> SUFFICES ASSUME IInv PROVE IrTypeOK
    OBVIOUS
  <2>1. Dot \subseteq [at : {Hidden} \cup (Int \X Int), order : 0 .. Dots]
    BY DEF Dot, Box
  <2>2. dot \in [Slots -> [at : {Hidden} \cup (Int \X Int), order : 0 .. Dots]]
    BY <2>1 DEF IInv, IrTypeInv
  <2>3. dist2 \in Nat
    BY DEF IInv, IrTypeInv, Near
  <2> QED
    BY <2>2, <2>3 DEF IInv, IrTypeInv, IrTypeOK, Screen
<1> QED
  BY <1>1, IrInvariance, PTL

(* No two dots have one place in the order that reorder_ir_dots() gives them, *)
(* over any sequence of reports, and every dot has one while two are tracked, *)
(* unless a report has both lost a dot and gained one.                        *)
THEOREM DotsAreAlwaysOrdered == Spec => []DotsAreOrdered
<1>1. IInv => DotsAreOrdered
  BY DEF IInv, DotsAreOrdered, Apart, Ordered
<1> QED
  BY <1>1, IrInvariance, PTL

(* While two dots are tracked, the cursor is on the screen for which it was *)
(* drawn, for every resolution.                                             *)
THEOREM CursorStaysOnScreen == Spec => []CursorIsOnScreen
<1>1. IInv => CursorIsOnScreen
  BY DEF IInv
<1> QED
  BY <1>1, IrInvariance, PTL

-----------------------------------------------------------------------------
(* The estimate of a lost dot                                              *)

\* The root of the squared distance of two dots of equal height is how far one
\* is to the right of the other.
LEMMA RootOfDifference ==
  ASSUME NEW a \in Int, NEW b \in Int, a <= b, Square(a - b) \in Near
  PROVE  /\ RootDown(Square(a - b)) = b - a
         /\ RootUp(Square(a - b)) = b - a
<1>1. b - a \in Nat /\ a - b \in Int /\ -(a - b) = b - a
  OBVIOUS
<1>2. Square(a - b) = Square(b - a)
  BY <1>1, SquareOfInt
<1> QED
  BY <1>1, <1>2, RootOfSquare

\* The guess of interpret_ir_data() is the middle of both, wherever the other
\* dot was.
LEMMA GuessIsMiddle ==
  ASSUME NEW x \in Nat, NEW y \in Nat, NEW o \in {1, 2}, NEW p \in {1, 2}, o # p,
         o < p <=> x < y, dist2 = Square(x - y), dist2 \in Near,
         NEW g \in Guesses(x, o)
  PROVE  g = Quotient(x + y, 2)
<1>1. CASE o = 1
  <2>1. x <= y
    BY <1>1
  <2>2. RootDown(dist2) = y - x
    BY <2>1, RootOfDifference
  <2>3. g = Quotient(x + (x + RootDown(dist2)), 2)
    BY <1>1 DEF Guesses
  <2>4. x + (x + (y - x)) = x + y
    OBVIOUS
  <2> QED
    BY <2>2, <2>3, <2>4
<1>2. CASE o = 2
  <2>1. y <= x
    BY <1>2
  <2>2. dist2 = Square(y - x)
    <3>1. y - x = -(x - y) /\ x - y \in Int
      OBVIOUS
    <3> QED
      BY <3>1, SquareOfInt
  <2>3. RootUp(dist2) = x - y
    BY <2>1, <2>2, RootOfDifference
  <2>4. Square(x) >= dist2
    <3>1. x - y \in Nat /\ x - y <= x
      BY <2>1
    <3>2. Square(x - y) <= Square(x)
      BY <3>1, SquareGrows
    <3>3. Square(x - y) \in Nat /\ Square(x) \in Nat
      BY <3>1, SquareGrows
    <3> QED
      BY <3>2, <3>3
  <2>5. g = Quotient(x + (x - RootUp(dist2)), 2)
    BY <1>2, <2>4 DEF Guesses
  <2>6. x + (x - (x - y)) = x + y
    OBVIOUS
  <2> QED
    BY <2>3, <2>5, <2>6
<1> QED
  BY <1>1, <1>2

LEMMA LostDotStep ==
  ASSUME IInv, [Next]_vars, NEW i \in Seen(dot), NEW j \in Seen(dot) \ {i}, LeavesBehind(i, j)
  PROVE  middle' = middle
<1>1. dot \in [Slots -> Dot] /\ Seen(dot) = {i, j} /\ i # j /\ i \in Slots
  BY SeenFacts DEF IInv, IrTypeInv, LeavesBehind
<1>2. Two(dot) /\ tracking
  BY <1>1 DEF Two, IInv, TrackingFits
<1>3. /\ Seen(dot') = {i} /\ dot'[i].at = dot[i].at
      /\ dot[i].at[2] = dot[j].at[2]
      /\ {dot[i].order, dot[j].order} = {1, 2}
      /\ dot[i].at[1] >= 0 /\ dot[j].at[1] >= 0
      /\ dot[i].order < dot[j].order <=> dot[i].at[1] < dot[j].at[1]
  BY DEF LeavesBehind
<1> DEFINE x == dot[i].at[1]
           y == dot[j].at[1]
           h == dot[i].at[2]
           o == dot[i].order
           p == dot[j].order
<1>4. x \in Nat /\ y \in Nat /\ h \in Int
  <2>1. x \in Int /\ y \in Int /\ h \in Int
    BY <1>1, SeenFacts
  <2> HIDE DEF x, y, h
  <2>2. x >= 0 /\ y >= 0
    BY <1>3 DEF x, y
  <2> QED
    BY <2>1, <2>2
<1>5. middle = <<Quotient(x + y, 2), h>> /\ dist2 = Square(x - y) /\ dist2 \in Near
  <2>1. middle = Average(dot) /\ dist2 = Distance2(dot) /\ dist2 \in Near
    BY <1>2 DEF IInv, IrTypeInv, MeasuresFit
  <2>2. /\ Distance2(dot) = Square(x - y) + Square(h - h)
        /\ Average(dot) = <<Quotient(x + y, 2), Quotient(h + h, 2)>>
    BY <1>1, <1>3, MeasuresOfTwo
  <2> HIDE DEF x, y, h
  <2>3. Square(h - h) = 0 /\ Square(x - y) \in Nat /\ Quotient(h + h, 2) = h
    <3>1. h - h = 0 /\ x - y \in Int
      BY <1>4
    <3>2. Square(0) = 0
      BY DEF Square
    <3> QED
      BY <1>4, <3>1, <3>2, SquareOfInt, HalfOfTwice
  <2> QED
    BY <2>1, <2>2, <2>3
<1>6. Report
  <2>1. ASSUME dot' = dot PROVE FALSE
    BY <1>1, <1>3, <2>1
  <2> QED
    BY <2>1 DEF Next, vars, SetPosition, SetAspect, SetResolution
<1>7. PICK image \in Images : \E d \in {Placed(image)} :
         NoDots(d) \/ FirstDot(d) \/ LoneDot(d) \/ ManyDots(d)
  BY <1>6 DEF Report
<1> PICK d \in {Placed(image)} : NoDots(d) \/ FirstDot(d) \/ LoneDot(d) \/ ManyDots(d)
  BY <1>7
<1>8. d \in [Slots -> Dot] /\ d[i].order = o
  BY <1>1, PlacedKeeps
<1>9. LoneDot(d)
  <2>1. ASSUME NoDots(d) PROVE FALSE
    <3>1. \A k \in Slots : dot'[k].at = d[k].at
      <4> TAKE k \in Slots
      <4>1. d[k] = [at |-> d[k].at, order |-> d[k].order]
        BY <1>8 DEF Dot
      <4>2. dot'[k] = [d[k] EXCEPT !.order = 0]
        BY <2>1 DEF NoDots
      <4> QED
        BY <4>1, <4>2
    <3> QED
      BY <1>3, <2>1, <3>1 DEF NoDots, Seen
  <2>2. ASSUME FirstDot(d) PROVE FALSE
    BY <1>2, <2>2 DEF FirstDot
  <2>3. ASSUME ManyDots(d) PROVE FALSE
    <3>1. dot' = Reordered(d) \/ dot' = d
      BY <2>3 DEF ManyDots
    <3>2. Seen(dot') = Seen(d)
      BY <1>8, <3>1, ReorderedFacts, SameAt
    <3>3. Cardinality({i}) = 1 /\ Cardinality(Seen(d)) >= 2
      BY <2>3, FS_Singleton DEF ManyDots
    <3> QED
      BY <1>3, <3>2, <3>3
  <2> QED
    BY <2>1, <2>2, <2>3
<1>10. dot' = d
  BY <1>9 DEF LoneDot
<1>11. PICK g \in Guesses(d[i].at[1], d[i].order) : middle' = <<g, d[i].at[2]>>
  <2>1. PICK k \in Slots :
           /\ Seen(d) = {k}
           /\ \E g \in Guesses(d[k].at[1], d[k].order) : Follows(<<g, d[k].at[2]>>, cursor)
    BY <1>9 DEF LoneDot
  <2>2. k = i
    BY <1>3, <1>10, <2>1
  <2> QED
    BY <2>1, <2>2 DEF Follows
<1>12. g \in Guesses(x, o) /\ middle' = <<g, h>>
  BY <1>3, <1>8, <1>10, <1>11
<1>13. o \in {1, 2} /\ p \in {1, 2} /\ o # p /\ (o < p <=> x < y)
  BY <1>3
<1> HIDE DEF x, y, h, o, p
<1>14. g = Quotient(x + y, 2)
  BY <1>4, <1>5, <1>12, <1>13, GuessIsMiddle
<1> QED
  BY <1>5, <1>12, <1>14

(* When one of two dots of equal height leaves the image and the other stays, *)
(* the middle between them stays, for every position of the two, as long as   *)
(* the order is still that from left to right: no rounding moves it.          *)
THEOREM LostDotAlwaysKeepsMiddle == Spec => LostDotKeepsMiddle
<1> DEFINE A == \A i \in Seen(dot) : \A j \in Seen(dot) \ {i} :
                   LeavesBehind(i, j) => middle' = middle
<1>1. IInv /\ [Next]_vars => A
  BY LostDotStep
<1>2. [][A]_vars => LostDotKeepsMiddle
  BY DEF LostDotKeepsMiddle
<1> HIDE DEF A
<1> QED
  BY <1>1, <1>2, IrInvariance, PTL DEF Spec

=============================================================================
