------------------------- MODULE InvoiceMoneyProofs -------------------------
(***************************************************************************)
(* The amounts of an invoice, for every payload, every scale and any       *)
(* number of lines: a stored line is within its roundings of the exact     *)
(* amounts, the header, the VAT summary and the document add up to the     *)
(* same, and an import of the document comes to the same totals.           *)
(***************************************************************************)
EXTENDS InvoiceMoney, FiniteSetTheorems, TLAPS

-----------------------------------------------------------------------------
(***************************************************************************)
(* Arithmetic.                                                             *)
(***************************************************************************)
LEMMA Quotient ==
  ASSUME NEW m \in Nat, NEW k \in Nat \ {0}
  PROVE  /\ m \div k \in Nat
         /\ k * (m \div k) <= m
         /\ m < k * (m \div k) + k
<1> DEFINE q == m \div k
<1>1. q \in Int
  BY SMT
<1>2. m = k * q + (m % k) /\ m % k \in 0..(k - 1)
  BY SMT
<1> QED BY <1>1, <1>2, SMT

\* Decimal.quantize is off by half a unit at most.
LEMMA HalfUpOff ==
  ASSUME NEW n \in Nat, NEW d \in Nat \ {0}
  PROVE  /\ HalfUp(n, d) \in Nat
         /\ -d <= 2 * (d * HalfUp(n, d) - n)
         /\ 2 * (d * HalfUp(n, d) - n) <= d
<1> DEFINE h == HalfUp(n, d)
<1>1. 2 * n + d \in Nat /\ 2 * d \in Nat \ {0}
  BY SMT
<1>2. h \in Nat /\ (2 * d) * h <= 2 * n + d /\ 2 * n + d < (2 * d) * h + 2 * d
  BY <1>1, Quotient DEF HalfUp
<1>3. d * h \in Nat /\ (2 * d) * h = 2 * (d * h)
  BY <1>2, SMT
<1> HIDE DEF h
<1>4. h \in Nat /\ -d <= 2 * (d * h - n) /\ 2 * (d * h - n) <= d
  BY <1>2, <1>3, SMT
<1> QED BY <1>4 DEF h

LEMMA Scaled ==
  ASSUME NEW e \in Int, NEW b \in Nat, NEW s \in Nat, -b <= e, e <= b
  PROVE  /\ s * e \in Int /\ s * b \in Nat
         /\ -(s * b) <= s * e /\ s * e <= s * b
BY SMT

\* An exact multiple is not rounded.
LEMMA HalfUpExact ==
  ASSUME NEW m \in Nat, NEW d \in Nat \ {0}
  PROVE  HalfUp(m * d, d) = m
<1> DEFINE n == m * d
           h == HalfUp(n, d)
<1>1. n \in Nat
  BY SMT
<1>2. h \in Nat /\ -d <= 2 * (d * h - n) /\ 2 * (d * h - n) <= d
  BY <1>1, HalfUpOff
<1>3. d * h - n = d * (h - m)
  BY <1>1, <1>2, SMT
<1> HIDE DEF h, n
<1>4. -d <= 2 * (d * (h - m)) /\ 2 * (d * (h - m)) <= d
  BY <1>2, <1>3
<1>5. h - m < 1
  <2>1. CASE h - m >= 1
    <3>1. d * (h - m) >= d
      BY <1>2, <2>1, SMT
    <3> QED BY <1>2, <1>4, <3>1, SMT
  <2> QED BY <1>2, <2>1
<1>6. h - m > -1
  <2>1. CASE h - m <= -1
    <3>1. d * (h - m) <= -d
      BY <1>2, <2>1, SMT
    <3> QED BY <1>2, <1>4, <3>1, SMT
  <2> QED BY <1>2, <2>1
<1> QED BY <1>2, <1>5, <1>6 DEF h, n

(***************************************************************************)
(* Three roundings: base of worth / (o * g), less of base * keep / w, and  *)
(* net of less - off / g.  The second and the third may not take place.    *)
(***************************************************************************)
LEMMA ThreeRoundings ==
  ASSUME NEW w \in Nat \ {0}, NEW o \in Nat \ {0}, NEW g \in Nat \ {0},
         NEW worth \in Nat, NEW keep \in 0..w, NEW off \in Nat,
         NEW base \in Nat, NEW less \in Nat, NEW net \in Nat,
         NEW b \in {0, 1}, NEW c \in {0, 1},
         -(o * g) <= 2 * ((o * g) * base - worth), 2 * ((o * g) * base - worth) <= o * g,
         -(w * b) <= 2 * (w * less - base * keep), 2 * (w * less - base * keep) <= w * b,
         -(g * c) <= 2 * (g * net - (less * g - off)), 2 * (g * net - (less * g - off)) <= g * c
  PROVE  Within(2 * ((w * o * g) * net - (worth * keep - w * o * off)), (w * o * g) * (1 + b + c))
<1> DEFINE s == o * g
           t == w * o
           e1 == 2 * (s * base - worth)
           e2 == 2 * (w * less - base * keep)
           e3 == 2 * (g * net - (less * g - off))
           all == 2 * ((w * o * g) * net - (worth * keep - w * o * off))
           unit == w * o * g
<1>1. s \in Nat /\ t \in Nat /\ unit \in Nat /\ unit = w * s /\ unit = t * g
  BY SMT
<1>2. e1 \in Int /\ -s <= e1 /\ e1 <= s
  BY <1>1, SMT
<1>3. e2 \in Int /\ w * b \in Nat /\ -(w * b) <= e2 /\ e2 <= w * b
  BY SMT
<1>4. e3 \in Int /\ g * c \in Nat /\ -(g * c) <= e3 /\ e3 <= g * c
  BY SMT
<1>5. all \in Int /\ all = t * e3 + s * e2 + keep * e1
  BY SMT
<1> HIDE DEF s, t, e1, e2, e3, all, unit
<1>6. keep * e1 \in Int /\ -(keep * s) <= keep * e1 /\ keep * e1 <= keep * s /\ keep * s \in Nat
  BY <1>1, <1>2, Scaled, SMT
<1>7. keep * s <= unit
  BY <1>1, SMT
<1>8. s * e2 \in Int /\ -(s * (w * b)) <= s * e2 /\ s * e2 <= s * (w * b)
  BY <1>1, <1>3, Scaled
<1>9. s * (w * b) = unit * b
  BY <1>1, SMT
<1>10. t * e3 \in Int /\ -(t * (g * c)) <= t * e3 /\ t * e3 <= t * (g * c)
  BY <1>1, <1>4, Scaled
<1>11. t * (g * c) = unit * c
  BY <1>1, SMT
<1>12. unit * (1 + b + c) = unit + unit * b + unit * c /\ unit * b \in Nat /\ unit * c \in Nat
  BY <1>1, SMT
<1>13. -(unit * (1 + b + c)) <= all /\ all <= unit * (1 + b + c)
  BY <1>1, <1>5, <1>6, <1>7, <1>8, <1>9, <1>10, <1>11, <1>12, SMT
<1> QED BY <1>13 DEF Within, all, unit

\* What is stored is a number of places.
LEMMA PlacesAreNat ==
  ASSUME NEW n \in Nat
  PROVE  Quantized(n) \in Nat /\ Place * HalfUp(n, Place) \in Nat
<1>1. Place \in Nat \ {0}
  BY MoneyAssumption
<1>2. n \div Place \in Nat /\ HalfUp(n, Place) \in Nat
  BY <1>1, Quotient, HalfUpOff
<1>3. \A k \in Nat : Place * k \in Nat
  BY <1>1, SMT
<1> QED BY <1>2, <1>3 DEF Quantized

-----------------------------------------------------------------------------
(***************************************************************************)
(* One line.                                                               *)
(***************************************************************************)
LEMMA PayloadFields ==
  ASSUME NEW p \in Payloads, Allowed(p)
  PROVE  /\ p.quantity \in Nat /\ p.price \in Nat /\ p.percent \in 0..(100 * Point)
         /\ p.discount \in Nat /\ p.rate \in Nat /\ p.reverse \in BOOLEAN
BY MoneyAssumption DEF Allowed

\* The roundings before the discount.
LEMMA DiscountedRounded ==
  ASSUME NEW p \in Payloads, Allowed(p)
  PROVE  LET w == 100 * Point
             b == IF p.percent > 0 THEN 1 ELSE 0
         IN  /\ BaseNet(p) \in Nat /\ DiscountedNet(p) \in Nat
             /\ -(One * Grosz) <= 2 * ((One * Grosz) * BaseNet(p) - p.quantity * p.price)
             /\ 2 * ((One * Grosz) * BaseNet(p) - p.quantity * p.price) <= One * Grosz
             /\ -(w * b) <= 2 * (w * DiscountedNet(p) - BaseNet(p) * (w - p.percent))
             /\ 2 * (w * DiscountedNet(p) - BaseNet(p) * (w - p.percent)) <= w * b
<1> USE PayloadFields
<1> DEFINE w == 100 * Point
           s == One * Grosz
           base == BaseNet(p)
           keep == w - p.percent
           less == DiscountedNet(p)
           b == IF p.percent > 0 THEN 1 ELSE 0
<1>1. /\ w \in Nat \ {0} /\ s \in Nat \ {0}
      /\ p.quantity * p.price \in Nat /\ keep \in Nat
  BY MoneyAssumption, SMT
<1>2. base \in Nat /\ -s <= 2 * (s * base - p.quantity * p.price)
                   /\ 2 * (s * base - p.quantity * p.price) <= s
  BY <1>1, HalfUpOff DEF BaseNet
<1> HIDE DEF base
<1>3. base * keep \in Nat
  BY <1>1, <1>2, SMT
<1>4. less \in Nat /\ -(w * b) <= 2 * (w * less - base * keep)
                   /\ 2 * (w * less - base * keep) <= w * b
  <2>1. CASE p.percent > 0
    <3>1. less = HalfUp(base * keep, w) /\ b = 1
      BY <2>1, Zenon DEF DiscountedNet, base, less, keep, w, b
    <3> HIDE DEF less, keep, w, b
    <3> QED BY <1>1, <1>3, <3>1, HalfUpOff
  <2>2. CASE ~(p.percent > 0)
    <3>1. less = base /\ keep = w /\ b = 0
      BY <2>2, MoneyAssumption DEF DiscountedNet, base
    <3> HIDE DEF less, keep, w, b
    <3> QED BY <1>1, <1>2, <3>1, SMT
  <2> QED BY <2>1, <2>2
<1> QED BY <1>2, <1>4 DEF base

\* The rounding after it, which a discount in whole grosze does not need.
LEMMA NetRounded ==
  ASSUME NEW p \in Payloads, Allowed(p)
  PROVE  LET c == IF p.discount % Grosz = 0 THEN 0 ELSE 1
             left == DiscountedNet(p) * Grosz - p.discount
         IN  /\ Net(p) \in Nat
             /\ -(Grosz * c) <= 2 * (Grosz * Net(p) - left)
             /\ 2 * (Grosz * Net(p) - left) <= Grosz * c
<1> USE PayloadFields
<1> DEFINE g == Grosz
           less == DiscountedNet(p)
           left == less * g - p.discount
           c == IF p.discount % g = 0 THEN 0 ELSE 1
<1>1. g \in Nat \ {0} /\ less \in Nat
  BY MoneyAssumption, DiscountedRounded
<1>2. left \in Nat
  BY <1>1, SMT DEF Allowed
<1>3. /\ Net(p) \in Nat /\ -g <= 2 * (g * Net(p) - left) /\ 2 * (g * Net(p) - left) <= g
  BY <1>1, <1>2, HalfUpOff DEF Net
<1>4. CASE p.discount % g = 0
  <2> DEFINE k == p.discount \div g
             m == less - k
  <2>1. p.discount = g * k /\ k \in Int
    BY <1>1, <1>4, SMT
  <2> HIDE DEF k, less
  <2>2. left = m * g /\ m \in Int
    BY <1>1, <2>1, SMT
  <2>3. m \in Nat
    <3>1. CASE m < 0
      <4>1. m * g < 0
        BY <1>1, <2>2, <3>1, SMT
      <4> QED BY <1>2, <2>2, <4>1
    <3> QED BY <2>2, <3>1
  <2> HIDE DEF m
  <2>4. Net(p) = m
    BY <1>1, <2>2, <2>3, HalfUpExact DEF Net, less
  <2>5. c = 0
    BY <1>4
  <2> HIDE DEF left, c
  <2>6. g * Net(p) - left = 0 /\ g * c = 0
    BY <1>1, <2>2, <2>3, <2>4, <2>5, SMT
  <2>7. -(g * c) <= 2 * (g * Net(p) - left) /\ 2 * (g * Net(p) - left) <= g * c
    BY <2>6
  <2> QED BY <1>3, <2>7 DEF left, c, less
<1>5. CASE p.discount % g # 0
  <2>1. c = 1
    BY <1>5
  <2>2. g * c = g
    BY <1>1, <2>1
  <2> QED BY <1>3, <2>2
<1> QED BY <1>4, <1>5

LEMMA StoredLineRounded ==
  ASSUME NEW p \in Payloads, Allowed(p)
  PROVE  StoredLine(p) \in Line /\ LineRounded(StoredLine(p))
<1> USE PayloadFields
<1> DEFINE w == 100 * Point
           b == IF p.percent > 0 THEN 1 ELSE 0
           c == IF p.discount % Grosz = 0 THEN 0 ELSE 1
           unit == w * One * Grosz
           exact == p.quantity * p.price * (w - p.percent) - w * One * p.discount
<1>1. Net(p) \in Nat /\ w \in Nat \ {0}
  BY NetRounded, MoneyAssumption
<1>2. Net(p) * p.rate \in Nat
  BY <1>1, SMT
<1>3. Exempt(p) => Vat(p) = 0
  BY DEF Vat
<1>4. ~Exempt(p) => /\ Vat(p) \in Nat
                    /\ Within(2 * (w * Vat(p) - Net(p) * p.rate), w)
  <2> SUFFICES ASSUME ~Exempt(p)
               PROVE  Vat(p) \in Nat /\ Within(2 * (w * Vat(p) - Net(p) * p.rate), w)
    OBVIOUS
  <2>1. Vat(p) = HalfUp(Net(p) * p.rate, w)
    BY DEF Vat
  <2> HIDE DEF w
  <2> QED BY <1>1, <1>2, <2>1, HalfUpOff DEF Within
<1>5. Vat(p) \in Nat
  BY <1>3, <1>4
<1>6. Within(2 * (unit * Net(p) - exact), unit * (1 + b + c))
  <2> DEFINE base == BaseNet(p)
             less == DiscountedNet(p)
             worth == p.quantity * p.price
             keep == w - p.percent
  <2>1. /\ base \in Nat /\ less \in Nat
        /\ -(One * Grosz) <= 2 * ((One * Grosz) * base - worth)
        /\ 2 * ((One * Grosz) * base - worth) <= One * Grosz
        /\ -(w * b) <= 2 * (w * less - base * keep)
        /\ 2 * (w * less - base * keep) <= w * b
    BY DiscountedRounded
  <2>2. /\ -(Grosz * c) <= 2 * (Grosz * Net(p) - (less * Grosz - p.discount))
        /\ 2 * (Grosz * Net(p) - (less * Grosz - p.discount)) <= Grosz * c
    BY NetRounded
  <2>3. worth \in Nat /\ keep \in 0..w /\ b \in {0, 1} /\ c \in {0, 1} /\ p.discount \in Nat
    BY <1>1, SMT
  <2>4. One \in Nat \ {0} /\ Grosz \in Nat \ {0}
    BY MoneyAssumption
  <2> HIDE DEF base, less, worth, keep, b, c, w
  <2>5. Within(2 * ((w * One * Grosz) * Net(p) - (worth * keep - w * One * p.discount)),
               (w * One * Grosz) * (1 + b + c))
    BY <1>1, <2>1, <2>2, <2>3, <2>4, ThreeRoundings
  <2> QED BY <2>5 DEF worth, keep
<1>7. Net(p) + Vat(p) \in Nat
  BY <1>1, <1>5
<1>8. Roundings(p) = 1 + b + c
  BY DEF Roundings
<1>9. StoredLine(p) \in Line
  BY <1>1, <1>5, <1>7, PlacesAreNat DEF StoredLine, Line
<1>10. /\ StoredLine(p).sent = p /\ StoredLine(p).net = Net(p) /\ StoredLine(p).vat = Vat(p)
       /\ StoredLine(p).gross = Net(p) + Vat(p)
  BY DEF StoredLine
<1> HIDE DEF w, b, c, unit, exact
<1>11. LineRounded(StoredLine(p))
  BY <1>3, <1>4, <1>6, <1>8, <1>10 DEF LineRounded, w, unit, exact
<1> QED BY <1>9, <1>11

-----------------------------------------------------------------------------
(***************************************************************************)
(* Induction over a finite set, stated with a set of its subsets in place  *)
(* of a predicate.                                                         *)
(***************************************************************************)
\* A set of numbers that is not empty has a least one.
LEMMA LeastNumber ==
  ASSUME NEW T, T \subseteq Nat, T # {}
  PROVE  \E n \in T : \A m \in T : n <= m
<1> DEFINE R == OpToRel(<, Nat)
<1>1. IsWellFoundedOn(R, Nat)
  BY NatLessThanWellFounded
<1>2. \A x, y \in Nat : x < y => <<x, y>> \in R
  BY DEF OpToRel
<1> HIDE DEF R
<1>3. PICK x \in T : \A y \in T : ~(<<y, x>> \in R)
  BY <1>1, WFMin
<1>4. \A m \in T : ~(m < x)
  BY <1>2, <1>3
<1> QED
  BY <1>3, <1>4

\* A property of finite sets that {} has, and that a set has when all its
\* proper subsets have it, is one of every finite set.
LEMMA SubsetsFirst ==
  ASSUME NEW S, IsFiniteSet(S), NEW Q,
         \A T \in SUBSET S : (\A U \in SUBSET T : U # T => U \in Q) => T \in Q
  PROVE  \A T \in SUBSET S : T \in Q
<1> DEFINE Sizes == {Cardinality(T) : T \in {U \in SUBSET S : U \notin Q}}
<1> SUFFICES ASSUME NEW X \in SUBSET S, X \notin Q PROVE FALSE
  OBVIOUS
<1>1. \A T \in SUBSET S : IsFiniteSet(T) /\ Cardinality(T) \in Nat
  BY FS_Subset, FS_CardinalityType
<1>2. Sizes \subseteq Nat /\ Sizes # {}
  BY <1>1
<1>3. PICK n \in Sizes : \A m \in Sizes : n <= m
  BY <1>2, LeastNumber
<1>4. PICK T \in SUBSET S : T \notin Q /\ Cardinality(T) = n
  BY <1>3
<1>5. ASSUME NEW U \in SUBSET T, U # T PROVE U \in Q
  <2>1. U \in SUBSET S
    BY <1>4
  <2>2. IsFiniteSet(T) /\ Cardinality(U) \in Nat /\ Cardinality(T) \in Nat
    BY <1>1, <2>1
  <2>3. Cardinality(U) <= Cardinality(T) /\ Cardinality(U) # Cardinality(T)
    BY <1>5, <2>2, FS_Subset
  <2> QED
    BY <1>3, <1>4, <2>1, <2>2, <2>3
<1> QED
  BY <1>4, <1>5

\* Element by element.
LEMMA OneByOne ==
  ASSUME NEW S, IsFiniteSet(S), NEW Q, {} \in Q,
         \A T \in SUBSET S, x \in S : x \notin T /\ T \in Q => T \cup {x} \in Q
  PROVE  S \in Q
<1>1. ASSUME NEW T \in SUBSET S, \A U \in SUBSET T : U # T => U \in Q PROVE T \in Q
  <2>1. CASE T = {}
    BY <2>1
  <2>2. CASE T # {}
    <3>1. PICK x \in T : TRUE
      BY <2>2
    <3>2. T \ {x} \in Q /\ T \ {x} \in SUBSET S /\ x \in S /\ T = (T \ {x}) \cup {x}
      BY <1>1
    <3> QED
      BY <3>2
  <2> QED
    BY <2>1, <2>2
<1>2. \A T \in SUBSET S : T \in Q
  BY <1>1, SubsetsFirst
<1> QED
  BY <1>2

-----------------------------------------------------------------------------
(***************************************************************************)
(* Sums.  The library adds up a set in the order of CHOOSE, by a recursive *)
(* function on its subsets.  That function exists, and any order gives the *)
(* same sum.                                                               *)
(***************************************************************************)
Any(s) == CHOOSE x \in s : TRUE

\* What the library computes the sum over S with.
Adds(f, S, it) ==
  it = [s \in SUBSET S |-> IF s = {} THEN 0 ELSE f[Any(s)] + it[s \ {Any(s)}]]

LEMMA SumIs ==
  ASSUME NEW f, NEW S
  PROVE  SumFunctionOnSet(f, S) = (CHOOSE it : Adds(f, S, it))[S]
BY Zenon DEF SumFunctionOnSet, FoldFunctionOnSet, MapThenFoldSet, Any, Adds

\* One element, then the rest.
Unfolds(f, S) ==
  SumFunctionOnSet(f, S) =
    IF S = {} THEN 0 ELSE f[Any(S)] + SumFunctionOnSet(f, S \ {Any(S)})

\* Two functions that add up the same subsets agree.
LEMMA AddsOnce ==
  ASSUME NEW f, NEW S, IsFiniteSet(S), NEW it, NEW at, Adds(f, S, it), Adds(f, S, at)
  PROVE  it = at
<1> DEFINE Q == {s \in SUBSET S : it[s] = at[s]}
<1>1. ASSUME NEW T \in SUBSET S, \A U \in SUBSET T : U # T => U \in Q PROVE T \in Q
  <2>1. CASE T = {}
    BY <2>1 DEF Adds
  <2>2. CASE T # {}
    <3>1. Any(T) \in T
      BY <2>2 DEF Any
    <3>2. it[T \ {Any(T)}] = at[T \ {Any(T)}]
      BY <1>1, <3>1
    <3> QED
      BY <2>2, <3>2 DEF Adds
  <2> QED
    BY <2>1, <2>2
<1>2. \A T \in SUBSET S : T \in Q
  <2> HIDE DEF Q
  <2> QED
    BY <1>1, SubsetsFirst
<1>3. \A T \in SUBSET S : it[T] = at[T]
  BY <1>2
<1> QED
  BY <1>3 DEF Adds

LEMMA SumUnfolds ==
  ASSUME NEW f, NEW S, IsFiniteSet(S)
  PROVE  Unfolds(f, S)
<1> DEFINE Q == {s \in SUBSET S : Unfolds(f, s)}
<1>1. ASSUME NEW T \in SUBSET S, \A U \in SUBSET T : U # T => U \in Q PROVE T \in Q
  <2> DEFINE it == [s \in SUBSET T |->
                      IF s = {} THEN 0 ELSE f[Any(s)] + SumFunctionOnSet(f, s \ {Any(s)})]
  <2>1. Adds(f, T, it)
    <3> SUFFICES ASSUME NEW s \in SUBSET T, s # {}
                 PROVE  SumFunctionOnSet(f, s \ {Any(s)}) = it[s \ {Any(s)}]
      BY DEF Adds
    <3>1. Any(s) \in s
      BY DEF Any
    <3>2. Unfolds(f, s \ {Any(s)}) /\ s \ {Any(s)} \in SUBSET T
      BY <1>1, <3>1
    <3> QED
      BY <3>2 DEF Unfolds
  <2>2. Adds(f, T, CHOOSE at : Adds(f, T, at))
    BY <2>1
  <2>3. IsFiniteSet(T)
    BY FS_Subset
  <2>4. SumFunctionOnSet(f, T) = it[T]
    <3> HIDE DEF it
    <3> QED
      BY <2>1, <2>2, <2>3, AddsOnce, SumIs
  <2> QED
    BY <2>4 DEF Unfolds
<1>2. \A T \in SUBSET S : T \in Q
  <2> HIDE DEF Q
  <2> QED
    BY <1>1, SubsetsFirst
<1> QED
  BY <1>2

\* The sum of nothing.
LEMMA SumEmpty == ASSUME NEW f PROVE SumFunctionOnSet(f, {}) = 0
BY SumUnfolds, FS_EmptySet DEF Unfolds

\* Any element may come first, and a sum of integers is one.
LEMMA SumRemove ==
  ASSUME NEW f, NEW S, IsFiniteSet(S), \A x \in S : f[x] \in Int
  PROVE  /\ SumFunctionOnSet(f, S) \in Int
         /\ \A x \in S : SumFunctionOnSet(f, S) = f[x] + SumFunctionOnSet(f, S \ {x})
<1> DEFINE Sum(s) == SumFunctionOnSet(f, s)
           Q == {s \in SUBSET S : /\ Sum(s) \in Int
                                  /\ \A x \in s : Sum(s) = f[x] + Sum(s \ {x})}
<1>1. \A T \in SUBSET S : T # {} => Any(T) \in T /\ Sum(T) = f[Any(T)] + Sum(T \ {Any(T)})
  BY SumUnfolds, FS_Subset DEF Unfolds, Any
<1>2. Sum({}) = 0
  BY SumEmpty
<1> HIDE DEF Sum
<1>3. ASSUME NEW T \in SUBSET S, \A U \in SUBSET T : U # T => U \in Q PROVE T \in Q
  <2>1. CASE T = {}
    BY <1>2, <2>1
  <2>2. CASE T # {}
    <3> DEFINE y == Any(T)
    <3>1. y \in T /\ Sum(T) = f[y] + Sum(T \ {y}) /\ f[y] \in Int
      BY <1>1, <2>2
    <3> HIDE DEF y
    <3>2. \A x \in T : T \ {x} \in Q
      BY <1>3
    <3>3. Sum(T) \in Int
      BY <3>1, <3>2
    <3>4. ASSUME NEW x \in T, x # y PROVE Sum(T) = f[x] + Sum(T \ {x})
      <4>1. T \ {x, y} = (T \ {x}) \ {y} /\ T \ {x, y} = (T \ {y}) \ {x}
        OBVIOUS
      <4>2. Sum(T \ {x}) = f[y] + Sum(T \ {x, y}) /\ Sum(T \ {y}) = f[x] + Sum(T \ {x, y})
        BY <3>1, <3>2, <3>4, <4>1
      <4>3. T \ {x, y} \in Q
        <5>1. T \ {x, y} \in SUBSET T /\ T \ {x, y} # T
          BY <3>1
        <5> QED
          BY <1>3, <5>1
      <4>4. Sum(T \ {x, y}) \in Int /\ f[x] \in Int
        BY <4>3
      <4> QED
        BY <3>1, <4>2, <4>4
    <3> QED
      BY <3>1, <3>3, <3>4
  <2> QED
    BY <2>1, <2>2
<1>4. \A T \in SUBSET S : T \in Q
  <2> HIDE DEF Q
  <2> QED
    BY <1>3, SubsetsFirst
<1> QED
  BY <1>4 DEF Sum

LEMMA SumAdd ==
  ASSUME NEW f, NEW S, IsFiniteSet(S), NEW x, x \notin S,
         \A y \in S \cup {x} : f[y] \in Int
  PROVE  SumFunctionOnSet(f, S \cup {x}) = f[x] + SumFunctionOnSet(f, S)
<1>1. IsFiniteSet(S \cup {x}) /\ (S \cup {x}) \ {x} = S
  BY FS_AddElement
<1> QED
  BY <1>1, SumRemove

\* Sums of the same amounts are equal.
LEMMA SumSame ==
  ASSUME NEW f, NEW g, NEW S, IsFiniteSet(S), \A x \in S : f[x] = g[x] /\ f[x] \in Int
  PROVE  SumFunctionOnSet(f, S) = SumFunctionOnSet(g, S)
<1> DEFINE Q == {T \in SUBSET S : SumFunctionOnSet(f, T) = SumFunctionOnSet(g, T)}
<1>1. {} \in Q
  BY SumEmpty
<1>2. ASSUME NEW T \in SUBSET S, NEW x \in S, x \notin T, T \in Q PROVE T \cup {x} \in Q
  <2>1. IsFiniteSet(T) /\ (\A y \in T \cup {x} : f[y] \in Int /\ g[y] \in Int)
    BY FS_Subset
  <2> QED
    BY <1>2, <2>1, SumAdd
<1> HIDE DEF Q
<1>3. S \in Q
  BY <1>1, <1>2, OneByOne
<1> QED
  BY <1>3 DEF Q

\* Sums add up term by term.
LEMMA SumPlus ==
  ASSUME NEW f, NEW g, NEW h, NEW S, IsFiniteSet(S),
         \A x \in S : f[x] \in Int /\ g[x] \in Int /\ h[x] = f[x] + g[x]
  PROVE  SumFunctionOnSet(h, S) = SumFunctionOnSet(f, S) + SumFunctionOnSet(g, S)
<1> DEFINE Q == {T \in SUBSET S :
                   SumFunctionOnSet(h, T) = SumFunctionOnSet(f, T) + SumFunctionOnSet(g, T)}
<1>1. {} \in Q
  BY SumEmpty
<1>2. ASSUME NEW T \in SUBSET S, NEW x \in S, x \notin T, T \in Q PROVE T \cup {x} \in Q
  <2>1. IsFiniteSet(T) /\ (\A y \in T \cup {x} : f[y] \in Int /\ g[y] \in Int /\ h[y] \in Int)
    BY FS_Subset
  <2>2. SumFunctionOnSet(f, T) \in Int /\ SumFunctionOnSet(g, T) \in Int
    BY <2>1, SumRemove
  <2>3. /\ SumFunctionOnSet(f, T \cup {x}) = f[x] + SumFunctionOnSet(f, T)
        /\ SumFunctionOnSet(g, T \cup {x}) = g[x] + SumFunctionOnSet(g, T)
        /\ SumFunctionOnSet(h, T \cup {x}) = h[x] + SumFunctionOnSet(h, T)
    BY <1>2, <2>1, SumAdd
  <2> QED
    BY <1>2, <2>1, <2>2, <2>3
<1> HIDE DEF Q
<1>3. S \in Q
  BY <1>1, <1>2, OneByOne
<1> QED
  BY <1>3 DEF Q

\* Amounts of zero add nothing.
LEMMA SumZero ==
  ASSUME NEW f, NEW S, IsFiniteSet(S), \A x \in S : f[x] = 0
  PROVE  SumFunctionOnSet(f, S) = 0
<1> DEFINE Q == {T \in SUBSET S : SumFunctionOnSet(f, T) = 0}
<1>1. {} \in Q
  BY SumEmpty
<1>2. ASSUME NEW T \in SUBSET S, NEW x \in S, x \notin T, T \in Q PROVE T \cup {x} \in Q
  <2>1. IsFiniteSet(T) /\ (\A y \in T \cup {x} : f[y] \in Int)
    BY FS_Subset
  <2> QED
    BY <1>2, <2>1, SumAdd
<1> HIDE DEF Q
<1>3. S \in Q
  BY <1>1, <1>2, OneByOne
<1> QED
  BY <1>3 DEF Q

\* The sum over two sets with nothing in common.
LEMMA SumApart ==
  ASSUME NEW f, NEW S, NEW A, IsFiniteSet(S), IsFiniteSet(A), A \cap S = {},
         \A x \in A \cup S : f[x] \in Int
  PROVE  SumFunctionOnSet(f, A \cup S) = SumFunctionOnSet(f, A) + SumFunctionOnSet(f, S)
<1> DEFINE Q == {T \in SUBSET S :
                   SumFunctionOnSet(f, A \cup T) = SumFunctionOnSet(f, A) + SumFunctionOnSet(f, T)}
<1>1. SumFunctionOnSet(f, A) \in Int
  BY SumRemove
<1>2. {} \in Q
  <2>1. A \cup {} = A
    OBVIOUS
  <2> QED
    BY <1>1, <2>1, SumEmpty
<1>3. ASSUME NEW T \in SUBSET S, NEW x \in S, x \notin T, T \in Q PROVE T \cup {x} \in Q
  <2>1. IsFiniteSet(T) /\ IsFiniteSet(A \cup T)
    BY FS_Subset, FS_Union
  <2>2. x \notin A \cup T /\ A \cup (T \cup {x}) = (A \cup T) \cup {x}
    BY <1>3
  <2>3. /\ SumFunctionOnSet(f, (A \cup T) \cup {x}) = f[x] + SumFunctionOnSet(f, A \cup T)
        /\ SumFunctionOnSet(f, T \cup {x}) = f[x] + SumFunctionOnSet(f, T)
        /\ SumFunctionOnSet(f, T) \in Int /\ f[x] \in Int
    <3>1. \A y \in (A \cup T) \cup {x} : f[y] \in Int
      OBVIOUS
    <3> QED
      BY <1>3, <2>1, <2>2, <3>1, SumAdd, SumRemove
  <2>4. SumFunctionOnSet(f, A \cup (T \cup {x})) = f[x] + SumFunctionOnSet(f, A \cup T)
    BY <2>2, <2>3
  <2>5. SumFunctionOnSet(f, A \cup T) = SumFunctionOnSet(f, A) + SumFunctionOnSet(f, T)
    BY <1>3
  <2>6. SumFunctionOnSet(f, A \cup (T \cup {x}))
          = SumFunctionOnSet(f, A) + SumFunctionOnSet(f, T \cup {x})
    BY <1>1, <2>3, <2>4, <2>5
  <2> QED
    BY <2>6
<1> HIDE DEF Q
<1>4. S \in Q
  BY <1>2, <1>3, OneByOne
<1> QED
  BY <1>4 DEF Q

\* total[g] is the sum over the members of group g.
ByGroup(total, G, f, S, group) ==
  \A g \in G : total[g] = SumFunctionOnSet(f, {x \in S : group[x] = g})

\* Adding up by group and then the groups gives the sum of what the groups hold.
LEMMA SumByGroup ==
  ASSUME NEW f, NEW S, IsFiniteSet(S), NEW G, IsFiniteSet(G), NEW group, NEW total,
         \A x \in S : f[x] \in Int, ByGroup(total, G, f, S, group)
  PROVE  SumFunctionOnSet(total, G) = SumFunctionOnSet(f, {x \in S : group[x] \in G})
<1> DEFINE In(H) == {x \in S : group[x] \in H}
           Q == {H \in SUBSET G : SumFunctionOnSet(total, H) = SumFunctionOnSet(f, In(H))}
<1>1. {} \in Q
  <2>1. In({}) = {}
    OBVIOUS
  <2> QED
    BY <2>1, SumEmpty
<1>2. ASSUME NEW H \in SUBSET G, NEW g \in G, g \notin H, H \in Q PROVE H \cup {g} \in Q
  <2> DEFINE Alike == {x \in S : group[x] = g}
  <2>1. In(H \cup {g}) = Alike \cup In(H) /\ Alike \cap In(H) = {}
    BY <1>2
  <2>2. IsFiniteSet(Alike) /\ IsFiniteSet(In(H)) /\ IsFiniteSet(H)
    <3>1. Alike \in SUBSET S /\ In(H) \in SUBSET S
      OBVIOUS
    <3> QED
      BY <3>1, FS_Subset
  <2>3. total[g] = SumFunctionOnSet(f, Alike)
    BY DEF ByGroup
  <2>4. SumFunctionOnSet(f, In(H \cup {g})) = total[g] + SumFunctionOnSet(f, In(H))
    <3>1. \A x \in Alike \cup In(H) : f[x] \in Int
      OBVIOUS
    <3> HIDE DEF Alike, In
    <3>2. SumFunctionOnSet(f, Alike \cup In(H)) = SumFunctionOnSet(f, Alike) + SumFunctionOnSet(f, In(H))
      BY <2>1, <2>2, <3>1, SumApart
    <3> QED
      BY <2>1, <2>3, <3>2
  <2>5. \A k \in G : total[k] \in Int
    <3> TAKE k \in G
    <3>1. {x \in S : group[x] = k} \in SUBSET S
      OBVIOUS
    <3>2. SumFunctionOnSet(f, {x \in S : group[x] = k}) \in Int
      BY <3>1, FS_Subset, SumRemove
    <3> QED
      BY <3>2 DEF ByGroup
  <2>6. SumFunctionOnSet(total, H \cup {g}) = total[g] + SumFunctionOnSet(total, H)
    <3>1. \A k \in H \cup {g} : total[k] \in Int
      BY <2>5
    <3> QED
      BY <1>2, <2>2, <3>1, SumAdd
  <2>7. SumFunctionOnSet(total, H) = SumFunctionOnSet(f, In(H))
    BY <1>2
  <2> HIDE DEF In
  <2> QED
    BY <2>4, <2>6, <2>7
<1>3. G \in Q
  <2> HIDE DEF Q
  <2> QED
    BY <1>1, <1>2, OneByOne
<1> QED
  BY <1>3
-----------------------------------------------------------------------------
(***************************************************************************)
(* The sums of an invoice.                                                 *)
(***************************************************************************)
\* Lines as the program stores them.
Stored(lines) ==
  /\ IsFiniteSet(DOMAIN lines)
  /\ \A i \in DOMAIN lines : \E p \in Payloads : Allowed(p) /\ lines[i] = StoredLine(p)

LEMMA StoredAmounts ==
  ASSUME NEW lines, Stored(lines), NEW i \in DOMAIN lines
  PROVE  /\ lines[i].net \in Int /\ lines[i].vat \in Int /\ lines[i].gross \in Int
         /\ lines[i].gross = lines[i].net + lines[i].vat
<1>1. PICK p \in Payloads : Allowed(p) /\ lines[i] = StoredLine(p)
  BY DEF Stored
<1>2. lines[i] \in Line /\ LineRounded(lines[i])
  BY <1>1, StoredLineRounded
<1> QED
  BY <1>2 DEF LineRounded, Line

\* A part of the lines is added up as if the rest were not there.
LEMMA PartSum ==
  ASSUME NEW f, NEW at, IsFiniteSet(at), \A i \in at : f[i] \in Int
  PROVE  SumFunction([i \in at |-> f[i]]) = SumFunctionOnSet(f, at)
<1> DEFINE g == [i \in at |-> f[i]]
<1>1. DOMAIN g = at /\ \A i \in at : g[i] = f[i] /\ g[i] \in Int
  OBVIOUS
<1> HIDE DEF g
<1>2. SumFunctionOnSet(g, at) = SumFunctionOnSet(f, at)
  BY <1>1, SumSame
<1>3. SumFunction(g) = SumFunctionOnSet(f, at)
  BY <1>1, <1>2 DEF SumFunction
<1> QED
  BY <1>3 DEF g

\* The amounts of the lines, one function for each field.
Nets(lines) == [i \in DOMAIN lines |-> lines[i].net]
Vats(lines) == [i \in DOMAIN lines |-> lines[i].vat]
Grosses(lines) == [i \in DOMAIN lines |-> lines[i].gross]

LEMMA TotalsAre ==
  ASSUME NEW lines, Stored(lines), NEW at, at \subseteq DOMAIN lines
  PROVE  TotalsAt(lines, at) = [net   |-> SumFunctionOnSet(Nets(lines), at),
                                vat   |-> SumFunctionOnSet(Vats(lines), at),
                                gross |-> SumFunctionOnSet(Grosses(lines), at)]
<1>1. IsFiniteSet(at)
  BY FS_Subset DEF Stored
<1>2. /\ \A i \in at : Nets(lines)[i] = lines[i].net /\ Nets(lines)[i] \in Int
      /\ \A i \in at : Vats(lines)[i] = lines[i].vat /\ Vats(lines)[i] \in Int
      /\ \A i \in at : Grosses(lines)[i] = lines[i].gross /\ Grosses(lines)[i] \in Int
  BY StoredAmounts DEF Nets, Vats, Grosses
<1>3. /\ [i \in at |-> lines[i].net] = [i \in at |-> Nets(lines)[i]]
      /\ [i \in at |-> lines[i].vat] = [i \in at |-> Vats(lines)[i]]
      /\ [i \in at |-> lines[i].gross] = [i \in at |-> Grosses(lines)[i]]
  BY <1>2
<1>4. /\ SumFunction([i \in at |-> lines[i].net]) = SumFunctionOnSet(Nets(lines), at)
      /\ SumFunction([i \in at |-> lines[i].vat]) = SumFunctionOnSet(Vats(lines), at)
      /\ SumFunction([i \in at |-> lines[i].gross]) = SumFunctionOnSet(Grosses(lines), at)
  BY <1>1, <1>2, <1>3, PartSum
<1> QED
  BY <1>4 DEF TotalsAt

\* Gross totals are net and VAT totals together.
LEMMA GrossTotal ==
  ASSUME NEW lines, Stored(lines)
  PROVE  /\ Totals(lines).gross = SumFunctionOnSet(Nets(lines), DOMAIN lines)
                                    + SumFunctionOnSet(Vats(lines), DOMAIN lines)
<1>1. Totals(lines).gross = SumFunctionOnSet(Grosses(lines), DOMAIN lines)
  BY TotalsAre DEF Totals
<1>2. \A i \in DOMAIN lines :
        /\ Nets(lines)[i] \in Int /\ Vats(lines)[i] \in Int
        /\ Grosses(lines)[i] = Nets(lines)[i] + Vats(lines)[i]
  BY StoredAmounts DEF Nets, Vats, Grosses
<1>3. IsFiniteSet(DOMAIN lines)
  BY DEF Stored
<1> QED
  BY <1>1, <1>2, <1>3, SumPlus

\* Amounts added up by group come to the amounts of all lines.
LEMMA GroupsAddUp ==
  ASSUME NEW D, IsFiniteSet(D), NEW f, \A i \in D : f[i] \in Int, NEW group, NEW G,
         G = {group[i] : i \in D}, NEW total, ByGroup(total, G, f, D, group)
  PROVE  SumFunctionOnSet(total, G) = SumFunctionOnSet(f, D)
<1> DEFINE onto == [i \in D |-> group[i]]
<1>1. onto \in Surjection(D, G)
  BY DEF Surjection
<1>2. IsFiniteSet(G)
  <2> HIDE DEF onto
  <2> QED
    BY <1>1, FS_Surjection
<1>3. {i \in D : group[i] \in G} = D
  OBVIOUS
<1>4. SumFunctionOnSet(total, G) = SumFunctionOnSet(f, {i \in D : group[i] \in G})
  BY <1>2, SumByGroup
<1> QED
  BY <1>3, <1>4

\* The VAT summary tells the totals of the lines it was made of.
LEMMA SummaryAddsUp ==
  ASSUME NEW lines, Stored(lines), NEW field \in {"net", "vat", "gross"}
  PROVE  SumOver(Summary(lines), field) = Totals(lines)[field]
<1> DEFINE D == DOMAIN lines
           group == [i \in D |-> Group(lines[i])]
           G == {group[i] : i \in D}
           S == Summary(lines)
           total == [g \in DOMAIN S |-> S[g][field]]
           f == IF field = "net" THEN Nets(lines) ELSE
                IF field = "vat" THEN Vats(lines) ELSE Grosses(lines)
<1>1. IsFiniteSet(D) /\ \A i \in D : f[i] \in Int
  BY StoredAmounts DEF Stored, Nets, Vats, Grosses
<1>2. DOMAIN S = G /\ \A g \in G : S[g] = TotalsAt(lines, {i \in D : group[i] = g})
  <2>1. G = {Group(lines[i]) : i \in D}
    OBVIOUS
  <2>2. \A g \in G : {i \in D : group[i] = g} = {i \in D : Group(lines[i]) = g}
    OBVIOUS
  <2>3. S = [g \in G |-> TotalsAt(lines, {i \in D : Group(lines[i]) = g})]
    BY <2>1 DEF Summary
  <2> HIDE DEF G, group, S
  <2> QED
    BY <2>2, <2>3
<1>3. \A at \in SUBSET D : TotalsAt(lines, at)[field] = SumFunctionOnSet(f, at)
  <2> TAKE at \in SUBSET D
  <2>1. TotalsAt(lines, at) = [net   |-> SumFunctionOnSet(Nets(lines), at),
                               vat   |-> SumFunctionOnSet(Vats(lines), at),
                               gross |-> SumFunctionOnSet(Grosses(lines), at)]
    BY TotalsAre
  <2>2. CASE field = "net"
    BY <2>1, <2>2
  <2>3. CASE field = "vat"
    BY <2>1, <2>3
  <2>4. CASE field = "gross"
    BY <2>1, <2>4
  <2> QED
    BY <2>2, <2>3, <2>4
<1>4. DOMAIN total = G /\ ByGroup(total, G, f, D, group)
  <2>1. \A g \in G : {i \in D : group[i] = g} \in SUBSET D
    OBVIOUS
  <2> HIDE DEF G, group, S, f
  <2> QED
    BY <1>2, <1>3, <2>1 DEF ByGroup
<1>5. SumOver(S, field) = SumFunction(total)
  BY DEF SumOver
<1>6. Totals(lines)[field] = SumFunctionOnSet(f, D)
  <2> HIDE DEF f
  <2> QED
    BY <1>3 DEF Totals
<1>7. G = {group[i] : i \in D}
  OBVIOUS
<1> HIDE DEF total, f, S, group, G
<1>8. SumFunctionOnSet(total, G) = SumFunctionOnSet(f, D)
  BY <1>1, <1>4, <1>7, GroupsAddUp
<1>9. SumFunction(total) = SumFunctionOnSet(total, G)
  BY <1>4 DEF SumFunction
<1>10. SumOver(S, field) = Totals(lines)[field]
  BY <1>5, <1>6, <1>8, <1>9
<1> QED
  BY <1>10 DEF S

\* The P_13 fields, of which three have a P_14 field beside them, are finitely
\* many, and every code has one.
LEMMA FieldsFinite ==
  /\ IsFiniteSet(P13Fields) /\ IsFiniteSet(HasP14) /\ HasP14 \subseteq P13Fields
  /\ \A code : P13Field(code) \in P13Fields
<1> DEFINE names == <<"1", "2", "3", "6_1", "6_2", "6_3", "7", "8", "9", "10">>
<1>1. names \in [1..10 -> P13Fields]
  BY DEF P13Fields
<1>2. \A f \in P13Fields : \E n \in 1..10 : names[n] = f
  <2>1. /\ names[1] = "1" /\ names[2] = "2" /\ names[3] = "3" /\ names[4] = "6_1"
        /\ names[5] = "6_2" /\ names[6] = "6_3" /\ names[7] = "7" /\ names[8] = "8"
        /\ names[9] = "9" /\ names[10] = "10"
    OBVIOUS
  <2> HIDE DEF names
  <2> QED
    BY <2>1 DEF P13Fields
<1>3. names \in Surjection(1..10, P13Fields)
  <2> HIDE DEF names
  <2> QED
    BY <1>1, <1>2 DEF Surjection
<1>4. IsFiniteSet(1..10)
  <2>1. 1 \in Int /\ 10 \in Int
    OBVIOUS
  <2> QED
    BY <2>1, FS_Interval, Zenon
<1>5. IsFiniteSet(P13Fields)
  <2> HIDE DEF names
  <2> QED
    BY <1>3, <1>4, FS_Surjection
<1>6. HasP14 \subseteq P13Fields
  BY DEF HasP14, P13Fields
<1>7. \A code : P13Field(code) \in P13Fields
  BY DEF P13Field, P13Fields
<1> QED
  BY <1>5, <1>6, <1>7, FS_Subset

\* The fields of a document tell what their lines come to.
LEMMA FieldSums ==
  ASSUME NEW inv, Stored(inv.lines)
  PROVE  LET D == DOMAIN inv.lines
             Nm == [i \in D |-> P13Field(inv.lines[i].sent.code)]
         IN  /\ ByGroup(Fa3(inv).p13, P13Fields, Nets(inv.lines), D, Nm)
             /\ ByGroup(Fa3(inv).p14, HasP14, Vats(inv.lines), D, Nm)
<1> DEFINE D == DOMAIN inv.lines
           name == [i \in D |-> P13Field(inv.lines[i].sent.code)]
<1>1. \A f : InField(inv.lines, f) \subseteq D /\ InField(inv.lines, f) = {i \in D : name[i] = f}
  BY DEF InField
<1>2. \A f : /\ TotalsAt(inv.lines, InField(inv.lines, f)).net
                  = SumFunctionOnSet(Nets(inv.lines), InField(inv.lines, f))
             /\ TotalsAt(inv.lines, InField(inv.lines, f)).vat
                  = SumFunctionOnSet(Vats(inv.lines), InField(inv.lines, f))
  BY <1>1, TotalsAre
<1>3. /\ Fa3(inv).p13 = [f \in P13Fields |-> TotalsAt(inv.lines, InField(inv.lines, f)).net]
      /\ Fa3(inv).p14 = [f \in HasP14 |-> TotalsAt(inv.lines, InField(inv.lines, f)).vat]
  BY DEF Fa3
<1>4. /\ \A f \in P13Fields : Fa3(inv).p13[f]
           = SumFunctionOnSet(Nets(inv.lines), InField(inv.lines, f))
      /\ \A f \in HasP14 : Fa3(inv).p14[f]
           = SumFunctionOnSet(Vats(inv.lines), InField(inv.lines, f))
  BY <1>2, <1>3
<1> HIDE DEF name
<1>5. /\ ByGroup(Fa3(inv).p13, P13Fields, Nets(inv.lines), D, name)
      /\ ByGroup(Fa3(inv).p14, HasP14, Vats(inv.lines), D, name)
  BY <1>1, <1>4 DEF ByGroup
<1> QED
  BY <1>5 DEF name

\* A document of lines whose VAT has a field adds up to their gross total.
LEMMA DocumentAddsUp ==
  ASSUME NEW inv, Stored(inv.lines), TotalsFollow(inv),
         \A i \in DOMAIN inv.lines : P13Field(inv.lines[i].sent.code) \notin {"1", "2", "3"}
                                       => inv.lines[i].vat = 0
  PROVE  Fa3(inv).p15 = SumFunction(Fa3(inv).p13) + SumFunction(Fa3(inv).p14)
<1> DEFINE D == DOMAIN inv.lines
           N == Nets(inv.lines)
           V == Vats(inv.lines)
           name == [i \in D |-> P13Field(inv.lines[i].sent.code)]
           Named == {i \in D : name[i] \in HasP14}
           Rest == D \ Named
<1>1. IsFiniteSet(D) /\ (\A i \in D : N[i] \in Int) /\ (\A i \in D : V[i] \in Int)
  BY StoredAmounts DEF Stored, Nets, Vats
<1>2. /\ ByGroup(Fa3(inv).p13, P13Fields, N, D, name)
      /\ ByGroup(Fa3(inv).p14, HasP14, V, D, name)
  BY FieldSums
<1>3. DOMAIN Fa3(inv).p13 = P13Fields /\ DOMAIN Fa3(inv).p14 = HasP14
  BY DEF Fa3
<1>4. {i \in D : name[i] \in P13Fields} = D
  BY FieldsFinite
<1>5. \A i \in Rest : V[i] = 0
  BY DEF Vats, HasP14
<1>6. Fa3(inv).p15 = SumFunctionOnSet(N, D) + SumFunctionOnSet(V, D)
  BY GrossTotal DEF Fa3, TotalsFollow
<1>7. Named \subseteq D /\ Rest \subseteq D /\ D = Named \cup Rest /\ Named \cap Rest = {}
  OBVIOUS
<1>8. Named = {i \in D : name[i] \in HasP14}
  OBVIOUS
<1> HIDE DEF name, Named, Rest, N, V, D
<1>9. SumFunctionOnSet(Fa3(inv).p13, P13Fields) = SumFunctionOnSet(N, D)
  <2>1. SumFunctionOnSet(Fa3(inv).p13, P13Fields)
          = SumFunctionOnSet(N, {i \in D : name[i] \in P13Fields})
    BY <1>1, <1>2, FieldsFinite, SumByGroup
  <2> QED
    BY <1>4, <2>1
<1>10. SumFunctionOnSet(Fa3(inv).p14, HasP14) = SumFunctionOnSet(V, Named)
  <2>1. SumFunctionOnSet(Fa3(inv).p14, HasP14)
          = SumFunctionOnSet(V, {i \in D : name[i] \in HasP14})
    BY <1>1, <1>2, FieldsFinite, SumByGroup
  <2> QED
    BY <1>8, <2>1
<1>11. SumFunctionOnSet(V, D) = SumFunctionOnSet(V, Named)
  <2>1. IsFiniteSet(Named) /\ IsFiniteSet(Rest)
    BY <1>1, <1>7, FS_Subset
  <2>2. SumFunctionOnSet(V, Named \cup Rest)
          = SumFunctionOnSet(V, Named) + SumFunctionOnSet(V, Rest)
    BY <1>1, <1>7, <2>1, SumApart
  <2>3. SumFunctionOnSet(V, Rest) = 0
    BY <1>5, <2>1, SumZero
  <2>4. SumFunctionOnSet(V, Named) \in Int
    BY <1>1, <1>7, <2>1, SumRemove
  <2> QED
    BY <1>7, <2>2, <2>3, <2>4
<1> QED
  BY <1>3, <1>6, <1>9, <1>10, <1>11 DEF SumFunction

-----------------------------------------------------------------------------
(***************************************************************************)
(* The way back through the parser.                                        *)
(***************************************************************************)
LEMMA ParsedIs ==
  ASSUME NEW row
  PROVE  /\ Parsed(row).quantity = (IF row.quantity = 0 THEN One ELSE row.quantity)
         /\ Parsed(row).price = row.price
         /\ Parsed(row).percent = 0 /\ Parsed(row).discount = 0
         /\ Parsed(row).code = (IF row.p12 = "" THEN "23" ELSE row.p12)
         /\ Parsed(row).rate = Point * RateOf(row.p12)
         /\ Parsed(row).reverse = FALSE
BY DEF Parsed

\* A line of which the document tells everything is read back with the amounts
\* it was stored with.
LEMMA ReadBack ==
  ASSUME NEW p \in Payloads, Allowed(p), TellsAll(p),
         NEW q, q = Parsed([quantity |-> Quantized(p.quantity), price |-> Quantized(p.price),
                            p11 |-> Net(p), p12 |-> P12(p.code)])
  PROVE  Net(q) = Net(p) /\ Vat(q) = Vat(p)
<1> DEFINE told == [quantity |-> Quantized(p.quantity), price |-> Quantized(p.price),
                   p11 |-> Net(p), p12 |-> P12(p.code)]
<1>1. /\ q.quantity = p.quantity /\ q.price = p.price
      /\ q.percent = 0 /\ q.discount = 0 /\ q.reverse = FALSE
      /\ q.code = (IF P12(p.code) = "" THEN "23" ELSE P12(p.code))
      /\ q.rate = Point * RateOf(P12(p.code))
  <2>1. told.quantity = p.quantity /\ told.price = p.price /\ told.p12 = P12(p.code)
    BY DEF TellsAll
  <2>2. p.quantity # 0
    <3>1. p.quantity > 0 /\ p.quantity \in Int
      BY MoneyAssumption DEF Allowed
    <3> QED BY <3>1
  <2>3. q = Parsed(told)
    OBVIOUS
  <2> HIDE DEF told
  <2> QED
    BY <2>1, <2>2, <2>3, ParsedIs
<1>2. Net(q) = Net(p)
  <2>1. p.percent = 0 /\ p.discount = 0
    BY DEF TellsAll
  <2>2. BaseNet(q) = BaseNet(p)
    BY <1>1 DEF BaseNet
  <2>3. DiscountedNet(q) = DiscountedNet(p)
    BY <1>1, <2>1, <2>2 DEF DiscountedNet
  <2> QED
    BY <1>1, <2>1, <2>3 DEF Net
<1>3. /\ RateOf(P12(p.code)) = RateOf(p.code)
      /\ ~Exempt(q) /\ Exempt(p) => FALSE
      /\ Exempt(q) /\ ~Exempt(p) => RateOf(p.code) = 0
  BY <1>1 DEF TellsAll, KnownCodes, P12, RateOf, Exempt, ExemptCodes
<1>4. HalfUp(Net(p) * (Point * 0), 100 * Point) = 0
  <2>1. Net(p) \in Nat /\ Point \in Nat \ {0} /\ 100 * Point \in Nat \ {0}
    BY NetRounded, MoneyAssumption
  <2>2. 0 * (100 * Point) = Net(p) * (Point * 0)
    BY <2>1, SMT
  <2> QED
    BY <2>1, <2>2, HalfUpExact
<1>5. q.rate = p.rate
  BY <1>1, <1>3 DEF TellsAll
<1>6. p.rate = Point * RateOf(p.code)
  BY DEF TellsAll
<1> QED
  BY <1>2, <1>3, <1>4, <1>5, <1>6 DEF Vat

-----------------------------------------------------------------------------
(***************************************************************************)
(* Every stored line is the line of an allowed payload, the header and the *)
(* summary come from one list of lines, the document is that of the        *)
(* approved invoice, and the copy that of the document.                    *)
(***************************************************************************)
SheetShape ==
  /\ sheet = [status |-> sheet.status, lines |-> sheet.lines,
              header |-> sheet.header, summary |-> sheet.summary]
  /\ sheet.status \in {"none", "draft", "approved"}
  /\ copy.status \in {"none", "draft"}

\* Only an approval writes the document, and nothing edits the invoice later.
DocumentTrue == document = NoDocument \/ (sheet.status = "approved" /\ document = Fa3(sheet))

CopyTrue ==
  copy.status # "none" =>
    /\ document # NoDocument
    /\ copy = Created([i \in DOMAIN document.rows |-> Parsed(document.rows[i])])

MoneyInv ==
  /\ SheetShape
  /\ Stored(sheet.lines)
  /\ HeaderMatchesSummary
  /\ DocumentTrue
  /\ CopyTrue

\* Nothing is stored of nothing.
LEMMA NothingStored == Stored(<<>>)
<1>1. DOMAIN <<>> = {}
  OBVIOUS
<1> QED
  BY <1>1, FS_EmptySet DEF Stored

\* What CreateInvoice and UpdateLines store.
LEMMA StoresAllowed ==
  ASSUME NEW ps \in LinesSent, \A i \in DOMAIN ps : Allowed(ps[i])
  PROVE  Stored(StoredLines(ps))
<1>1. PICK n \in 0..MaxLines : ps \in [1..n -> Payloads]
  BY DEF LinesSent
<1>2. DOMAIN StoredLines(ps) = 1..n /\ \A i \in 1..n : StoredLines(ps)[i] = StoredLine(ps[i])
  BY <1>1 DEF StoredLines
<1>3. IsFiniteSet(1..n)
  <2>1. 1 \in Int /\ n \in Int
    BY <1>1
  <2> QED
    BY <2>1, FS_Interval, Zenon
<1> QED
  BY <1>1, <1>2, <1>3 DEF Stored

\* A header and a summary made of the same stored lines match.
LEMMA Matches ==
  ASSUME NEW lines, Stored(lines), sheet'.header = Totals(lines), sheet'.summary = Summary(lines)
  PROVE  HeaderMatchesSummary'
BY SummaryAddsUp DEF HeaderMatchesSummary

LEMMA MoneyInitHolds == MoneyInit => MoneyInv
<1> SUFFICES ASSUME MoneyInit PROVE MoneyInv
  OBVIOUS
<1>1. SheetShape /\ Stored(sheet.lines)
  BY NothingStored DEF MoneyInit, Blank, SheetShape
<1>2. sheet.header = Totals(<<>>) /\ sheet.summary = Summary(<<>>)
  BY DEF MoneyInit, Blank
<1>3. HeaderMatchesSummary
  BY <1>2, NothingStored, SummaryAddsUp DEF HeaderMatchesSummary
<1>4. DocumentTrue /\ CopyTrue
  BY DEF MoneyInit, Blank, DocumentTrue, CopyTrue
<1> QED
  BY <1>1, <1>3, <1>4 DEF MoneyInv

\* A draft has no document, so an edit of it makes none wrong.
LEMMA DraftEdited ==
  ASSUME MoneyInv, sheet.status # "approved", UNCHANGED <<document, copy>>
  PROVE  DocumentTrue' /\ CopyTrue'
BY DEF MoneyInv, DocumentTrue, CopyTrue

LEMMA MoneyStep ==
  ASSUME MoneyInv, [MoneyNext]_moneyVars
  PROVE  MoneyInv'
<1> USE DEF MoneyInv
<1>1. ASSUME NEW ps \in LinesSent, CreateInvoice(ps) PROVE MoneyInv'
  <2>1. Stored(StoredLines(ps))
    BY <1>1, StoresAllowed DEF CreateInvoice
  <2>2. SheetShape' /\ Stored(sheet.lines)'
    BY <1>1, <2>1 DEF CreateInvoice, Created, SheetShape
  <2>3. HeaderMatchesSummary'
    BY <1>1, <2>1, Matches DEF CreateInvoice, Created
  <2>4. DocumentTrue' /\ CopyTrue'
    BY <1>1, DraftEdited DEF CreateInvoice
  <2> QED
    BY <2>2, <2>3, <2>4
<1>2. ASSUME NEW ps \in LinesSent, UpdateLines(ps) PROVE MoneyInv'
  <2>1. Stored(StoredLines(ps))
    BY <1>2, StoresAllowed DEF UpdateLines
  <2>2. /\ sheet'.lines = StoredLines(ps) /\ sheet'.status = sheet.status
        /\ sheet'.header = Totals(sheet.lines) /\ sheet'.summary = Summary(sheet.lines)
        /\ SheetShape'
    BY <1>2 DEF UpdateLines, SheetShape
  <2>3. HeaderMatchesSummary'
    BY <2>2, Matches
  <2>4. DocumentTrue' /\ CopyTrue'
    BY <1>2, DraftEdited DEF UpdateLines
  <2> QED
    BY <2>1, <2>2, <2>3, <2>4
<1>3. CASE UpdateOther
  <2>1. /\ sheet'.lines = sheet.lines
        /\ sheet'.header = Totals(sheet.lines) /\ sheet'.summary = Summary(sheet.lines)
        /\ SheetShape'
    BY <1>3 DEF UpdateOther, SheetShape
  <2>2. HeaderMatchesSummary'
    BY <2>1, Matches
  <2>3. DocumentTrue' /\ CopyTrue'
    BY <1>3, DraftEdited DEF UpdateOther
  <2> QED
    BY <2>1, <2>2, <2>3
<1>4. CASE Approve
  <2>1. /\ sheet'.lines = sheet.lines /\ sheet'.header = sheet.header
        /\ sheet'.summary = sheet.summary /\ sheet'.status = "approved"
        /\ SheetShape'
    BY <1>4 DEF Approve, SheetShape
  <2>2. HeaderMatchesSummary'
    BY <2>1 DEF HeaderMatchesSummary
  <2>3. Fa3(sheet') = Fa3(sheet)
    BY <2>1 DEF Fa3
  <2>4. document' = Fa3(sheet) /\ copy' = copy
    BY <1>4 DEF Approve
  <2>5. DocumentTrue'
    BY <2>1, <2>3, <2>4 DEF DocumentTrue
  <2>6. copy.status = "none"
    BY <1>4 DEF Approve, DocumentTrue, CopyTrue
  <2> QED
    BY <2>1, <2>2, <2>4, <2>5, <2>6 DEF CopyTrue
<1>5. CASE ImportDocument
  <2>1. /\ document # NoDocument
        /\ copy' = Created([i \in DOMAIN document.rows |-> Parsed(document.rows[i])])
        /\ UNCHANGED <<sheet, document>>
    BY <1>5 DEF ImportDocument, NoDocument
  <2>2. SheetShape' /\ Stored(sheet.lines)' /\ HeaderMatchesSummary' /\ DocumentTrue'
    BY <2>1 DEF SheetShape, Created, HeaderMatchesSummary, DocumentTrue
  <2>3. CopyTrue'
    BY <2>1 DEF CopyTrue
  <2> QED
    BY <2>2, <2>3
<1>6. CASE UNCHANGED moneyVars
  BY <1>6 DEF moneyVars, SheetShape, Stored, HeaderMatchesSummary, DocumentTrue, CopyTrue
<1> QED
  BY <1>1, <1>2, <1>3, <1>4, <1>5, <1>6 DEF MoneyNext

LEMMA MoneyInvHolds == MoneySpec => []MoneyInv
BY MoneyInitHolds, MoneyStep, PTL DEF MoneySpec

-----------------------------------------------------------------------------
\* Amounts are whole grosze and never negative: an absolute discount never
\* takes a line below zero (invoice_service.py:595).
THEOREM MoneyTypeCorrect == MoneySpec => []MoneyTypeOK
<1>1. MoneyInv => MoneyTypeOK
  <2> SUFFICES ASSUME MoneyInv, NEW i \in DOMAIN sheet.lines
               PROVE  sheet.lines[i] \in Line
    BY DEF MoneyInv, SheetShape, MoneyTypeOK
  <2> QED BY StoredLineRounded DEF MoneyInv, Stored
<1> QED BY <1>1, MoneyInvHolds, PTL

\* Whatever is sent and however often it is edited, every stored line is within
\* its roundings of the exact amounts (invoice_service.py:595).
THEOREM EveryLineRounded == MoneySpec => []LinesRounded
<1>1. MoneyInv => LinesRounded
  <2> SUFFICES ASSUME MoneyInv, NEW i \in DOMAIN sheet.lines
               PROVE  LineRounded(sheet.lines[i])
    BY DEF LinesRounded
  <2> QED BY StoredLineRounded DEF MoneyInv, Stored
<1> QED BY <1>1, MoneyInvHolds, PTL

\* For any number of lines, codes and rates, the VAT summary adds up to the
\* header (invoice_service.py:640, 651).
THEOREM HeaderIsSummed == MoneySpec => []HeaderMatchesSummary
<1>1. MoneyInv => HeaderMatchesSummary
  BY DEF MoneyInv
<1> QED BY <1>1, MoneyInvHolds, PTL

\* For any lines whose VAT has a field, the P_13 and P_14 fields add up to P_15
\* when the header shows the lines (invoice_service.py:740).
THEOREM DocumentIsSummed == MoneySpec => []DocumentBalances
<1>1. MoneyInv => DocumentBalances
  <2> SUFFICES ASSUME MoneyInv, document.rows # <<>>, TotalsFollow(sheet),
                      \A i \in DOMAIN sheet.lines :
                        P13Field(sheet.lines[i].sent.code) \notin {"1", "2", "3"}
                          => sheet.lines[i].vat = 0
               PROVE  document.p15 = SumFunction(document.p13) + SumFunction(document.p14)
    BY DEF DocumentBalances
  <2>1. document = Fa3(sheet)
    BY DEF MoneyInv, DocumentTrue, NoDocument
  <2> QED BY <2>1, DocumentAddsUp DEF MoneyInv
<1> QED BY <1>1, MoneyInvHolds, PTL

\* Whatever the amounts, an import of the document comes to the same totals
\* unless the document does not tell what they depend on
\* (ksef_xml_parser.py:139).
THEOREM CopyIsTrue == MoneySpec => []CopyKeepsAmounts
<1>1. MoneyInv => CopyKeepsAmounts
  <2> DEFINE L == sheet.lines
             rows == document.rows
             read == [i \in DOMAIN rows |-> Parsed(rows[i])]
             M == StoredLines(read)
  <2> SUFFICES ASSUME MoneyInv, copy.status # "none", \A i \in DOMAIN L : TellsAll(L[i].sent)
               PROVE  copy.header = Totals(L)
    BY DEF CopyKeepsAmounts
  <2>1. document = Fa3(sheet) /\ copy.header = Totals(M)
    BY DEF MoneyInv, DocumentTrue, CopyTrue, Created
  <2>2. /\ DOMAIN rows = DOMAIN L
        /\ \A i \in DOMAIN L : rows[i] = [quantity |-> L[i].quantity, price |-> L[i].price,
                                          p11 |-> L[i].net, p12 |-> P12(L[i].sent.code)]
    BY <2>1 DEF Fa3
  <2> HIDE DEF rows
  <2>3. DOMAIN M = DOMAIN L /\ \A i \in DOMAIN L : M[i] = StoredLine(Parsed(rows[i]))
    BY <2>2 DEF StoredLines
  <2> HIDE DEF M, read
  <2>4. \A i \in DOMAIN L : M[i].net = L[i].net /\ M[i].vat = L[i].vat /\ M[i].gross = L[i].gross
    <3> SUFFICES ASSUME NEW i \in DOMAIN L
                 PROVE  M[i].net = L[i].net /\ M[i].vat = L[i].vat /\ M[i].gross = L[i].gross
      OBVIOUS
    <3>1. PICK p \in Payloads : Allowed(p) /\ L[i] = StoredLine(p)
      BY DEF MoneyInv, Stored
    <3>2. /\ L[i].quantity = Quantized(p.quantity) /\ L[i].price = Quantized(p.price)
          /\ L[i].sent = p /\ L[i].net = Net(p) /\ L[i].vat = Vat(p)
          /\ L[i].gross = Net(p) + Vat(p)
      BY <3>1 DEF StoredLine
    <3>3. TellsAll(p)
      BY <3>2
    <3> DEFINE q == Parsed(rows[i])
    <3>4. q = Parsed([quantity |-> Quantized(p.quantity), price |-> Quantized(p.price),
                      p11 |-> Net(p), p12 |-> P12(p.code)])
      BY <2>2, <3>2
    <3> HIDE DEF q
    <3>5. Net(q) = Net(p) /\ Vat(q) = Vat(p)
      BY <3>1, <3>3, <3>4, ReadBack
    <3>6. M[i] = StoredLine(q)
      BY <2>3 DEF q
    <3>7. M[i].net = Net(q) /\ M[i].vat = Vat(q) /\ M[i].gross = Net(q) + Vat(q)
      BY <3>6 DEF StoredLine
    <3> QED
      BY <3>2, <3>5, <3>7
  <2>5. TotalsAt(M, DOMAIN L) = TotalsAt(L, DOMAIN L)
    <3>1. /\ [i \in DOMAIN L |-> M[i].net] = [i \in DOMAIN L |-> L[i].net]
          /\ [i \in DOMAIN L |-> M[i].vat] = [i \in DOMAIN L |-> L[i].vat]
          /\ [i \in DOMAIN L |-> M[i].gross] = [i \in DOMAIN L |-> L[i].gross]
      BY <2>4
    <3> QED
      BY <3>1 DEF TotalsAt
  <2> QED
    BY <2>1, <2>3, <2>5 DEF Totals
<1> QED BY <1>1, MoneyInvHolds, PTL

=============================================================================
