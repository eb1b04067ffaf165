--------------------------- MODULE IntRanges_proofs ---------------------------
(***************************************************************************)
(* Proofs about the integer rules, for types of every width, every range   *)
(* and every value: where a value is not wrapped it is the right one, and  *)
(* ranges hold what is computed.                                           *)
(***************************************************************************)
EXTENDS IntRanges, TLAPS

\* What is used of a type: an even number of values (it is 2^w).
Types == {t \in [w : Nat, s : BOOLEAN, m : Nat] : t.m > 0 /\ t.m = 2 * (t.m \div 2)}
Ranges == {Unknown} \cup (Int \X Int)
Holds(r, v) == r = Unknown \/ (r[1] <= v /\ v <= r[2])

\* x and y have the same low bits.
Congruent(x, y, m) == x % m = y % m

-----------------------------------------------------------------------------
(* Division *)

\* What \div and % mean.
LEMMA DivMod ==
  ASSUME NEW a \in Int, NEW m \in Nat, m > 0
  PROVE  /\ a \div m \in Int /\ a % m \in Int
         /\ a = ((a \div m) * m) + (a % m) /\ 0 <= a % m /\ a % m < m
  OBVIOUS

\* There is one quotient and one remainder.
LEMMA DivModUnique ==
  ASSUME NEW a \in Int, NEW m \in Nat, m > 0, NEW q \in Int, NEW r \in Int,
         a = (q * m) + r, 0 <= r, r < m
  PROVE  a \div m = q /\ a % m = r
  OBVIOUS

\* The low bits of a number that has no others, and of a small negative one.
LEMMA SmallMod ==
  ASSUME NEW u \in Int, NEW m \in Nat, m > 0, -m <= u, u < m
  PROVE  u % m = IF u >= 0 THEN u ELSE u + m
<1>1. CASE u >= 0
  <2>1. u = (0 * m) + u
    OBVIOUS
  <2>2. QED
    BY <1>1, <2>1
<1>2. CASE u < 0
  <2>1. PICK r \in Int : r = u + m
    OBVIOUS
  <2>2. u = ((-1) * m) + r /\ 0 <= r /\ r < m
    BY <1>2, <2>1
  <2>3. u % m = r
    BY <2>1, <2>2
  <2>4. QED
    BY <1>2, <2>1, <2>3
<1>3. QED
  BY <1>1, <1>2

\* Adding multiples of m keeps the low bits.
LEMMA CongruentIf ==
  ASSUME NEW x \in Int, NEW y \in Int, NEW k \in Int, NEW m \in Nat, m > 0, x = y + (k * m)
  PROVE  Congruent(x, y, m)
<1>1. y = ((y \div m) * m) + (y % m) /\ 0 <= y % m /\ y % m < m /\ y \div m \in Int /\ y % m \in Int
  BY DivMod
<1>2. PICK q \in Int, r \in Int : y = (q * m) + r /\ 0 <= r /\ r < m /\ r = y % m
  BY <1>1
<1>3. PICK p \in Int : p = q + k
  OBVIOUS
<1>4. p * m = (q * m) + (k * m)
  BY <1>3
<1>5. x = (p * m) + r
  BY <1>2, <1>4
<1>6. x % m = r
  BY <1>2, <1>5
<1>7. QED
  BY <1>2, <1>6 DEF Congruent

\* Numbers with the same low bits differ by a multiple of m.
LEMMA CongruentOnly ==
  ASSUME NEW x \in Int, NEW y \in Int, NEW m \in Nat, m > 0, Congruent(x, y, m)
  PROVE  \E k \in Int : x = y + (k * m)
<1>1. /\ x = ((x \div m) * m) + (x % m) /\ y = ((y \div m) * m) + (y % m)
      /\ x \div m \in Int /\ y \div m \in Int /\ x % m = y % m /\ x % m \in Int
  BY DivMod DEF Congruent
<1>2. PICK p \in Int, q \in Int, r \in Int : x = (p * m) + r /\ y = (q * m) + r
  BY <1>1
<1>3. PICK k \in Int : k = p - q
  OBVIOUS
<1>4. k * m = (p * m) - (q * m)
  BY <1>3
<1>5. x = y + (k * m)
  BY <1>2, <1>4
<1>6. QED
  BY <1>5

-----------------------------------------------------------------------------
(* Types *)

\* The values of a type.
LEMMA TypeFacts ==
  ASSUME NEW t \in Types
  PROVE  /\ t.m \in Nat /\ t.m > 0 /\ t.s \in BOOLEAN
         /\ t.m \div 2 \in Nat /\ t.m \div 2 > 0 /\ t.m = 2 * (t.m \div 2)
         /\ Lowest(t) \in Int /\ Highest(t) \in Int /\ Lowest(t) <= 0 /\ 0 <= Highest(t)
         /\ Highest(t) - Lowest(t) = t.m - 1
  BY DEF Types, Lowest, Highest

\* The same, with names for its numbers.
LEMMA TypeNumbers ==
  ASSUME NEW t \in Types
  PROVE  \E m \in Nat, h \in Nat : /\ m = t.m /\ m = 2 * h /\ h > 0 /\ m > 0
                                   /\ Lowest(t) = (IF t.s THEN -h ELSE 0)
                                   /\ Highest(t) = (IF t.s THEN h - 1 ELSE m - 1)
  BY DEF Types, Lowest, Highest

\* A number that t can hold is read back from its low bits.
LEMMA LowBits ==
  ASSUME NEW t \in Types, NEW u \in Int, Lowest(t) <= u, u <= Highest(t)
  PROVE  Convert(u, t) = u
<1>1. PICK m \in Nat, h \in Nat : /\ m = t.m /\ m = 2 * h /\ h > 0 /\ m > 0
                                  /\ Lowest(t) = (IF t.s THEN -h ELSE 0)
                                  /\ Highest(t) = (IF t.s THEN h - 1 ELSE m - 1)
  BY TypeNumbers
<1>2. -m <= u /\ u < m /\ (u > Highest(t) <=> FALSE) /\ (u < 0 => u + m > Highest(t))
  BY <1>1
<1>3. u % m = IF u >= 0 THEN u ELSE u + m
  <2>1. m > 0 /\ -m <= u /\ u < m
    BY <1>1, <1>2
  <2>2. QED
    BY <2>1, SmallMod
<1>4. Convert(u, t) = IF u % m > Highest(t) THEN (u % m) - m ELSE u % m
  BY <1>1 DEF Convert
<1>5. CASE u >= 0
  BY <1>2, <1>3, <1>4, <1>5
<1>6. CASE u < 0
  BY <1>2, <1>3, <1>4, <1>6
<1>7. QED
  BY <1>5, <1>6

\* Conversion looks at the low bits only.
LEMMA ConvertCongruent ==
  ASSUME NEW t \in Types, NEW v \in Int, NEW u \in Int, Congruent(u, v, t.m)
  PROVE  Convert(u, t) = Convert(v, t)
  BY DEF Convert, Congruent

\* Conversion gives a value of the type with the same low bits.
LEMMA ConvertFacts ==
  ASSUME NEW t \in Types, NEW v \in Int
  PROVE  /\ Convert(v, t) \in Int /\ Congruent(Convert(v, t), v, t.m)
         /\ Lowest(t) <= Convert(v, t) /\ Convert(v, t) <= Highest(t)
<1>1. PICK m \in Nat, h \in Nat : /\ m = t.m /\ m = 2 * h /\ h > 0 /\ m > 0
                                  /\ Lowest(t) = (IF t.s THEN -h ELSE 0)
                                  /\ Highest(t) = (IF t.s THEN h - 1 ELSE m - 1)
  BY TypeNumbers
<1>2. m > 0
  BY <1>1
<1>3. v = ((v \div m) * m) + (v % m) /\ v \div m \in Int /\ v % m \in Int /\ 0 <= v % m /\ v % m < m
  BY <1>2
<1>4. PICK q \in Int, r \in Int : r = v % m /\ v = (q * m) + r /\ 0 <= r /\ r < m
  BY <1>3
<1>5. Convert(v, t) = IF r > Highest(t) THEN r - m ELSE r
  BY <1>1, <1>4 DEF Convert
<1>6. Congruent(v, r, m)
  <2>1. v = r + (q * m)
    BY <1>4
  <2>2. QED
    BY <1>2, <2>1, CongruentIf
<1>7. Congruent(v, r - m, m)
  <2>1. PICK p \in Int : p = q + 1
    OBVIOUS
  <2>2. p * m = (q * m) + m
    BY <2>1
  <2>3. PICK u \in Int : u = r - m
    OBVIOUS
  <2>4. v = u + (p * m)
    BY <1>4, <2>2, <2>3
  <2>5. Congruent(v, u, m)
    BY <1>2, <2>4, CongruentIf
  <2>6. QED
    BY <2>3, <2>5
<1>8. CASE r <= Highest(t)
  <2>1. Convert(v, t) = r
    BY <1>1, <1>5, <1>8
  <2>2. Lowest(t) <= r
    BY <1>1, <1>4
  <2>3. QED
    BY <1>1, <1>6, <1>8, <2>1, <2>2 DEF Congruent
<1>9. CASE r > Highest(t)
  <2>1. Convert(v, t) = r - m
    BY <1>5, <1>9
  <2>2. Lowest(t) <= r - m /\ r - m <= Highest(t) /\ r - m \in Int
    BY <1>1, <1>4, <1>9
  <2>3. QED
    BY <1>1, <1>7, <2>1, <2>2 DEF Congruent
<1>10. QED
  <2>1. Highest(t) \in Int
    BY TypeFacts
  <2>2. QED
    BY <1>4, <1>8, <1>9, <2>1

-----------------------------------------------------------------------------
(* The ring operators *)

\* The low bits of a sum, a difference and a product depend on the low bits of
\* the operands only.
LEMMA RingCongruent ==
  ASSUME NEW m \in Nat, m > 0, NEW a \in Int, NEW b \in Int, NEW x \in Int, NEW y \in Int,
         Congruent(x, a, m), Congruent(y, b, m)
  PROVE  Congruent(x + y, a + b, m) /\ Congruent(x - y, a - b, m) /\ Congruent(x * y, a * b, m)
<1>1. PICK k \in Int : x = a + (k * m)
  BY CongruentOnly
<1>2. PICK l \in Int : y = b + (l * m)
  BY CongruentOnly
<1>3. Congruent(x + y, a + b, m)
  <2>1. PICK p \in Int : p = k + l
    OBVIOUS
  <2>2. p * m = (k * m) + (l * m)
    BY <2>1
  <2>3. PICK u \in Int, v \in Int : u = x + y /\ v = a + b
    OBVIOUS
  <2>4. u = v + (p * m)
    BY <1>1, <1>2, <2>2, <2>3
  <2>5. QED
    BY <2>3, <2>4, CongruentIf
<1>4. Congruent(x - y, a - b, m)
  <2>1. PICK p \in Int : p = k - l
    OBVIOUS
  <2>2. p * m = (k * m) - (l * m)
    BY <2>1
  <2>3. PICK u \in Int, v \in Int : u = x - y /\ v = a - b
    OBVIOUS
  <2>4. u = v + (p * m)
    BY <1>1, <1>2, <2>2, <2>3
  <2>5. QED
    BY <2>3, <2>4, CongruentIf
<1>5. Congruent(x * y, a * b, m)
  <2>1. PICK p \in Int : p = (k * b) + (a * l) + (k * l * m)
    OBVIOUS
  <2>2. x * y = (a * b) + (p * m)
    BY <1>1, <1>2, <2>1
  <2>3. PICK u \in Int, v \in Int : u = x * y /\ v = a * b
    OBVIOUS
  <2>4. u = v + (p * m)
    BY <2>2, <2>3
  <2>5. QED
    BY <2>3, <2>4, CongruentIf
<1>6. QED
  BY <1>3, <1>4, <1>5

-----------------------------------------------------------------------------
(* Ranges *)

\* Some of up to four numbers is the least, and some the greatest.
LEMMA FourExtremes ==
  ASSUME NEW p \in Int, NEW q \in Int, NEW r \in Int, NEW s \in Int
  PROVE  /\ MinOf({p, q, r, s}) \in {p, q, r, s} /\ MaxOf({p, q, r, s}) \in {p, q, r, s}
         /\ \A v \in {p, q, r, s} : MinOf({p, q, r, s}) <= v /\ v <= MaxOf({p, q, r, s})
<1> DEFINE S == {p, q, r, s}
<1>1. \E l \in S : \A y \in S : l <= y
  OBVIOUS
<1>2. \E h \in S : \A y \in S : h >= y
  OBVIOUS
<1>3. MinOf(S) \in S /\ \A y \in S : MinOf(S) <= y
  BY <1>1 DEF MinOf
<1>4. MaxOf(S) \in S /\ \A y \in S : MaxOf(S) >= y
  BY <1>2 DEF MaxOf
<1>5. QED
  BY <1>3, <1>4

\* A product lies between those at the ends of a factor's range.
LEMMA Between ==
  ASSUME NEW c \in Int, NEW lo \in Int, NEW hi \in Int, NEW y \in Int, lo <= y, y <= hi
  PROVE  \/ c * lo <= c * y /\ c * y <= c * hi
         \/ c * hi <= c * y /\ c * y <= c * lo
<1>1. PICK d \in Nat, e \in Nat : d = y - lo /\ e = hi - y
  OBVIOUS
<1>2. c * y = (c * lo) + (c * d) /\ c * hi = (c * y) + (c * e)
  BY <1>1
<1>3. CASE c >= 0
  <2>1. c * d >= 0 /\ c * e >= 0
    BY <1>3
  <2>2. QED
    BY <1>2, <2>1
<1>4. CASE c < 0
  <2>1. c * d <= 0 /\ c * e <= 0
    BY <1>4
  <2>2. QED
    BY <1>2, <2>1
<1>5. QED
  BY <1>3, <1>4

\* A product is bounded by the products of the ends of its factors' ranges.
LEMMA ProductBounds ==
  ASSUME NEW a1 \in Int, NEW a2 \in Int, NEW b1 \in Int, NEW b2 \in Int,
         NEW x \in Int, a1 <= x, x <= a2, NEW y \in Int, b1 <= y, y <= b2
  PROVE  /\ \E p \in {a1 * b1, a1 * b2, a2 * b1, a2 * b2} : p <= x * y
         /\ \E p \in {a1 * b1, a1 * b2, a2 * b1, a2 * b2} : x * y <= p
<1>1. \/ y * a1 <= y * x /\ y * x <= y * a2
      \/ y * a2 <= y * x /\ y * x <= y * a1
  BY Between
<1>2. \/ a1 * b1 <= a1 * y /\ a1 * y <= a1 * b2
      \/ a1 * b2 <= a1 * y /\ a1 * y <= a1 * b1
  BY Between
<1>3. \/ a2 * b1 <= a2 * y /\ a2 * y <= a2 * b2
      \/ a2 * b2 <= a2 * y /\ a2 * y <= a2 * b1
  BY Between
<1>4. y * a1 = a1 * y /\ y * a2 = a2 * y /\ y * x = x * y
  OBVIOUS
<1>5. PICK p11 \in Int, p12 \in Int, p21 \in Int, p22 \in Int, u1 \in Int, u2 \in Int, w \in Int :
        /\ p11 = a1 * b1 /\ p12 = a1 * b2 /\ p21 = a2 * b1 /\ p22 = a2 * b2
        /\ u1 = a1 * y /\ u2 = a2 * y /\ w = x * y
  OBVIOUS
<1>6. /\ (u1 <= w /\ w <= u2) \/ (u2 <= w /\ w <= u1)
      /\ (p11 <= u1 /\ u1 <= p12) \/ (p12 <= u1 /\ u1 <= p11)
      /\ (p21 <= u2 /\ u2 <= p22) \/ (p22 <= u2 /\ u2 <= p21)
  BY <1>1, <1>2, <1>3, <1>4, <1>5
<1>7. /\ \E p \in {p11, p12, p21, p22} : p <= w
      /\ \E p \in {p11, p12, p21, p22} : w <= p
  BY <1>6
<1>8. QED
  BY <1>5, <1>7

\* The hull of up to four numbers holds what lies between two of them.
LEMMA HullHolds ==
  ASSUME NEW p \in Int, NEW q \in Int, NEW r \in Int, NEW s \in Int, NEW v \in Int,
         \E l \in {p, q, r, s} : l <= v, \E h \in {p, q, r, s} : v <= h
  PROVE  Hull({p, q, r, s}) \in Ranges /\ Holds(Hull({p, q, r, s}), v)
<1>1. /\ MinOf({p, q, r, s}) \in {p, q, r, s} /\ MaxOf({p, q, r, s}) \in {p, q, r, s}
      /\ \A u \in {p, q, r, s} : MinOf({p, q, r, s}) <= u /\ u <= MaxOf({p, q, r, s})
  BY FourExtremes
<1>2. PICK l \in Int, h \in Int : l = MinOf({p, q, r, s}) /\ h = MaxOf({p, q, r, s})
  BY <1>1
<1>3. l <= v /\ v <= h
  BY <1>1, <1>2
<1>4. Hull({p, q, r, s}) = <<l, h>>
  BY <1>2 DEF Hull
<1>5. QED
  BY <1>3, <1>4 DEF Ranges, Holds

\* The corners of two ranges are four numbers.
LEMMA CornersAre ==
  ASSUME NEW op, NEW a \in Int \X Int, NEW b \in Int \X Int
  PROVE  Corners(op, a, b) = Hull({Arith(op, a[1], b[1]), Arith(op, a[1], b[2]),
                                   Arith(op, a[2], b[1]), Arith(op, a[2], b[2])})
<1>1. {Arith(op, x, y) : x \in {a[1], a[2]}, y \in {b[1], b[2]}} =
         {Arith(op, a[1], b[1]), Arith(op, a[1], b[2]), Arith(op, a[2], b[1]), Arith(op, a[2], b[2])}
  OBVIOUS
<1>2. QED
  BY <1>1 DEF Corners

\* The corners of two ranges hold the sum, the difference and the product.
LEMMA RingCorners ==
  ASSUME NEW op \in {"add", "sub", "mul"}, NEW a \in Int \X Int, NEW b \in Int \X Int,
         NEW x \in Int, NEW y \in Int, Holds(a, x), Holds(b, y)
  PROVE  Corners(op, a, b) \in Ranges /\ Holds(Corners(op, a, b), Arith(op, x, y))
<1>1. PICK a1 \in Int, a2 \in Int, b1 \in Int, b2 \in Int : a = <<a1, a2>> /\ b = <<b1, b2>>
  OBVIOUS
<1>2. a1 <= x /\ x <= a2 /\ b1 <= y /\ y <= b2
  BY <1>1 DEF Holds, Unknown
<1>3. Corners(op, a, b) = Hull({Arith(op, a1, b1), Arith(op, a1, b2), Arith(op, a2, b1), Arith(op, a2, b2)})
  BY <1>1, CornersAre
<1>4. CASE op = "add"
  <2>1. \A u, v \in Int : Arith(op, u, v) = u + v
    BY <1>4 DEF Arith
  <2>2. Corners(op, a, b) = Hull({a1 + b1, a1 + b2, a2 + b1, a2 + b2})
    BY <1>3, <2>1
  <2>3. a1 + b1 <= x + y /\ x + y <= a2 + b2
    BY <1>2
  <2>4. PICK p \in Int, q \in Int, r \in Int, s \in Int, v \in Int :
          p = a1 + b1 /\ q = a1 + b2 /\ r = a2 + b1 /\ s = a2 + b2 /\ v = x + y
    OBVIOUS
  <2>5. (\E l \in {p, q, r, s} : l <= v) /\ (\E h \in {p, q, r, s} : v <= h)
    BY <2>3, <2>4
  <2>6. Hull({p, q, r, s}) \in Ranges /\ Holds(Hull({p, q, r, s}), v)
    BY <2>5, HullHolds
  <2>7. QED
    BY <2>1, <2>2, <2>4, <2>6
<1>5. CASE op = "sub"
  <2>1. \A u, v \in Int : Arith(op, u, v) = u - v
    BY <1>5 DEF Arith
  <2>2. Corners(op, a, b) = Hull({a1 - b1, a1 - b2, a2 - b1, a2 - b2})
    BY <1>3, <2>1
  <2>3. a1 - b2 <= x - y /\ x - y <= a2 - b1
    BY <1>2
  <2>4. PICK p \in Int, q \in Int, r \in Int, s \in Int, v \in Int :
          p = a1 - b1 /\ q = a1 - b2 /\ r = a2 - b1 /\ s = a2 - b2 /\ v = x - y
    OBVIOUS
  <2>5. (\E l \in {p, q, r, s} : l <= v) /\ (\E h \in {p, q, r, s} : v <= h)
    BY <2>3, <2>4
  <2>6. Hull({p, q, r, s}) \in Ranges /\ Holds(Hull({p, q, r, s}), v)
    BY <2>5, HullHolds
  <2>7. QED
    BY <2>1, <2>2, <2>4, <2>6
<1>6. CASE op = "mul"
  <2>1. \A u, v \in Int : Arith(op, u, v) = u * v
    BY <1>6 DEF Arith
  <2>2. Corners(op, a, b) = Hull({a1 * b1, a1 * b2, a2 * b1, a2 * b2})
    BY <1>3, <2>1
  <2>3. /\ \E p \in {a1 * b1, a1 * b2, a2 * b1, a2 * b2} : p <= x * y
        /\ \E p \in {a1 * b1, a1 * b2, a2 * b1, a2 * b2} : x * y <= p
    BY <1>2, ProductBounds
  <2>4. PICK p \in Int, q \in Int, r \in Int, s \in Int, v \in Int :
          p = a1 * b1 /\ q = a1 * b2 /\ r = a2 * b1 /\ s = a2 * b2 /\ v = x * y
    OBVIOUS
  <2>5. (\E l \in {p, q, r, s} : l <= v) /\ (\E h \in {p, q, r, s} : v <= h)
    BY <2>3, <2>4
  <2>6. Hull({p, q, r, s}) \in Ranges /\ Holds(Hull({p, q, r, s}), v)
    BY <2>5, HullHolds
  <2>7. QED
    BY <2>1, <2>2, <2>4, <2>6
<1>7. QED
  BY <1>4, <1>5, <1>6

-----------------------------------------------------------------------------
(* Shifts and divisions *)

\* Division by a positive number keeps the order, and moves toward zero or -1.
LEMMA DivOrder ==
  ASSUME NEW x \in Int, NEW y \in Int, NEW p \in Nat, p > 0
  PROVE  /\ x \div p \in Int
         /\ x <= y => x \div p <= y \div p
         /\ x >= 0 => 0 <= x \div p /\ x \div p <= x
         /\ x < 0 => x <= x \div p /\ x \div p < 0
<1>1. PICK q \in Int, r \in Int : q = x \div p /\ x = (q * p) + r /\ 0 <= r /\ r < p
  BY DivMod
<1>2. PICK k \in Int, l \in Int : k = y \div p /\ y = (k * p) + l /\ 0 <= l /\ l < p
  BY DivMod
<1>3. x <= y => q <= k
  <2>1. SUFFICES ASSUME x <= y, q > k PROVE FALSE
    OBVIOUS
  <2>2. PICK d \in Nat : q = k + 1 + d
    BY <2>1
  <2>3. q * p = (k * p) + p + (d * p) /\ d * p >= 0
    BY <2>2
  <2>4. QED
    BY <1>1, <1>2, <2>1, <2>3
<1>4. x >= 0 => 0 <= q /\ q <= x
  <2>1. SUFFICES ASSUME x >= 0 PROVE 0 <= q /\ q <= x
    OBVIOUS
  <2>2. q >= 0
    <3>1. SUFFICES ASSUME q <= -1 PROVE FALSE
      OBVIOUS
    <3>2. q * p <= -p
      BY <3>1
    <3>3. QED
      BY <1>1, <2>1, <3>2
  <2>3. q * p >= q
    BY <2>2
  <2>4. QED
    BY <1>1, <2>2, <2>3
<1>5. x < 0 => x <= q /\ q < 0
  <2>1. SUFFICES ASSUME x < 0 PROVE x <= q /\ q < 0
    OBVIOUS
  <2>2. q < 0
    <3>1. SUFFICES ASSUME q >= 0 PROVE FALSE
      OBVIOUS
    <3>2. q * p >= 0
      BY <3>1
    <3>3. QED
      BY <1>1, <2>1, <3>2
  <2>3. PICK n \in Nat, d \in Nat : q = -n - 1 /\ p = d + 1
    BY <2>2
  <2>4. q * p = q - (n * d) - d /\ n * d >= 0
    BY <2>3
  <2>5. QED
    BY <1>1, <2>2, <2>3, <2>4
<1>6. QED
  BY <1>1, <1>2, <1>3, <1>4, <1>5

\* The range of a left shift by a constant holds what is shifted.
LEMMA ShlCorners ==
  ASSUME NEW a \in Int \X Int, NEW x \in Int, Holds(a, x), NEW n \in Nat, 2^n \in Nat, 2^n > 0
  PROVE  /\ Corners("shl", a, <<n, n>>) \in Ranges
         /\ Holds(Corners("shl", a, <<n, n>>), Arith("shl", x, n))
<1>1. PICK a1 \in Int, a2 \in Int, p \in Nat : a = <<a1, a2>> /\ p = 2^n /\ p > 0
  OBVIOUS
<1>2. a1 <= x /\ x <= a2
  BY <1>1 DEF Holds, Unknown
<1>3. \A u \in Int : Arith("shl", u, n) = u * p
  BY <1>1 DEF Arith
<1>4. Corners("shl", a, <<n, n>>) = Hull({Arith("shl", a1, n), Arith("shl", a1, n),
                                          Arith("shl", a2, n), Arith("shl", a2, n)})
  BY <1>1, CornersAre
<1>5. PICK q \in Int, r \in Int, v \in Int : q = a1 * p /\ r = a2 * p /\ v = x * p
  OBVIOUS
<1>6. q <= v /\ v <= r
  <2>1. PICK d \in Nat, e \in Nat : x = a1 + d /\ a2 = x + e
    <3>1. x - a1 \in Nat /\ a2 - x \in Nat /\ x = a1 + (x - a1) /\ a2 = x + (a2 - x)
      BY <1>2
    <3>2. QED
      BY <3>1
  <2>2. x * p = (a1 * p) + (d * p) /\ a2 * p = (x * p) + (e * p) /\ d * p >= 0 /\ e * p >= 0
    BY <2>1
  <2>3. QED
    BY <1>5, <2>2
<1>7. Hull({q, q, r, r}) \in Ranges /\ Holds(Hull({q, q, r, r}), v)
  BY <1>6, HullHolds
<1>8. QED
  BY <1>3, <1>4, <1>5, <1>7

\* The range of a right shift by a constant holds what is shifted.
LEMMA ShrCorners ==
  ASSUME NEW a \in Int \X Int, NEW x \in Int, Holds(a, x), NEW n \in Nat, 2^n \in Nat, 2^n > 0
  PROVE  /\ Corners("shr", a, <<n, n>>) \in Ranges
         /\ Holds(Corners("shr", a, <<n, n>>), Arith("shr", x, n))
<1>1. PICK a1 \in Int, a2 \in Int, p \in Nat : a = <<a1, a2>> /\ p = 2^n /\ p > 0
  OBVIOUS
<1>2. a1 <= x /\ x <= a2
  BY <1>1 DEF Holds, Unknown
<1>3. \A u \in Int : Arith("shr", u, n) = u \div p
  BY <1>1 DEF Arith
<1>4. Corners("shr", a, <<n, n>>) = Hull({Arith("shr", a1, n), Arith("shr", a1, n),
                                          Arith("shr", a2, n), Arith("shr", a2, n)})
  BY <1>1, CornersAre
<1>5. a1 \div p \in Int /\ a2 \div p \in Int /\ x \div p \in Int
  BY <1>1, DivOrder
<1>6. PICK q \in Int, r \in Int, v \in Int : q = a1 \div p /\ r = a2 \div p /\ v = x \div p
  BY <1>5
<1>7. q <= v /\ v <= r
  BY <1>1, <1>2, <1>6, DivOrder
<1>8. Hull({q, q, r, r}) \in Ranges /\ Holds(Hull({q, q, r, r}), v)
  BY <1>7, HullHolds
<1>9. QED
  BY <1>3, <1>4, <1>6, <1>8

\* A number between 0 and one of a range lies in the hull of the range and 0.
LEMMA TowardZero ==
  ASSUME NEW a \in Int \X Int, NEW x \in Int, Holds(a, x), NEW v \in Int,
         x >= 0 => 0 <= v /\ v <= x, x < 0 => x <= v /\ v <= 0
  PROVE  Hull({a[1], a[2], 0}) \in Ranges /\ Holds(Hull({a[1], a[2], 0}), v)
<1>1. PICK a1 \in Int, a2 \in Int, z \in Int : a = <<a1, a2>> /\ z = 0
  OBVIOUS
<1>2. a1 <= x /\ x <= a2
  BY <1>1 DEF Holds, Unknown
<1>3. (\E l \in {a1, a2, z, z} : l <= v) /\ (\E h \in {a1, a2, z, z} : v <= h)
  BY <1>1, <1>2
<1>4. Hull({a1, a2, z, z}) \in Ranges /\ Holds(Hull({a1, a2, z, z}), v)
  BY <1>3, HullHolds
<1>5. {a[1], a[2], 0} = {a1, a2, z, z}
  BY <1>1
<1>6. QED
  BY <1>4, <1>5

\* The range of a right shift by any amount.
LEMMA ShrHull ==
  ASSUME NEW a \in Int \X Int, NEW x \in Int, Holds(a, x), NEW n \in Nat, 2^n \in Nat, 2^n > 0
  PROVE  /\ Hull({a[1], a[2], 0}) \in Ranges
         /\ Holds(Hull({a[1], a[2], 0}), Arith("shr", x, n))
<1>1. PICK p \in Nat : p = 2^n /\ p > 0
  OBVIOUS
<1>2. /\ x \div p \in Int /\ (x >= 0 => 0 <= x \div p /\ x \div p <= x)
      /\ (x < 0 => x <= x \div p /\ x \div p <= 0)
  BY <1>1, DivOrder
<1>3. Hull({a[1], a[2], 0}) \in Ranges /\ Holds(Hull({a[1], a[2], 0}), x \div p)
  BY <1>2, TowardZero
<1>4. QED
  BY <1>1, <1>3 DEF Arith

\* What / and % of the language give: |x / y| <= |x|, a remainder has the sign of
\* x and at most its size, and only division by 1 or -1 keeps the size.
LEMMA QuotientFacts ==
  ASSUME NEW x \in Int, NEW y \in Int, y # 0
  PROVE  /\ Quotient(x, y) \in Int
         /\ -Size(x) <= Quotient(x, y) /\ Quotient(x, y) <= Size(x)
         /\ x >= 0 /\ y > 0 => /\ Quotient(x, y) = x \div y /\ Quotient(x, y) >= 0
                               /\ x - (y * Quotient(x, y)) = x % y
         /\ y = 1 => Quotient(x, y) = x
         /\ y \notin {1, -1} => /\ 2 * Quotient(x, y) <= Size(x)
                                /\ -Size(x) <= 2 * Quotient(x, y)
         /\ x - (y * Quotient(x, y)) \in Int
         /\ x >= 0 => 0 <= x - (y * Quotient(x, y)) /\ x - (y * Quotient(x, y)) <= x
         /\ x < 0 => x <= x - (y * Quotient(x, y)) /\ x - (y * Quotient(x, y)) <= 0
<1>1. PICK n \in Nat, d \in Nat : n = Size(x) /\ d = Size(y) /\ d > 0
  BY DEF Size
<1>2. PICK q \in Int, r \in Int : /\ q = n \div d /\ r = n % d
                                  /\ n = (q * d) + r /\ 0 <= r /\ r < d
  <2>1. d > 0
    BY <1>1
  <2>2. /\ n \div d \in Int /\ n % d \in Int
        /\ n = ((n \div d) * d) + (n % d) /\ 0 <= n % d /\ n % d < d
    BY <2>1, DivMod
  <2>3. QED
    BY <2>2
<1>3. 0 <= q /\ q <= n
  <2>1. d > 0 /\ n >= 0 /\ n \in Int
    BY <1>1
  <2>2. 0 <= n \div d /\ n \div d <= n
    BY <2>1, DivOrder
  <2>3. QED
    BY <1>2, <2>2
<1>4. Quotient(x, y) = IF (x < 0) # (y < 0) THEN -q ELSE q
  BY <1>1, <1>2 DEF Quotient
<1>5. /\ x = (IF x < 0 THEN -n ELSE n) /\ y = (IF y < 0 THEN -d ELSE d)
  BY <1>1 DEF Size
<1>6. PICK k \in Int : k = q * d /\ 0 <= k /\ k <= n
  <2>1. q * d >= 0
    BY <1>3
  <2>2. QED
    BY <1>2, <2>1
<1>7. y * Quotient(x, y) = IF x < 0 THEN -k ELSE k
  BY <1>4, <1>5, <1>6
<1>8. d >= 2 => 2 * q <= n
  <2>1. SUFFICES ASSUME d >= 2 PROVE 2 * q <= n
    OBVIOUS
  <2>2. PICK e \in Nat : d = e + 2
    <3>1. d - 2 \in Nat /\ d = (d - 2) + 2
      BY <2>1
    <3>2. QED
      BY <3>1
  <2>3. q * d = (q * e) + (2 * q) /\ q * e >= 0
    BY <1>3, <2>2
  <2>4. QED
    BY <1>6, <2>3
<1>9. d = 1 => q = n
  BY <1>2
<1>10. QED
  <2>1. PICK z \in Int : z = Quotient(x, y) /\ z = (IF (x < 0) # (y < 0) THEN -q ELSE q)
    BY <1>4
  <2>2. -n <= z /\ z <= n
    BY <1>3, <2>1
  <2>3. x >= 0 /\ y > 0 => z = q /\ x = n /\ y = d
    BY <1>5, <2>1
  <2>4. x >= 0 /\ y > 0 => /\ Quotient(x, y) = x \div y /\ Quotient(x, y) >= 0
                           /\ x - (y * Quotient(x, y)) = x % y
    <3>1. SUFFICES ASSUME x >= 0, y > 0
                   PROVE  /\ Quotient(x, y) = x \div y /\ Quotient(x, y) >= 0
                          /\ x - (y * Quotient(x, y)) = x % y
      OBVIOUS
    <3>2. z = q /\ x = n /\ y = d
      BY <2>3, <3>1
    <3>3. x \div y = q /\ x % y = r /\ y * Quotient(x, y) = k /\ n = k + r
      BY <1>2, <1>6, <1>7, <3>1, <3>2
    <3>4. QED
      BY <1>3, <2>1, <3>2, <3>3
  <2>5. y = 1 => z = x
    BY <1>5, <1>9, <2>1
  <2>6. y \notin {1, -1} => 2 * z <= n /\ -n <= 2 * z
    BY <1>1, <1>3, <1>5, <1>8, <2>1
  <2>7. PICK w \in Int : /\ w = x - (y * Quotient(x, y))
                         /\ w = IF x < 0 THEN x + k ELSE x - k
    BY <1>7
  <2>8. (x >= 0 => 0 <= w /\ w <= x) /\ (x < 0 => x <= w /\ w <= 0)
    BY <1>5, <1>6, <2>7
  <2>9. QED
    BY <1>1, <2>1, <2>2, <2>4, <2>5, <2>6, <2>7, <2>8

\* A quotient lies in the hull of the range, its negation and 0.
LEMMA QuotientHull ==
  ASSUME NEW a \in Int \X Int, NEW x \in Int, Holds(a, x), NEW v \in Int,
         -Size(x) <= v, v <= Size(x)
  PROVE  /\ MinOf({a[1], -a[2], 0}) \in Int /\ MinOf({a[1], -a[2], 0}) <= v
         /\ MaxOf({a[2], -a[1], 0}) \in Int /\ v <= MaxOf({a[2], -a[1], 0})
<1>1. PICK a1 \in Int, a2 \in Int, n1 \in Int, n2 \in Int, z \in Int :
        a = <<a1, a2>> /\ n1 = -a1 /\ n2 = -a2 /\ z = 0
  <2>1. a[1] \in Int /\ a[2] \in Int /\ a = <<a[1], a[2]>> /\ -a[1] \in Int /\ -a[2] \in Int
    OBVIOUS
  <2>2. QED
    BY <2>1
<1>2. a1 <= x /\ x <= a2
  BY <1>1 DEF Holds, Unknown
<1>3. /\ MinOf({a1, n2, z, z}) \in {a1, n2, z, z} /\ MaxOf({a1, n2, z, z}) \in {a1, n2, z, z}
      /\ \A u \in {a1, n2, z, z} : MinOf({a1, n2, z, z}) <= u /\ u <= MaxOf({a1, n2, z, z})
  BY FourExtremes
<1>4. /\ MinOf({a2, n1, z, z}) \in {a2, n1, z, z} /\ MaxOf({a2, n1, z, z}) \in {a2, n1, z, z}
      /\ \A u \in {a2, n1, z, z} : MinOf({a2, n1, z, z}) <= u /\ u <= MaxOf({a2, n1, z, z})
  BY FourExtremes
<1>5. {a[1], -a[2], 0} = {a1, n2, z, z} /\ {a[2], -a[1], 0} = {a2, n1, z, z}
  BY <1>1
<1>6. (a1 <= -Size(x) \/ n2 <= -Size(x)) /\ (Size(x) <= a2 \/ Size(x) <= n1) /\ Size(x) \in Int
  BY <1>1, <1>2 DEF Size
<1>7. PICK l \in Int, h \in Int : l = MinOf({a1, n2, z, z}) /\ h = MaxOf({a2, n1, z, z})
  BY <1>3, <1>4
<1>8. l <= v /\ v <= h
  BY <1>3, <1>4, <1>6, <1>7
<1>9. QED
  BY <1>5, <1>7, <1>8

\* The one quotient that the type cannot hold is Lowest / -1.
LEMMA QuotientFits ==
  ASSUME NEW t \in Types, NEW x \in Int, Lowest(t) <= x, x <= Highest(t),
         NEW y \in Int, Lowest(t) <= y, y # 0, ~(x = Lowest(t) /\ y = -1)
  PROVE  Lowest(t) <= Quotient(x, y) /\ Quotient(x, y) <= Highest(t)
<1>1. PICK m \in Nat, h \in Nat : /\ m = t.m /\ m = 2 * h /\ h > 0 /\ m > 0
                                  /\ Lowest(t) = (IF t.s THEN -h ELSE 0)
                                  /\ Highest(t) = (IF t.s THEN h - 1 ELSE m - 1)
  BY TypeNumbers
<1> DEFINE q == Quotient(x, y)
           n == Size(x)
<1>2. /\ q \in Int /\ -n <= q /\ q <= n
      /\ x >= 0 /\ y > 0 => q >= 0
      /\ y = 1 => q = x
      /\ y \notin {1, -1} => 2 * q <= n
  BY QuotientFacts
<1>3. n \in Int /\ n = IF x < 0 THEN -x ELSE x
  BY DEF Size
<1> HIDE DEF q, n
<1>4. Lowest(t) <= q /\ q <= Highest(t)
  <2>1. CASE ~t.s
    <3>1. x >= 0 /\ y > 0
      BY <1>1, <2>1
    <3>2. QED
      BY <1>1, <1>2, <1>3, <2>1, <3>1
  <2>2. CASE t.s
    <3>1. n <= h
      BY <1>1, <1>3, <2>2
    <3>2. CASE y \notin {1, -1}
      <4>1. 2 * q <= n /\ q \in Int /\ -n <= q
        BY <1>2, <3>2
      <4>2. q <= h - 1 /\ -h <= q
        BY <1>1, <1>3, <3>1, <4>1
      <4>3. QED
        BY <1>1, <2>2, <4>2
    <3>3. CASE y = 1
      BY <1>2, <3>3
    <3>4. CASE y = -1
      BY <1>1, <1>2, <1>3, <2>2, <3>4
    <3>5. QED
      BY <3>2, <3>3, <3>4
  <2>3. QED
    BY <2>1, <2>2
<1>5. QED
  BY <1>4 DEF q

\* The range of a quotient or a remainder holds it.
LEMMA DivHolds ==
  ASSUME NEW t \in Types, NEW op \in {"div", "mod"}, NEW a \in Int \X Int, NEW b \in Int \X Int,
         NEW x \in Int, NEW y \in Int, Holds(a, x), Holds(b, y), Within(a, t), Within(b, t), y # 0
  PROVE  DivRange(op, a, b, t) \in Ranges /\ Holds(DivRange(op, a, b, t), Arith(op, x, y))
<1>1. CASE op = "mod"
  <2>1. /\ x - (y * Quotient(x, y)) \in Int
        /\ x >= 0 => 0 <= x - (y * Quotient(x, y)) /\ x - (y * Quotient(x, y)) <= x
        /\ x < 0 => x <= x - (y * Quotient(x, y)) /\ x - (y * Quotient(x, y)) <= 0
    BY QuotientFacts
  <2>2. PICK v \in Int : v = x - (y * Quotient(x, y))
    BY <2>1
  <2>3. Hull({a[1], a[2], 0}) \in Ranges /\ Holds(Hull({a[1], a[2], 0}), v)
    BY <2>1, <2>2, TowardZero
  <2>4. DivRange(op, a, b, t) = Hull({a[1], a[2], 0}) /\ Arith(op, x, y) = v
    BY <1>1, <2>2 DEF DivRange, Arith
  <2>5. QED
    BY <2>3, <2>4
<1>2. CASE op = "div"
  <2> DEFINE lo == MinOf({a[1], -a[2], 0})
             hi == MaxOf({a[2], -a[1], 0})
  <2>1. PICK v \in Int : v = Quotient(x, y) /\ -Size(x) <= v /\ v <= Size(x) /\ Arith(op, x, y) = v
    BY <1>2, QuotientFacts DEF Arith
  <2>2. lo \in Int /\ lo <= v /\ hi \in Int /\ v <= hi
    BY <2>1, QuotientHull
  <2>3. CASE a[1] > Lowest(t) \/ b[1] > -1 \/ b[2] < -1
    <3>1. /\ Lowest(t) \in Int /\ Highest(t) \in Int
      BY TypeFacts
    <3>2. a[1] <= x /\ x <= a[2] /\ b[1] <= y /\ y <= b[2] /\ Lowest(t) <= a[1] /\ a[2] <= Highest(t)
          /\ Lowest(t) <= b[1] /\ a[1] \in Int /\ a[2] \in Int /\ b[1] \in Int /\ b[2] \in Int
      BY DEF Holds, Within, Unknown
    <3>3. Lowest(t) <= x /\ x <= Highest(t) /\ Lowest(t) <= y /\ ~(x = Lowest(t) /\ y = -1)
      BY <2>3, <3>1, <3>2
    <3>4. Lowest(t) <= v /\ v <= Highest(t)
      BY <2>1, <3>3, QuotientFits
    <3>5. DivRange(op, a, b, t) = <<MaxOf({lo, Lowest(t)}), MinOf({hi, Highest(t)})>>
      BY <1>2, <2>3 DEF DivRange
    <3>6. PICK p \in Int, q \in Int, l \in Int, h \in Int :
             p = lo /\ q = Lowest(t) /\ l = hi /\ h = Highest(t)
      BY <2>2, <3>1
    <3>7. MaxOf({p, q, q, q}) \in {p, q, q, q} /\ MinOf({l, h, h, h}) \in {l, h, h, h}
      BY FourExtremes
    <3>8. {lo, Lowest(t)} = {p, q, q, q} /\ {hi, Highest(t)} = {l, h, h, h}
      BY <3>6
    <3>9. PICK f \in Int, g \in Int : f = MaxOf({lo, Lowest(t)}) /\ g = MinOf({hi, Highest(t)})
      BY <3>7, <3>8
    <3>10. f <= v /\ v <= g
      BY <2>2, <3>4, <3>6, <3>7, <3>8, <3>9
    <3>11. DivRange(op, a, b, t) = <<f, g>>
      BY <3>5, <3>9
    <3>12. QED
      BY <2>1, <3>10, <3>11 DEF Ranges, Holds
  <2>4. CASE ~(a[1] > Lowest(t) \/ b[1] > -1 \/ b[2] < -1)
    <3>1. DivRange(op, a, b, t) = <<lo, hi>>
      BY <1>2, <2>4 DEF DivRange
    <3>2. QED
      BY <2>1, <2>2, <3>1 DEF Ranges, Holds
  <2>5. QED
    BY <2>3, <2>4
<1>3. QED
  BY <1>1, <1>2

-----------------------------------------------------------------------------
(* Operations *)

RingArith  == {"add", "sub", "mul", "shl"}
ExactArith == {"div", "mod", "shr"}

\* The operands of an operation at t: x and y in the ranges a and b, bk the
\* constant of the second if it is one.  Those of a division and what is shifted
\* right are values of t; an amount is legal, and so is a divisor.  (That 2^y is
\* a positive number is said because the provers have no theory of powers.)
Operands(t, op, x, a, y, b, bk) ==
    /\ x \in Int /\ a \in Ranges /\ Holds(a, x)
    /\ y \in Int /\ b \in Ranges /\ Holds(b, y)
    /\ bk \in {<<>>, <<y>>}
    /\ op \in ExactArith => Within(a, t)
    /\ op \in {"div", "mod"} => Within(b, t) /\ y # 0
    /\ op \in {"shl", "shr"} => y >= 0 /\ 2^y \in Nat \ {0}

\* The range that _int_bin computes for an operation holds its result, whatever
\* the operands in their ranges are: nothing that is left unwrapped because of it
\* can be outside.
THEOREM RangesHold ==
  ASSUME NEW t \in Types, NEW op \in RingArith \cup ExactArith,
         NEW x, NEW a, NEW y, NEW b, NEW bk, Operands(t, op, x, a, y, b, bk)
  PROVE  /\ Arith(op, x, y) \in Int
         /\ ArithRange(op, a, b, bk, t) \in Ranges
         /\ Holds(ArithRange(op, a, b, bk, t), Arith(op, x, y))
<1>1. /\ x \in Int /\ a \in Ranges /\ Holds(a, x) /\ y \in Int /\ b \in Ranges /\ Holds(b, y)
      /\ (a = Unknown \/ a \in Int \X Int) /\ (b = Unknown \/ b \in Int \X Int)
  BY DEF Operands, Ranges
<1>2. Unknown \in Ranges /\ \A v : Holds(Unknown, v)
  BY DEF Ranges, Holds
<1>3. CASE op \in {"add", "sub", "mul"}
  <2>1. Arith(op, x, y) \in Int
    BY <1>1, <1>3 DEF Arith
  <2>2. ArithRange(op, a, b, bk, t) = IF a = Unknown \/ b = Unknown THEN Unknown ELSE Corners(op, a, b)
    BY <1>3 DEF ArithRange
  <2>3. CASE a = Unknown \/ b = Unknown
    BY <1>2, <2>1, <2>2, <2>3
  <2>4. CASE ~(a = Unknown \/ b = Unknown)
    <3>1. a \in Int \X Int /\ b \in Int \X Int
      BY <1>1, <2>4
    <3>2. Corners(op, a, b) \in Ranges /\ Holds(Corners(op, a, b), Arith(op, x, y))
      BY <1>1, <1>3, <3>1, RingCorners
    <3>3. QED
      BY <2>1, <2>2, <2>4, <3>2
  <2>5. QED
    BY <2>3, <2>4
<1>4. CASE op \in {"div", "mod"}
  <2>1. a \in Int \X Int /\ b \in Int \X Int /\ Within(a, t) /\ Within(b, t) /\ y # 0
    BY <1>1, <1>4 DEF Operands, ExactArith, Within
  <2>2. Arith(op, x, y) \in Int
    BY <1>1, <1>4, <2>1, QuotientFacts DEF Arith
  <2>3. ArithRange(op, a, b, bk, t) = DivRange(op, a, b, t)
    BY <1>4 DEF ArithRange
  <2>4. DivRange(op, a, b, t) \in Ranges /\ Holds(DivRange(op, a, b, t), Arith(op, x, y))
    BY <1>1, <1>4, <2>1, DivHolds
  <2>5. QED
    BY <2>2, <2>3, <2>4
<1>5. CASE op \in {"shl", "shr"}
  <2>1. y \in Nat /\ 2^y \in Nat /\ 2^y > 0 /\ bk \in {<<>>, <<y>>}
    BY <1>1, <1>5 DEF Operands
  <2>2. PICK p \in Nat : p = 2^y /\ p > 0
    BY <2>1
  <2>3. bk # <<>> => bk = <<y>> /\ bk[1] = y /\ bk[1] >= 0
    BY <2>1
  <2>4. CASE op = "shl"
    <3>1. Arith(op, x, y) \in Int
      BY <1>1, <2>2, <2>4 DEF Arith
    <3>2. CASE a # Unknown /\ bk # <<>>
      <4>1. ArithRange(op, a, b, bk, t) = Corners("shl", a, <<y, y>>)
        BY <2>3, <2>4, <3>2 DEF ArithRange
      <4>2. /\ Corners("shl", a, <<y, y>>) \in Ranges
            /\ Holds(Corners("shl", a, <<y, y>>), Arith("shl", x, y))
        BY <1>1, <2>1, <3>2, ShlCorners
      <4>3. QED
        BY <2>4, <3>1, <4>1, <4>2
    <3>3. CASE ~(a # Unknown /\ bk # <<>>)
      <4>1. ArithRange(op, a, b, bk, t) = Unknown
        BY <2>4, <3>3 DEF ArithRange
      <4>2. QED
        BY <1>2, <3>1, <4>1
    <3>4. QED
      BY <3>2, <3>3
  <2>5. CASE op = "shr"
    <3>1. a \in Int \X Int
      BY <1>1, <2>5 DEF Operands, ExactArith, Within
    <3>2. Arith(op, x, y) = x \div p
      BY <2>2, <2>5 DEF Arith
    <3>3. x \div p \in Int
      BY <1>1, <2>2, DivOrder
    <3>4. CASE bk # <<>>
      <4>1. ArithRange(op, a, b, bk, t) = Corners("shr", a, <<y, y>>)
        BY <2>3, <2>5, <3>4 DEF ArithRange
      <4>2. /\ Corners("shr", a, <<y, y>>) \in Ranges
            /\ Holds(Corners("shr", a, <<y, y>>), Arith("shr", x, y))
        BY <1>1, <2>1, <3>1, ShrCorners
      <4>3. QED
        BY <2>5, <3>2, <3>3, <4>1, <4>2
    <3>5. CASE bk = <<>>
      <4>1. ArithRange(op, a, b, bk, t) = Hull({a[1], a[2], 0})
        BY <2>5, <3>5 DEF ArithRange
      <4>2. Hull({a[1], a[2], 0}) \in Ranges /\ Holds(Hull({a[1], a[2], 0}), Arith("shr", x, y))
        BY <1>1, <2>1, <3>1, ShrHull
      <4>3. QED
        BY <2>5, <3>2, <3>3, <4>1, <4>2
    <3>6. QED
      BY <3>4, <3>5
  <2>6. QED
    BY <1>5, <2>4, <2>5
<1>6. QED
  BY <1>3, <1>4, <1>5 DEF RingArith, ExactArith

\* _fit, on values: v is wrapped into t unless its range r is inside.
Fitted(v, r, t) == IF Within(r, t) THEN v ELSE Convert(v, t)

\* A value that has the low bits of e is, fitted, e converted to the type: the
\* wrap that is not emitted would have changed nothing.
THEOREM WrapsAreEnough ==
  ASSUME NEW t \in Types, NEW e \in Int, NEW v \in Int, Congruent(v, e, t.m),
         NEW r \in Ranges, Holds(r, v)
  PROVE  Fitted(v, r, t) = Convert(e, t)
<1>1. Convert(v, t) = Convert(e, t)
  BY ConvertCongruent
<1>2. CASE Within(r, t)
  <2>1. r \in Int \X Int /\ r[1] \in Int /\ r[2] \in Int
    BY <1>2 DEF Within, Ranges
  <2>2. r[1] <= v /\ v <= r[2] /\ Lowest(t) <= r[1] /\ r[2] <= Highest(t)
    BY <1>2 DEF Within, Holds
  <2>3. Lowest(t) <= v /\ v <= Highest(t)
    BY <2>1, <2>2, TypeFacts
  <2>4. Convert(v, t) = v
    BY <2>3, LowBits
  <2>5. QED
    BY <1>1, <1>2, <2>4 DEF Fitted
<1>3. CASE ~Within(r, t)
  BY <1>1, <1>3 DEF Fitted
<1>4. QED
  BY <1>2, <1>3

\* The operators + - * << may take operands that are right in their low bits only
\* (_RING_BIN): their result is right in its low bits.
LEMMA RingStep ==
  ASSUME NEW t \in Types, NEW op \in RingArith,
         NEW x \in Int, NEW e \in Int, Congruent(x, e, t.m),
         NEW y \in Int, NEW f \in Int, Congruent(y, f, t.m),
         op = "shl" => y = f /\ 2^y \in Nat
  PROVE  Arith(op, e, f) \in Int /\ Congruent(Arith(op, x, y), Arith(op, e, f), t.m)
<1>1. t.m \in Nat /\ t.m > 0
  BY TypeFacts
<1>2. PICK m \in Nat : m = t.m /\ m > 0 /\ Congruent(x, e, m) /\ Congruent(y, f, m)
  BY <1>1
<1>3. /\ Congruent(x + y, e + f, m) /\ Congruent(x - y, e - f, m) /\ Congruent(x * y, e * f, m)
  BY <1>2, RingCongruent
<1>4. CASE op \in {"add", "sub", "mul"}
  BY <1>2, <1>3, <1>4 DEF Arith
<1>5. CASE op = "shl"
  <2>1. PICK p \in Nat : p = 2^y /\ y = f
    BY <1>5
  <2>2. Congruent(p, p, m)
    BY DEF Congruent
  <2>3. Congruent(x * p, e * p, m)
    BY <1>2, <2>2, RingCongruent
  <2>4. Arith(op, x, y) = x * p /\ Arith(op, e, f) = e * p
    BY <1>5, <2>1 DEF Arith
  <2>5. QED
    BY <1>2, <2>3, <2>4
<1>6. QED
  BY <1>4, <1>5 DEF RingArith

\* Operands that stand for e and f, values of the language: exactly, or for the
\* ring operators in their low bits (an amount always exactly).
StandFor(t, op, x, e, y, f) ==
    /\ e \in Int /\ f \in Int
    /\ Congruent(x, e, t.m) /\ Congruent(y, f, t.m)
    /\ op \in ExactArith => x = e
    /\ op \notin {"add", "sub", "mul"} => y = f

\* One operation, rendered: computed on unbounded integers and wrapped only where
\* the range says so, it gives what the operation carried out at t means - for
\* operands that are themselves left unwrapped where the rules leave them so.
\* With it the meaning of an expression follows operation by operation.
THEOREM OperationMeans ==
  ASSUME NEW t \in Types, NEW op \in RingArith \cup ExactArith,
         NEW x, NEW a, NEW y, NEW b, NEW bk, NEW e, NEW f,
         Operands(t, op, x, a, y, b, bk), StandFor(t, op, x, e, y, f)
  PROVE  /\ Congruent(Arith(op, x, y), Arith(op, e, f), t.m)
         /\ Fitted(Arith(op, x, y), ArithRange(op, a, b, bk, t), t) = Convert(Arith(op, e, f), t)
<1>1. /\ Arith(op, x, y) \in Int /\ ArithRange(op, a, b, bk, t) \in Ranges
      /\ Holds(ArithRange(op, a, b, bk, t), Arith(op, x, y))
  BY RangesHold
<1>2. /\ x \in Int /\ y \in Int /\ e \in Int /\ f \in Int
      /\ Congruent(x, e, t.m) /\ Congruent(y, f, t.m)
  BY DEF Operands, StandFor
<1>3. Arith(op, e, f) \in Int /\ Congruent(Arith(op, x, y), Arith(op, e, f), t.m)
  <2>1. CASE op \in RingArith
    <3>1. op = "shl" => y = f /\ 2^y \in Nat
      BY DEF Operands, StandFor
    <3>2. QED
      BY <1>2, <2>1, <3>1, RingStep
  <2>2. CASE op \in ExactArith
    <3>1. x = e /\ y = f
      BY <2>2 DEF StandFor, ExactArith
    <3>2. QED
      BY <1>1, <3>1 DEF Congruent
  <2>3. QED
    BY <2>1, <2>2
<1>4. Fitted(Arith(op, x, y), ArithRange(op, a, b, bk, t), t) = Convert(Arith(op, e, f), t)
  BY <1>1, <1>3, WrapsAreEnough
<1>5. QED
  BY <1>3, <1>4

\* The same of - and ~ (_int_unary).
THEOREM NegationMeans ==
  ASSUME NEW t \in Types, NEW k \in {"neg", "inv"}, NEW x \in Int, NEW a \in Ranges, Holds(a, x),
         NEW e \in Int, Congruent(x, e, t.m)
  PROVE  /\ Congruent(Negated(k, x), Negated(k, e), t.m)
         /\ Fitted(Negated(k, x), NegatedRange(k, a), t) = Convert(Negated(k, e), t)
<1>1. PICK m \in Nat : m = t.m /\ m > 0 /\ Congruent(x, e, m)
  BY TypeFacts
<1>2. Negated(k, x) \in Int /\ Negated(k, e) \in Int
  BY DEF Negated
<1>3. Congruent(Negated(k, x), Negated(k, e), m)
  <2>1. PICK c \in Int : c = IF k = "neg" THEN 0 ELSE -1
    OBVIOUS
  <2>2. Congruent(c, c, m)
    BY DEF Congruent
  <2>3. Congruent(c - x, c - e, m)
    BY <1>1, <2>2, RingCongruent
  <2>4. Negated(k, x) = c - x /\ Negated(k, e) = c - e
    BY <2>1 DEF Negated
  <2>5. QED
    BY <2>3, <2>4
<1>4. NegatedRange(k, a) \in Ranges /\ Holds(NegatedRange(k, a), Negated(k, x))
  <2>1. CASE a = Unknown
    BY <2>1 DEF NegatedRange, Ranges, Holds
  <2>2. CASE a # Unknown
    <3>1. PICK a1 \in Int, a2 \in Int : a = <<a1, a2>>
      BY <2>2 DEF Ranges
    <3>2. a1 <= x /\ x <= a2
      BY <2>2, <3>1 DEF Holds
    <3>3. PICK n1 \in Int, n2 \in Int : n1 = Negated(k, a2) /\ n2 = Negated(k, a1)
      BY DEF Negated
    <3>4. n1 <= Negated(k, x) /\ Negated(k, x) <= n2
      BY <3>2, <3>3 DEF Negated
    <3>5. NegatedRange(k, a) = <<n1, n2>>
      BY <2>2, <3>1, <3>3 DEF NegatedRange
    <3>6. QED
      BY <3>4, <3>5 DEF Ranges, Holds
  <2>3. QED
    BY <2>1, <2>2
<1>5. Fitted(Negated(k, x), NegatedRange(k, a), t) = Convert(Negated(k, e), t)
  BY <1>1, <1>2, <1>3, <1>4, WrapsAreEnough
<1>6. QED
  BY <1>1, <1>3, <1>5

\* Where no operand can be negative, Python's // and % are the language's / and %
\* (the relaxation that int_semantics.py states).
THEOREM FloorIsTruncation ==
  ASSUME NEW x \in Int, NEW y \in Int, y # 0, NEW a \in Ranges, NEW b \in Ranges,
         Holds(a, x), Holds(b, y), NonNeg(a), NonNeg(b)
  PROVE  x \div y = Arith("div", x, y) /\ x % y = Arith("mod", x, y)
<1>1. a[1] \in Int /\ a[1] >= 0 /\ a[1] <= x /\ b[1] \in Int /\ b[1] >= 0 /\ b[1] <= y
  BY DEF Ranges, Holds, NonNeg
<1>2. x >= 0 /\ y > 0
  BY <1>1
<1>3. Quotient(x, y) = x \div y /\ x - (y * Quotient(x, y)) = x % y
  BY <1>2, QuotientFacts
<1>4. QED
  BY <1>3 DEF Arith

\* A comparison that C leaves out because the ranges decide it has that result.
THEOREM DecisionsAreRight ==
  ASSUME NEW op \in {"lt", "eq"}, NEW x \in Int, NEW y \in Int, NEW a \in Ranges, NEW b \in Ranges,
         Holds(a, x), Holds(b, y), Decided(op, a, b) # <<>>
  PROVE  Decided(op, a, b) = <<Arith(op, x, y)>>
<1>1. a # Unknown /\ b # Unknown
  BY DEF Decided
<1>2. PICK a1 \in Int, a2 \in Int, b1 \in Int, b2 \in Int : a = <<a1, a2>> /\ b = <<b1, b2>>
  BY <1>1 DEF Ranges
<1>3. a1 <= x /\ x <= a2 /\ b1 <= y /\ y <= b2
  BY <1>1, <1>2 DEF Holds
<1>4. CASE op = "lt"
  <2>1. Decided(op, a, b) = IF a2 < b1 THEN <<1>> ELSE IF a1 >= b2 THEN <<0>> ELSE <<>>
    BY <1>1, <1>2, <1>3, <1>4 DEF Decided
  <2>2. Arith(op, x, y) = IF x < y THEN 1 ELSE 0
    BY <1>4 DEF Arith
  <2>3. QED
    BY <1>2, <1>3, <2>1, <2>2
<1>5. CASE op = "eq"
  <2>1. Decided(op, a, b) = IF a2 < b1 \/ a1 > b2 THEN <<0>>
                            ELSE IF a1 = a2 /\ b1 = b2 /\ a1 = b1 THEN <<1>> ELSE <<>>
    BY <1>1, <1>2, <1>3, <1>5 DEF Decided
  <2>2. Arith(op, x, y) = IF x = y THEN 1 ELSE 0
    BY <1>5 DEF Arith
  <2>3. QED
    BY <1>2, <1>3, <2>1, <2>2
<1>6. QED
  BY <1>4, <1>5

\* t is no wider than u: the number of values of u is a multiple of t's.
NoWider(t, u) == \E k \in Nat : u.m = k * t.m

\* The low bits of a wider type hold those of a narrower one.
LEMMA LowerBits ==
  ASSUME NEW t \in Types, NEW u \in Types, NoWider(t, u),
         NEW x \in Int, NEW y \in Int, Congruent(x, y, u.m)
  PROVE  Congruent(x, y, t.m)
<1>1. PICK k \in Nat : u.m = k * t.m
  BY DEF NoWider
<1>2. PICK m \in Nat, n \in Nat : m = t.m /\ m > 0 /\ n = u.m /\ n > 0 /\ Congruent(x, y, n)
  BY TypeFacts
<1>3. PICK l \in Int : x = y + (l * n)
  BY <1>2, CongruentOnly
<1>4. PICK p \in Int : p = l * k
  OBVIOUS
<1>5. l * n = p * m
  BY <1>1, <1>2, <1>4
<1>6. x = y + (p * m)
  BY <1>3, <1>5
<1>7. QED
  BY <1>2, <1>6, CongruentIf

\* C computes in a type c.  If that is no narrower than the operation, converting
\* the operands to it and the result back keeps the low bits of + - *; and where
\* the range of the result lies inside c there is nothing to convert: no signed
\* operation overflows.
THEOREM CarrierKeepsLowBits ==
  ASSUME NEW t \in Types, NEW c \in Types, NoWider(t, c), NEW op \in {"add", "sub", "mul"},
         NEW x \in Int, NEW y \in Int, NEW e \in Int, NEW f \in Int,
         Congruent(x, e, t.m), Congruent(y, f, t.m), NEW a \in Ranges, NEW b \in Ranges,
         Holds(a, x), Holds(b, y)
  PROVE  /\ Congruent(Convert(Arith(op, Convert(x, c), Convert(y, c)), c), Arith(op, e, f), t.m)
         /\ Within(a, c) /\ Within(b, c) /\ Within(ArithRange(op, a, b, <<>>, c), c) =>
               Convert(Arith(op, Convert(x, c), Convert(y, c)), c) = Arith(op, x, y)
<1>1. PICK u \in Int, v \in Int : /\ u = Convert(x, c) /\ v = Convert(y, c)
                                  /\ Congruent(u, x, c.m) /\ Congruent(v, y, c.m)
  BY ConvertFacts
<1>2. Congruent(u, e, t.m) /\ Congruent(v, f, t.m)
  <2>1. Congruent(u, x, t.m) /\ Congruent(v, y, t.m)
    BY <1>1, LowerBits
  <2>2. QED
    BY <2>1 DEF Congruent
<1>3. op \in RingArith /\ op # "shl"
  BY DEF RingArith
<1>4. /\ Arith(op, e, f) \in Int
      /\ Congruent(Arith(op, u, v), Arith(op, e, f), t.m)
  BY <1>2, <1>3, RingStep
<1>5. /\ Arith(op, x, y) \in Int
      /\ Congruent(Arith(op, u, v), Arith(op, x, y), c.m)
  BY <1>1, <1>3, RingStep
<1>6. Arith(op, u, v) \in Int
  BY DEF Arith
<1>7. Congruent(Convert(Arith(op, u, v), c), Arith(op, e, f), t.m)
  <2>1. /\ Convert(Arith(op, u, v), c) \in Int
        /\ Congruent(Convert(Arith(op, u, v), c), Arith(op, u, v), c.m)
    BY <1>6, ConvertFacts
  <2>2. Congruent(Convert(Arith(op, u, v), c), Arith(op, u, v), t.m)
    BY <1>6, <2>1, LowerBits
  <2>3. QED
    BY <1>4, <2>2 DEF Congruent
<1>8. ASSUME Within(a, c), Within(b, c), Within(ArithRange(op, a, b, <<>>, c), c)
      PROVE  Convert(Arith(op, u, v), c) = Arith(op, x, y)
  <2>1. Operands(c, op, x, a, y, b, <<>>)
    BY <1>3, <1>8 DEF Operands, ExactArith
  <2>2. /\ ArithRange(op, a, b, <<>>, c) \in Ranges
        /\ Holds(ArithRange(op, a, b, <<>>, c), Arith(op, x, y))
    BY <1>3, <2>1, RangesHold
  <2>3. Fitted(Arith(op, x, y), ArithRange(op, a, b, <<>>, c), c) = Convert(Arith(op, u, v), c)
    <3>1. Congruent(Arith(op, x, y), Arith(op, u, v), c.m)
      BY <1>5 DEF Congruent
    <3>2. QED
      BY <1>5, <1>6, <2>2, <3>1, WrapsAreEnough
  <2>4. QED
    BY <1>8, <2>3 DEF Fitted
<1>9. QED
  BY <1>1, <1>7, <1>8

\* An assignment wraps once: its source, evaluated at a type u no narrower than
\* the target t and right in u's low bits only, is wrapped into t and not first
\* into u (_convert_val).
THEOREM AssignmentMeans ==
  ASSUME NEW t \in Types, NEW u \in Types, NoWider(t, u), NEW e \in Int, NEW v \in Int,
         Congruent(v, e, u.m), NEW r \in Ranges, Holds(r, v)
  PROVE  Fitted(v, r, t) = Convert(Convert(e, u), t)
<1>1. Convert(e, u) \in Int /\ Congruent(Convert(e, u), e, u.m)
  BY ConvertFacts
<1>2. Congruent(v, Convert(e, u), u.m)
  BY <1>1 DEF Congruent
<1>3. Congruent(v, Convert(e, u), t.m)
  BY <1>1, <1>2, LowerBits
<1>4. QED
  BY <1>1, <1>3, WrapsAreEnough

\* A variable of type own, met at t (_int_leaf).  No narrower than t, it is right
\* in t's low bits as it stands.  No wider, it is right as it stands, but for a
\* signed one that is met unsigned: that is masked to its own bits.
THEOREM LeafMeans ==
  ASSUME NEW t \in Types, NEW own \in Types, NEW v \in Int, Lowest(own) <= v, v <= Highest(own)
  PROVE  /\ NoWider(t, own) => Congruent(v, Primary(v, own, t), t.m)
         /\ NoWider(own, t) /\ (t.s => own.s) =>
               Primary(v, own, t) = IF own.s /\ ~t.s THEN v % own.m ELSE v
<1>1. /\ Lowest(own) \in Int /\ Highest(own) \in Int /\ t.s \in BOOLEAN /\ own.s \in BOOLEAN
      /\ t.m \in Nat /\ t.m > 0 /\ own.m \in Nat /\ own.m > 0
  BY TypeFacts
<1>2. ASSUME NoWider(t, own) PROVE Congruent(v, Primary(v, own, t), t.m)
  <2>1. CASE t.s
    <3>1. Convert(v, t) \in Int /\ Congruent(Convert(v, t), v, t.m)
      BY ConvertFacts
    <3>2. QED
      BY <2>1, <3>1 DEF Primary, Congruent
  <2>2. CASE ~t.s
    <3>1. PICK m \in Nat : m = own.m /\ m > 0
      BY <1>1
    <3>2. /\ v = ((v \div m) * m) + (v % m) /\ v \div m \in Int /\ v % m \in Int
          /\ 0 <= v % m /\ v % m < m
      BY <3>1, DivMod
    <3>3. PICK q \in Int, r \in Int : q = v \div m /\ r = v % m /\ v = (q * m) + r
      BY <3>2
    <3>4. v = r + (q * m)
      BY <3>3
    <3>5. Congruent(v, r, m)
      BY <3>1, <3>4, CongruentIf
    <3>6. Congruent(v, r, t.m)
      BY <1>2, <3>1, <3>5, LowerBits
    <3>7. QED
      BY <2>2, <3>1, <3>3, <3>6 DEF Primary
  <2>3. QED
    BY <1>1, <2>1, <2>2
<1>3. ASSUME NoWider(own, t), t.s => own.s
      PROVE  Primary(v, own, t) = IF own.s /\ ~t.s THEN v % own.m ELSE v
  <2>1. CASE t.s
    <3>1. PICK m \in Nat, h \in Nat : /\ m = t.m /\ m = 2 * h /\ h > 0 /\ m > 0
                                      /\ Lowest(t) = (IF t.s THEN -h ELSE 0)
                                      /\ Highest(t) = (IF t.s THEN h - 1 ELSE m - 1)
      BY TypeNumbers
    <3>2. PICK n \in Nat, g \in Nat : /\ n = own.m /\ n = 2 * g /\ g > 0 /\ n > 0
                                      /\ Lowest(own) = (IF own.s THEN -g ELSE 0)
                                      /\ Highest(own) = (IF own.s THEN g - 1 ELSE n - 1)
      BY TypeNumbers
    <3>3. n <= m
      <4>1. PICK k \in Nat : m = k * n
        BY <1>3, <3>1, <3>2 DEF NoWider
      <4>2. k # 0
        BY <3>1, <4>1
      <4>3. PICK d \in Nat : k = d + 1
        BY <4>2
      <4>4. k * n = (d * n) + n /\ d * n >= 0
        BY <4>3
      <4>5. QED
        BY <4>1, <4>4
    <3>4. Lowest(t) <= v /\ v <= Highest(t)
      BY <1>3, <2>1, <3>1, <3>2, <3>3
    <3>5. Convert(v, t) = v
      BY <3>4, LowBits
    <3>6. QED
      BY <2>1, <3>5 DEF Primary
  <2>2. CASE ~t.s /\ own.s
    BY <2>2 DEF Primary
  <2>3. CASE ~t.s /\ ~own.s
    <3>1. 0 <= v /\ v < own.m
      BY <1>1, <2>3 DEF Lowest, Highest
    <3>2. v % own.m = v
      <4>1. PICK m \in Nat : m = own.m /\ m > 0 /\ -m <= v /\ v < m
        BY <1>1, <3>1
      <4>2. v % m = v
        BY <3>1, <4>1, SmallMod
      <4>3. QED
        BY <4>1, <4>2
    <3>3. QED
      BY <2>3, <3>2 DEF Primary
  <2>4. QED
    BY <1>1, <2>1, <2>2, <2>3
<1>4. QED
  BY <1>2, <1>3
=============================================================================
