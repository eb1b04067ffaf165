------------------------------ MODULE IntRanges ------------------------------
(***************************************************************************)
(* The arithmetic of the integer rules: what a type can hold and converts  *)
(* to (targets/expr_types.py), and what the rendering of an operation      *)
(* concludes from the ranges of its operands (targets/int_semantics.py).   *)
(*                                                                         *)
(* A type is a width, a signedness and how many values it has; bool is     *)
(* bit[1].  A range is <<lo, hi>>, or <<>> if it is not known.             *)
(***************************************************************************)
EXTENDS Integers, Sequences

Type(w, s) == [w |-> w, s |-> s, m |-> 2^w]
Bit1 == Type(1, FALSE)

\* merge: signed only if both are.
Join(a, b) == Type(IF a.w > b.w THEN a.w ELSE b.w, a.s /\ b.s)

Lowest(t)  == IF t.s THEN -(t.m \div 2) ELSE 0
Highest(t) == IF t.s THEN (t.m \div 2) - 1 ELSE t.m - 1

\* convert: the low bits of v, read as t reads them.
Convert(v, t) == LET u == v % t.m IN IF u > Highest(t) THEN u - t.m ELSE u

\* assign_source_type: a wider target lends its width, never its sign.
SourceType(target, s) == Type(IF target.w > s.w THEN target.w ELSE s.w, s.s)

-----------------------------------------------------------------------------
(* Arithmetic on unbounded integers *)

Size(v) == IF v < 0 THEN -v ELSE v

\* / truncates toward zero; the remainder has the sign of a.
Quotient(a, b) == LET q == Size(a) \div Size(b) IN IF (a < 0) # (b < 0) THEN -q ELSE q

Arith(op, a, b) == CASE op = "add" -> a + b
                     [] op = "sub" -> a - b
                     [] op = "mul" -> a * b
                     [] op = "div" -> Quotient(a, b)
                     [] op = "mod" -> a - b * Quotient(a, b)
                     [] op = "shl" -> a * 2^b
                     [] op = "shr" -> a \div 2^b
                     [] op = "lt" -> IF a < b THEN 1 ELSE 0
                     [] op = "eq" -> IF a = b THEN 1 ELSE 0

\* A primary's value v of type own, met at t: extended by the sign of t.
Primary(v, own, t) == IF t.s THEN Convert(v, t) ELSE v % own.m

-----------------------------------------------------------------------------
(* Ranges *)

Unknown == <<>>
MinOf(S) == CHOOSE x \in S : \A y \in S : x <= y
MaxOf(S) == CHOOSE x \in S : \A y \in S : x >= y
Hull(S) == <<MinOf(S), MaxOf(S)>>
Range(t) == <<Lowest(t), Highest(t)>>
Within(r, t) == r # Unknown /\ Lowest(t) <= r[1] /\ r[2] <= Highest(t)
NonNeg(r) == r # Unknown /\ r[1] >= 0

Corners(op, a, b) == Hull({Arith(op, x, y) : x \in {a[1], a[2]}, y \in {b[1], b[2]}})

\* The most negative value divided by -1 is the one quotient outside t.
DivRange(op, a, b, t) ==
    LET r == IF op = "mod" THEN Hull({a[1], a[2], 0})
             ELSE <<MinOf({a[1], -a[2], 0}), MaxOf({a[2], -a[1], 0})>>
    IN  IF op = "div" /\ (a[1] > Lowest(t) \/ b[1] > -1 \/ b[2] < -1)
        THEN <<MaxOf({r[1], Lowest(t)}), MinOf({r[2], Highest(t)})>>
        ELSE r

\* The range of an operation at t on operands of the ranges a and b; bk is
\* <<n>> if the second is the constant n.
ArithRange(op, a, b, bk, t) ==
    CASE op \in {"div", "mod"} -> DivRange(op, a, b, t)
      [] op = "shr" -> IF bk # <<>> /\ bk[1] >= 0 THEN Corners(op, a, <<bk[1], bk[1]>>)
                                                 ELSE Hull({a[1], a[2], 0})
      [] op = "shl" -> IF a # Unknown /\ bk # <<>> /\ bk[1] >= 0
                       THEN Corners(op, a, <<bk[1], bk[1]>>) ELSE Unknown
      [] OTHER -> IF a = Unknown \/ b = Unknown THEN Unknown ELSE Corners(op, a, b)

\* - and ~ of a number, and of a range.
Negated(k, n) == IF k = "neg" THEN -n ELSE -n - 1
NegatedRange(k, r) == IF r = Unknown THEN Unknown ELSE <<Negated(k, r[2]), Negated(k, r[1])>>

\* _cmp_decided: what the ranges say of a comparison, <<>> if nothing.
Decided(op, a, b) ==
    IF a = Unknown \/ b = Unknown THEN <<>>
    ELSE CASE op = "lt" /\ a[2] < b[1] -> <<1>>
           [] op = "lt" /\ a[1] >= b[2] -> <<0>>
           [] op = "eq" /\ (a[2] < b[1] \/ a[1] > b[2]) -> <<0>>
           [] op = "eq" /\ a[1] = a[2] /\ b[1] = b[2] /\ a[1] = b[1] -> <<1>>
           [] OTHER -> <<>>
=============================================================================
