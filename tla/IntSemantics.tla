----------------------------- MODULE IntSemantics -----------------------------
(***************************************************************************)
(* How an integer expression is rendered for Python and for C              *)
(* (targets/int_semantics.py and the two backends' spelling): which value  *)
(* is wrapped back into its type, decided by the range that is known of    *)
(* it, and which operand is widened, so that the generated code computes   *)
(* what the model means at widths that the host language does not have.    *)
(*                                                                         *)
(* A rendered value has its code c, its range r, <<>> or <<lo, hi>>, and   *)
(* its constant k, <<>> or <<n>>.  In front of an expression, root says    *)
(* that nothing is around it.                                              *)
(***************************************************************************)
EXTENDS HostInts, FiniteSets, TLC

CONSTANTS Assignments,   \* pairs of a source and a target: a type and bits, <<>>
                         \* for the whole of a variable, or <<lo, width>>
          Values(_)      \* the values of a type that a variable is given

VARIABLES source, target,
          host,          \* "py", "c", or "" before the code is generated
          code

vars == <<source, target, host, code>>

Val(c, r) == [c |-> c, r |-> r, k |-> <<>>]
\* int_const: an operand of an operation carried out at t.
IntConst(h, n, t) ==
    [c |-> Const(n, CASE h = "py" -> CInt
                      [] t.w > IntW -> IF n < 0 \/ t.s THEN CLong ELSE CULong
                      [] OTHER -> LiteralType(n, n > Highest(CInt))),
     r |-> <<n, n>>, k |-> <<n>>]

\* int_sint_text, of the low w bits.
Signed(h, c, w) ==
    IF h = "py" THEN Sint(c, w)
    ELSE LET cw == IF w <= IntW THEN IntW ELSE LongW
             u == To(Type(cw, FALSE), c)
         IN  IF w = cw THEN To(Type(cw, TRUE), u)
             ELSE Bin("shr", To(Type(cw, TRUE), Bin("shl", u, Const(cw - w, CInt))),
                      Const(cw - w, CInt))

\* _fit: v in the range of t, wrapped if it may be outside it.
Fit(h, v, t) == CASE v.k # <<>> -> IntConst(h, Convert(v.k[1], t), t)
                  [] v.k = <<>> /\ Within(v.r, t) -> v
                  [] OTHER -> IF t.s THEN Val(Signed(h, v.c, t.w), Range(t))
                                     ELSE Val(Mask(v.c, Highest(t), MaskLiteral(Highest(t))), Range(t))

\* Faulty: C's own conversions are taken to do it for 64 bits.
CarrierShort(s, t) == IF ~t.s /\ HalfW < t.w /\ t.w <= IntW /\ s.w < IntW THEN CUInt ELSE Bit1
\* _c_carrier: the type that an operand of type s is cast to before an
\* operation at t; Bit1 for none.
Carrier(s, t) == CASE t.w > IntW /\ s.w <= IntW -> IF t.s THEN CLong ELSE CULong
                   [] ~t.s /\ HalfW < t.w /\ t.w <= IntW /\ s.w < IntW -> CUInt
                   [] OTHER -> Bit1
Widened(c, s, t) == IF Carrier(s, t) = Bit1 THEN c ELSE To(Carrier(s, t), c)

\* _c_store_exact: storing converts as the language does.
StoreExact(t) == t.w \in {IntW, LongW} \/ (~t.s /\ t.w = HalfW)

-----------------------------------------------------------------------------
(* Ranges *)

RECURSIVE BitLength(_)
BitLength(n) == IF n = 0 THEN 0 ELSE 1 + BitLength(n \div 2)

\* _bitwise_range
BitwiseRange(op, a, b, t) ==
    CASE op = "band" /\ (NonNeg(a) \/ NonNeg(b)) ->
            <<0, MinOf({r[2] : r \in {x \in {a, b} : NonNeg(x)}})>>
      [] NonNeg(a) /\ NonNeg(b) -> <<0, 2^BitLength(MaxOf({a[2], b[2]})) - 1>>
      [] Within(a, t) /\ Within(b, t) -> Range(t)
      [] OTHER -> Unknown

BinRange(h, op, a, b, bk, t) ==
    CASE op = "pow" -> IF h = "py" THEN <<0, t.m - 1>> ELSE Unknown
      [] op \in {"band", "bor", "bxor"} -> BitwiseRange(op, a, b, t)
      [] OTHER -> ArithRange(op, a, b, bk, t)

-----------------------------------------------------------------------------
(* Spelling *)

\* int_shift_text: C's shift by the width of its type or more is undefined.
ShiftCode(h, op, a, b, t) ==
    LET cw == IF t.w > IntW THEN LongW ELSE IntW
        plain == Bin(op, a.c, b.c)
        inside(y) == Bin("lt", To(CULong, y), Const(cw, CUInt))
    IN  CASE h = "py" \/ (b.r # Unknown /\ 0 <= b.r[1] /\ b.r[2] < cw) -> plain
          [] h = "c" /\ op = "shr" /\ t.s /\ ~(b.r # Unknown /\ 0 <= b.r[1] /\ b.r[2] < cw) ->
                IF b.k # <<>> THEN Bin(op, a.c, Const(cw - 1, CInt))
                ELSE Bin(op, a.c, Sel(inside(b.c), b.c, Const(cw - 1, CInt)))
          [] OTHER -> IF b.k # <<>> THEN Const(0, CInt) ELSE Sel(inside(b.c), plain, Const(0, CInt))

\* int_signed_div_text: the most negative value divided by -1.
SignedDivCode(h, op, a, b) ==
    CASE h = "py" \/ ~(b.r[1] <= -1 /\ -1 <= b.r[2]) -> Bin(op, a.c, b.c)
      [] h = "c" /\ a.r[1] > Lowest(CLong) /\ a.r[1] # Lowest(CInt) -> Bin(op, a.c, b.c)
      [] h = "c" /\ a.r[1] = Lowest(CInt) /\ a.r[2] <= Highest(CInt) -> Bin(op, To(CLong, a.c), b.c)
      [] OTHER -> Sel(Bin("eq", b.c, Const(-1, CInt)),
                      IF op = "mod" THEN Const(0, CInt)
                      ELSE To(CLong, Bin("sub", Const(0, CULong), To(CULong, a.c))),
                      Bin(op, a.c, b.c))

\* Division of what cannot be negative: // and % of Python.
DivCode(h, op, a, b) ==
    IF NonNeg(a.r) /\ NonNeg(b.r)
    THEN Bin(IF h = "c" THEN op ELSE IF op = "div" THEN "floordiv" ELSE "floormod", a.c, b.c)
    ELSE SignedDivCode(h, op, a, b)

\* int_cmp_text: C takes a result that the ranges decide.
CompareCode(h, op, a, b) ==
    IF h = "c" /\ Decided(op, a.r, b.r) # <<>> THEN Const(Decided(op, a.r, b.r)[1], CInt)
                                              ELSE Bin(op, a.c, b.c)

-----------------------------------------------------------------------------
(* The decisions *)

\* Faulty: >> taken for a ring operator.
RingWithShr == {"add", "sub", "mul", "band", "bor", "bxor", "shl", "shr"}
Ring == {"add", "sub", "mul", "band", "bor", "bxor", "shl"}

RECURSIVE Code(_, _), InRange(_, _, _, _), Operand(_, _, _, _), Raw(_, _, _, _), ConvertTo(_, _, _)

\* _int_val: e at its final type t, in range.
InRange(h, e, t, root) == Fit(h, Raw(h, e, t, root), t)

Unary(h, k, t, a) ==
    IF a.k # <<>> THEN IntConst(h, Negated(k, a.k[1]), t)
    ELSE Val(Node(k, "", 0, Bit1, <<a.c>>), NegatedRange(k, a.r))

Choice(c, a, b) == Val(Sel(c, a.c, b.c), Hull({a.r[1], a.r[2], b.r[1], b.r[2]}))

\* _int_bin, of two rendered operands.
Operated(h, op, t, lhs, rhs) ==
    IF lhs.k # <<>> /\ rhs.k # <<>>
    THEN IF Legal(op, lhs.k[1], rhs.k[1]) THEN IntConst(h, Apply(op, lhs.k[1], rhs.k[1]), t)
                                          ELSE Val(Refused, <<0, 0>>)
    ELSE Val(CASE op \in {"div", "mod"} -> DivCode(h, op, lhs, rhs)
               [] op = "pow" -> Pow(lhs.c, rhs.c, t.w)
               [] op \in Shifts -> ShiftCode(h, op, lhs, rhs, t)
               [] OTHER -> Bin(op, lhs.c, rhs.c),
             BinRange(h, op, lhs.r, rhs.r, rhs.k, t))

\* An operand that has to be right in its low bits only, or altogether.
Side(h, e, t, ring) == IF ring THEN Operand(h, e, t, FALSE) ELSE InRange(h, e, t, FALSE)

\* _int_bin
Operation(h, e, t) ==
    Operated(h, e.k, t, Side(h, e.e[1], t, e.k \in Ring \cup {"pow"}),
            Side(h, e.e[2], IF e.k \in LeftTyped THEN TypeOf(e.e[2]) ELSE t, e.k \in Ring \ LeftTyped))

\* A primary of type s whose code is c, extended to t.  A signed one in an
\* unsigned operation gives its bit pattern, unless only low bits matter.
Pattern(s, t, ring) == s.s /\ ~t.s /\ ~ring
Extended(s, t, ring, c) ==
    IF Pattern(s, t, ring) THEN Val(Mask(c, s.m - 1, MaskLiteral(s.m - 1)), <<0, s.m - 1>>)
                           ELSE Val(c, Range(s))
WidenedIf(widen, s, t, c) == IF widen THEN Widened(c, s, t) ELSE c

\* The C type that a cast keeps as an operand at t; Bit1 for none.
KeptType(e, t) == CASE Carrier(Bit1, t) # Bit1 -> Carrier(Bit1, t)
                    [] Carrier(Bit1, t) = Bit1 /\ e.t.w > HalfW -> CType(e.t)
                    [] OTHER -> Bit1
Retyped(h, ct, v) == IF h = "c" /\ v.k = <<>> /\ ct # Bit1 THEN [v EXCEPT !.c = To(ct, @)] ELSE v

\* A cast whose operand is cv is that operand, where it is in range; other
\* primaries are their code, c.
LeafValue(e, t, ring, cv, c) ==
    IF e.k = "cast" /\ (~Pattern(e.t, t, ring) \/ NonNeg(cv.r)) THEN cv
    ELSE Extended(TypeOf(e), t, ring, c)

\* _int_leaf
LeafOf(h, e, t, ring, root) ==
    IF e.k = "lit" THEN IntConst(h, IF t.s THEN e.n ELSE e.n % e.t.m, t)
    ELSE Retyped(h, IF e.k = "cast" /\ ~root THEN KeptType(e, t) ELSE Bit1,
                 LeafValue(e, t, ring, Fit(h, Operand(h, e.e[1], SourceType(e.t, TypeOf(e.e[1])), TRUE), e.t),
                          WidenedIf(h = "c" /\ ~root, TypeOf(e), t, Code(h, e))))

\* _int_opnd: an operand of a ring operator is right in its low bits only.
Operand(h, e, t, root) ==
    CASE e.k \in Ring \cup ContextUnary -> Raw(h, e, t, root)
      [] e.k \in {"var", "lit", "cast", "bits"} /\ TypeOf(e).w >= t.w ->
            LeafOf(h, e, t, TRUE, root)
      [] OTHER -> InRange(h, e, t, root)

\* _int_raw
Raw(h, e, t, root) ==
    CASE e.k \in ContextBinary \cup LeftTyped -> Operation(h, e, t)
      [] e.k \in ContextUnary -> Unary(h, e.k, t, Operand(h, e.e[1], t, FALSE))
      [] e.k = "sel" -> Choice(Code(h, e.e[1]), InRange(h, e.e[2], t, FALSE), InRange(h, e.e[3], t, FALSE))
      [] OTHER -> LeafOf(h, e, t, FALSE, root)

Kept(h, t, c) == IF h = "py" THEN c ELSE To(CType(t), c)
Selected(lo, of, t, c) == Mask(IF lo = 0 THEN c ELSE Bin("shr", c, Const(lo, CInt)), Highest(t),
                               IF of.w > IntW THEN CULong ELSE MaskLiteral(Highest(t)))
Compared(h, e, p) == CompareCode(h, e.k, InRange(h, e.e[1], p, TRUE), InRange(h, e.e[2], p, TRUE))

\* expr: an expression by itself.
Code(h, e) ==
    CASE e.k = "var" -> Leaf(e.x, e.t)
      [] e.k = "cast" -> Kept(h, e.t, ConvertTo(h, e.e[1], e.t))
      [] e.k = "bits" -> Selected(e.n, TypeOf(e.e[1]), e.t, Code(h, e.e[1]))
      [] e.k \in Relational -> Compared(h, e, Join(TypeOf(e.e[1]), TypeOf(e.e[2])))
      [] OTHER -> InRange(h, e, TypeOf(e), TRUE).c

\* A literal that the target of C cannot hold is folded before.
Folded(h, e, t) ==
    IF h = "c" /\ e.k = "lit" /\ e.n # Convert(e.n, t)
    THEN Lit(Convert(e.n, t), LiteralType(Convert(e.n, t), FALSE)) ELSE e

\* convert_to: e in an assignment-like context.
StoredAs(h, t, v) == IF h = "c" /\ StoreExact(t) THEN v.c ELSE Fit(h, v, t).c
ConvertFolded(h, f, t) == StoredAs(h, t, Operand(h, f, SourceType(t, TypeOf(f)), TRUE))
ConvertTo(h, e, t) == ConvertFolded(h, Folded(h, e, t), t)

\* c_select_write and _select_assign: the other bits of x are kept, and v set.
SelectWrite(h, t, lo, w, v) ==
    LET ct == IF t.w > IntW THEN CULong ELSE CUInt
        up(c) == IF lo = 0 THEN c ELSE Bin("shl", c, Const(lo, CInt))
    IN  Bin("bor", Bin("band", Leaf("x", t), Inv(up(Const(2^w - 1, ct)))),
                   up(IF h = "py" THEN v ELSE Mask(v, 2^w - 1, ct)))

\* The right side of an assignment in the host language.
Placed(h, to, v) == IF to.bits = <<>> THEN v ELSE SelectWrite(h, to.t, to.bits[1], to.bits[2], v)
Store(h, e, to) ==
    Placed(h, to, ConvertTo(h, e, IF to.bits = <<>> THEN to.t ELSE Type(to.bits[2], FALSE)))

-----------------------------------------------------------------------------
Init == /\ \E a \in Assignments : source = a[1] /\ target = a[2]
        /\ host = ""
        /\ code = <<>>

Final(c) == IF IsRefused(c) THEN Refused ELSE c

Generate(h) == /\ host = ""
               /\ code' = Final(Store(h, source, target))
               /\ host' = h
               /\ UNCHANGED <<source, target>>

Next == Generate("py") \/ Generate("c")

Spec == Init /\ [][Next]_vars

-----------------------------------------------------------------------------
(* Properties *)

RECURSIVE VarsOf(_), Parts(_)
VarsOf(e) == (IF e.k = "var" THEN {<<e.x, e.t>>} ELSE {}) \cup UNION {VarsOf(e.e[i]) : i \in DOMAIN e.e}
Parts(e) == {e} \cup UNION {Parts(e.e[i]) : i \in DOMAIN e.e}

RECURSIVE EnvsOf(_)
\* Every choice of values for variables, pairs of a name and a type.
EnvsOf(vs) == IF vs = {} THEN {<<>>}
              ELSE LET v == CHOOSE w \in vs : TRUE
                   IN  {f @@ (v[1] :> n) : f \in EnvsOf(vs \ {v}), n \in Values(v[2])}

\* Those of an expression, and of the variable that bits are assigned to.
Envs(e) == EnvsOf(VarsOf(e) \cup IF target.bits = <<>> THEN {} ELSE {<<"x", target.t>>})

\* What is stored, where the model gives the expression a value.
Stored(env) == IF host = "py" THEN PyValue(code, env)
                              ELSE Convert(CValue(code, env), CType(target.t))

\* What the language says is.
Expected(env) ==
    IF target.bits = <<>> THEN Assigned(source, target.t, env)
    ELSE LET a == Assigned(source, Type(target.bits[2], FALSE), env)
         IN  [a EXCEPT !.v = Spliced(env["x"], target.t, target.bits[1], target.bits[2], @)]

Means(h) == (host = h /\ code # Refused) =>
                \A env \in Envs(source) :
                    LET m == Expected(env) IN m.ok => Stored(env) = m.v

\* A write to the sign bit of a value whose type the host does not have.
SignBitWritten(h) == /\ target.bits # <<>>
                     /\ target.t.s
                     /\ target.bits[1] + target.bits[2] = target.t.w
                     /\ h = "c" => ~StoreExact(target.t)

\* Unbounded integers, wrapped only where a range may leave its type, hold
\* what the widths of the model give.
PythonMeans == ~SignBitWritten("py") => Means("py")

\* A signed cast of something that is computed unsigned and is not wrapped.
UnsignedInSigned(e) == \E c \in Parts(e) :
    c.k = "cast" /\ c.t.s /\ ~TypeOf(c.e[1]).s /\ c.e[1].e # <<>>

\* Operands widened to the C type of the operation, and results wrapped,
\* hold what the widths of the model give.
CMeans == (~UnsignedInSigned(source) /\ ~SignBitWritten("c")) => Means("c")

\* The same with casts to signed types.
CastMeans == Means("c")
=============================================================================
