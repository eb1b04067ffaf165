------------------------------- MODULE HostInts -------------------------------
(***************************************************************************)
(* What the generated code computes.  Python's integers are unbounded.  C  *)
(* promotes an operand narrower than int, converts two operands to their   *)
(* common type, and leaves a signed result outside its type undefined: the *)
(* value is then the one that a compiler which wraps gives.                *)
(*                                                                         *)
(* The widths of C are scaled: int has IntW bits (for 32) and long long    *)
(* twice as many.                                                          *)
(***************************************************************************)
EXTENDS PssTypes

CONSTANT IntW

ASSUME WidthAssumption == IntW \in Nat /\ IntW >= 4 /\ IntW % 2 = 0

HalfW == IntW \div 2
LongW == 2 * IntW
CInt   == Type(IntW, TRUE)
CUInt  == Type(IntW, FALSE)
CLong  == Type(LongW, TRUE)
CULong == Type(LongW, FALSE)

\* Rendered code: nodes like those of an expression, and
Mask(v, hi, ct) == Node("mask", "", hi, ct, <<v>>)          \* v & 0x<hi>, of C type ct
Sint(v, w)    == Node("sint", "", w, Bit1, <<v>>)           \* _pss_sint(v, w)
To(ct, v)     == Node("to", "", 0, ct, <<v>>)               \* (ct)v
Const(n, ct)  == Node("const", "", n, ct, <<>>)             \* a literal of C type ct
Leaf(x, t)    == Node("leaf", x, 0, t, <<>>)                \* a variable
Refused       == Node("refused", "", 0, Bit1, <<>>)

\* A call of pow or pssc_pow; Python's is reduced to n bits.
Pow(a, b, n)  == Node("pow", "", n, CULong, <<a, b>>)

\* Integer promotion, and the common type of two operands.
Promoted(t) == IF t.w < IntW THEN CInt ELSE t
Common(a, b) == LET w == IF a.w > b.w THEN a.w ELSE b.w
                IN  Type(w, (a.w = w => a.s) /\ (b.w = w => b.s))

\* The C type that holds a variable of type t.
CType(t) == IF t.s THEN IF t.w <= IntW THEN CInt ELSE CLong
            ELSE Type(CHOOSE w \in {HalfW, IntW, LongW} :
                          /\ t.w <= w
                          /\ \A v \in {HalfW, IntW, LongW} : t.w <= v => w <= v, FALSE)

\* The C type of a literal that is written as n, with or without u.
LiteralType(n, u) == CASE n <= Highest(CInt) /\ n >= Lowest(CInt) /\ ~u -> CInt
                       [] n \in 0..Highest(CUInt) /\ u -> CUInt
                       [] n <= Highest(CLong) /\ n >= Lowest(CLong) /\ ~u -> CLong
                       [] OTHER -> CULong
\* A hexadecimal literal is unsigned where it has to be.
MaskLiteral(hi) == CASE hi <= Highest(CInt) -> CInt [] hi <= Highest(CUInt) -> CUInt [] OTHER -> CULong

RECURSIVE TypeIn(_), PyValue(_, _), CValue(_, _)

\* The static C type of code.
TypeIn(c) == CASE c.k \in {"to", "const"} -> Promoted(c.t)
               [] c.k = "leaf" -> Promoted(CType(c.t))
               [] c.k = "mask" -> Common(TypeIn(c.e[1]), c.t)
               [] c.k = "pow" -> CULong
               [] c.k \in Relational -> CInt
               [] c.k \in ContextBinary -> Common(TypeIn(c.e[1]), TypeIn(c.e[2]))
               [] c.k = "sel" -> Common(TypeIn(c.e[2]), TypeIn(c.e[3]))
               [] OTHER -> TypeIn(c.e[1])

PyValue(c, env) ==
    LET V(i) == PyValue(c.e[i], env)
    IN  CASE c.k = "leaf" -> env[c.x]
          [] c.k = "const" -> c.n
          [] c.k = "mask" -> V(1) % (c.n + 1)
          [] c.k = "sint" -> Convert(V(1), Type(c.n, TRUE))
          [] c.k = "neg" -> -V(1)
          [] c.k = "inv" -> -V(1) - 1
          [] c.k = "sel" -> IF V(1) # 0 THEN V(2) ELSE V(3)
          [] c.k = "pow" -> Power(V(1), V(2)) % 2^c.n
          [] c.k = "floordiv" -> V(1) \div V(2)
          [] c.k = "floormod" -> V(1) % V(2)
          [] OTHER -> Apply(c.k, V(1), V(2))

CValue(c, env) ==
    LET V(i) == CValue(c.e[i], env)
        t == TypeIn(c)
        As(i, u) == Convert(V(i), u)
    IN  CASE c.k = "leaf" -> env[c.x]
          [] c.k = "const" -> Convert(c.n, t)
          [] c.k = "to" -> Convert(V(1), c.t)
          [] c.k = "mask" -> And(As(1, t), c.n)
          [] c.k = "neg" -> Convert(-V(1), t)
          [] c.k = "inv" -> Convert(-V(1) - 1, t)
          [] c.k = "sel" -> IF V(1) # 0 THEN As(2, t) ELSE As(3, t)
          [] c.k \in Relational ->
                LET u == Common(TypeIn(c.e[1]), TypeIn(c.e[2])) IN Apply(c.k, As(1, u), As(2, u))
          [] c.k \in Shifts -> Convert(Apply(c.k, V(1), V(2) % t.w), t)  \* x86 masks the count
          [] c.k = "pow" ->  \* on 64-bit patterns: the lowest bits of a signed power
                Power(As(1, IF V(2) < 0 THEN CLong ELSE CULong), V(2)) % 2^LongW
          [] c.k \in {"div", "mod"} /\ t.s /\ As(1, t) = Lowest(t) /\ As(2, t) = -1 ->
                1  \* it traps: any number but the right one
          [] OTHER -> Convert(Apply(c.k, As(1, t), As(2, t)), t)

RECURSIVE IsRefused(_)
IsRefused(c) == c = Refused \/ \E i \in DOMAIN c.e : IsRefused(c.e[i])
=============================================================================
