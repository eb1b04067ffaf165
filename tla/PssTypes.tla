------------------------------- MODULE PssTypes -------------------------------
(***************************************************************************)
(* Integer expressions of a model, their types (targets/expr_types.py) and *)
(* what they mean: the reference that generated code is compared with,     *)
(* after tests/progseq/matrix/ref8_7.py.                                   *)
(***************************************************************************)
EXTENDS IntRanges

\* An expression has a kind, a name or a number, a type of its own (of a
\* variable, a literal or a cast) and operands.
Node(k, x, n, t, e) == [k |-> k, x |-> x, n |-> n, t |-> t, e |-> e]
Var(x, t)       == Node("var", x, 0, t, <<>>)
Lit(n, t)       == Node("lit", "", n, t, <<>>)
Cast(t, e)      == Node("cast", "", 0, t, <<e>>)
Neg(e)          == Node("neg", "", 0, Bit1, <<e>>)
Inv(e)          == Node("inv", "", 0, Bit1, <<e>>)
Sel(c, a, b)    == Node("sel", "", 0, Bit1, <<c, a, b>>)
Bin(op, a, b)   == Node(op, "", 0, Bit1, <<a, b>>)
Bits(e, lo, w)  == Node("bits", "", lo, Type(w, FALSE), <<e>>)   \* e[lo + w - 1 : lo]

Relational    == {"lt", "eq"}
ContextBinary == {"add", "sub", "mul", "div", "mod", "band", "bor", "bxor"}
Shifts        == {"shl", "shr"}
LeftTyped     == Shifts \cup {"pow"}
ContextUnary  == {"neg", "inv"}

-----------------------------------------------------------------------------
(* Types *)

RECURSIVE TypeOf(_)
\* type_of, of an integral expression.
TypeOf(e) == CASE e.k \in Relational -> Bit1
               [] e.k \in ContextBinary -> Join(TypeOf(e.e[1]), TypeOf(e.e[2]))
               [] e.k \in LeftTyped \cup ContextUnary -> TypeOf(e.e[1])
               [] e.k = "sel" -> Join(TypeOf(e.e[2]), TypeOf(e.e[3]))
               [] OTHER -> e.t

-----------------------------------------------------------------------------
(* Arithmetic on unbounded integers *)

RECURSIVE And(_, _)
\* Two's complement a & b.
And(a, b) == CASE a = 0 \/ b = 0 -> 0
               [] a = -1 -> b
               [] b = -1 -> a
               [] OTHER -> 2 * And(a \div 2, b \div 2) + (a % 2) * (b % 2)

\* Table 13 of the language, also for a negative exponent.
Power(a, b) == CASE b > 0 -> a^b
                 [] b = 0 -> 1
                 [] b < 0 /\ Size(a) = 1 -> IF b % 2 = 0 THEN 1 ELSE a
                 [] OTHER -> 0

Apply(op, a, b) == CASE op = "band" -> And(a, b)
                     [] op = "bor" -> a + b - And(a, b)
                     [] op = "bxor" -> a + b - 2 * And(a, b)
                     [] op = "pow" -> Power(a, b)
                     [] OTHER -> Arith(op, a, b)

\* What the language leaves undefined.
Legal(op, a, b) == /\ op \in {"div", "mod"} => b # 0
                   /\ op \in Shifts => b >= 0
                   /\ op = "pow" => a # 0 \/ b >= 0

-----------------------------------------------------------------------------
(* Meaning *)

RECURSIVE Meaning(_, _, _)
\* The value of e, carried out at t, and whether it has one.
Meaning(e, t, env) ==
    LET At(i, u) == Meaning(e.e[i], u, env)
        Own(i) == TypeOf(e.e[i])
        Op(a, b, u) == IF a.ok /\ b.ok /\ Legal(e.k, a.v, b.v)
                       THEN [ok |-> TRUE, v |-> Convert(Apply(e.k, a.v, b.v), u)]
                       ELSE [ok |-> FALSE, v |-> 0]
    IN  CASE e.k = "var" -> [ok |-> TRUE, v |-> Primary(env[e.x], e.t, t)]
          [] e.k = "lit" -> [ok |-> TRUE, v |-> Primary(e.n, e.t, t)]
          [] e.k = "cast" -> LET a == At(1, SourceType(e.t, Own(1)))
                             IN  [a EXCEPT !.v = Primary(Convert(@, e.t), e.t, t)]
          [] e.k = "bits" -> LET a == At(1, Own(1))
                             IN  [a EXCEPT !.v = Primary((@ % Own(1).m) \div 2^e.n, e.t, t)]
          [] e.k = "neg" -> LET a == At(1, t) IN [a EXCEPT !.v = Convert(-@, t)]
          [] e.k = "inv" -> LET a == At(1, t) IN [a EXCEPT !.v = Convert(-@ - 1, t)]
          [] e.k = "sel" -> LET c == At(1, Own(1))
                            IN  IF ~c.ok THEN c ELSE IF c.v # 0 THEN At(2, t) ELSE At(3, t)
          [] e.k \in Relational -> LET j == Join(Own(1), Own(2))
                                   IN  Op(At(1, j), At(2, j), Bit1)
          [] e.k \in LeftTyped -> Op(At(1, t), At(2, Own(2)), t)
          [] OTHER -> Op(At(1, t), At(2, t), t)

\* What a target holds after it is assigned e.
Assigned(e, target, env) == LET a == Meaning(e, SourceType(target, TypeOf(e)), env)
                            IN  [a EXCEPT !.v = Convert(@, target)]

\* The number of type t that v has become when w bits from lo on are set to b.
Spliced(v, t, lo, w, b) == LET u == v % t.m
                           IN  Convert(u - ((u \div 2^lo) % 2^w) * 2^lo + b * 2^lo, t)
=============================================================================
