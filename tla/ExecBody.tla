------------------------------- MODULE ExecBody -------------------------------
(***************************************************************************)
(* The bodies that the register passes rewrite, and what a body does: the  *)
(* reference that a rewritten body is compared with.                       *)
(*                                                                         *)
(* A body is a sequence of statements, a tree of the IR with the           *)
(* attributes the passes look at.  What a body does is the trace of its    *)
(* register accesses and calls, in order, and the values it leaves.  The   *)
(* device and the callees are an oracle: the k-th access or call that is   *)
(* made answers oracle[k].  After Len(oracle) of them the run is cut.      *)
(***************************************************************************)
EXTENDS Integers, Sequences, FiniteSets, SequencesExt, FiniteSetsExt, Bitwise

CONSTANTS Width,   \* function from the registers to their widths
          Fields,  \* function from the registers to their layouts, functions
                   \* from field names to [lsb, width]
          Wide,    \* the width of a plain local
          Locals   \* the local variables, numbers

Word(reg) == 2 ^ Width[reg]
AsBool(v) == IF v = 0 THEN 0 ELSE 1

\* The type of a local is its width; that of the bool type is Bool.
Bool == 0
Fit(v, type) == IF type = Bool THEN AsBool(v) ELSE v % (2 ^ type)

-----------------------------------------------------------------------------
(* Nodes *)

Node(k, x, n, e) == [k |-> k, x |-> x, n |-> n, e |-> e, f |-> <<>>, m |-> <<>>]

Lit(n)       == Node("lit", "", n, <<>>)
Var(n)       == Node("var", "", n, <<>>)
Read(r, e)   == Node("read", r, 0, e)            \* r.read_val(), at an index e
Call(g, e)   == Node("call", g, 0, e)            \* any other call
And2(a, b)   == Node("and", "", 0, <<a, b>>)
Or2(a, b)    == Node("or", "", 0, <<a, b>>)
Not1(a)      == Node("not", "", 0, <<a>>)
Sel(c, a, b) == Node("sel", "", 0, <<c, a, b>>)
Bin(op, a, b)   == Node(op, "", 0, <<a, b>>)     \* add, band, bor, bxor, shl
WriteVal(r, v)  == Node("wv", r, 0, <<v>>)
WriteMasked(r, m, v) == Node("wvm", r, 0, <<m, v>>)   \* write_val_masked
WriteFields(r, names, vs) == [Node("wfs", r, 0, vs) EXCEPT !.f = names]
\* write_masked with two literals: mask is a sequence of [name, mask].
WriteStructs(r, mask, names, vs) == [Node("wms", r, 0, vs) EXCEPT !.m = mask, !.f = names]

Stmt(k, n, e, b) == [k |-> k, n |-> n, t |-> Wide, e |-> e, b |-> b]

Expr(e)         == Stmt("expr", 0, <<e>>, <<>>)
Set(n, e)       == Stmt("set", n, <<e>>, <<>>)
Put(n, at, e)   == Stmt("put", n, <<at, e>>, <<>>)    \* to a member, at an index
Decl(n, t, e)   == [Stmt("decl", n, e, <<>>) EXCEPT !.t = t]
Return(e)       == Stmt("ret", 0, <<e>>, <<>>)
If(c, a, b)     == Stmt("if", 0, <<c>>, <<a, b>>)
Chain(cs, bs)   == Stmt("chain", 0, cs, bs)           \* Len(bs) = Len(cs) + 1
While(c, a, b)  == Stmt("while", 0, <<c>>, <<a, b>>)  \* b is the else
RepeatWhile(a, c)  == Stmt("repw", 0, <<c>>, <<a>>)
Repeat(c, a)    == Stmt("repeat", 0, <<c>>, <<a>>)    \* also for and foreach
Match(s, g, a, b) == Stmt("match", 0, <<s, g>>, <<a, b>>)  \* one guarded case
Break    == Stmt("brk", 0, <<>>, <<>>)
Continue == Stmt("cont", 0, <<>>, <<>>)

-----------------------------------------------------------------------------
(* Register words *)

\* The word with the bits that sel selects taken from v.
Merge(old, sel, v, reg) ==
    SumSet({ 2^i * (((IF sel[i] THEN v ELSE old) \div 2^i) % 2) : i \in 0..(Width[reg] - 1) })

\* "REG_VAL(new) = (REG_VAL(current) & ~mask) | (val & mask)".
Masked(old, m, v, reg) == Merge(old, [i \in 0..(Width[reg] - 1) |-> (m \div 2^i) % 2 = 1], v, reg)

\* The same for a sequence of [name, mask, val]: each names bits of a field.
Fielded(old, ws, reg) ==
    LET At(w) == Fields[reg][w.name].lsb
        In(w, i) == /\ i \in At(w)..(At(w) + Fields[reg][w.name].width - 1)
                    /\ (w.mask \div 2^(i - At(w))) % 2 = 1
        step(o, w) == Merge(o, [i \in 0..(Width[reg] - 1) |-> In(w, i)],
                            (w.val % 2^Fields[reg][w.name].width) * 2^At(w), reg)
    IN  FoldLeft(step, old, ws)

All(reg, f) == 2^Fields[reg][f].width - 1

ValueOf(f, names, vs) == IF f \in Range(names) THEN vs[CHOOSE i \in DOMAIN names : names[i] = f] ELSE 0

-----------------------------------------------------------------------------
(* Running a body *)

\* When an assignment evaluates the index of its target: before its value,
\* after it, or between the operands of the value.  No order is specified.
IndexOrders == {"first", "between", "last"}

Start(order) == [tr |-> <<>>, env |-> [n \in Locals |-> 0], type |-> [n \in Locals |-> Wide],
                 ctl |-> "go", order |-> order]

\* One access or call, and its answer.
Effect(o, s, what) == IF Len(s.tr) < Len(o) THEN [s EXCEPT !.tr = Append(@, what)]
                                            ELSE [s EXCEPT !.ctl = "cut"]
Answer(o, s) == IF Len(s.tr) < Len(o) THEN o[Len(s.tr) + 1] ELSE 0

\* A read of reg, and a write of New(what was read).
Modify(o, s, reg, New(_)) ==
    Effect(o, Effect(o, s, <<"read", reg>>), <<"write", reg, New(Answer(o, s) % Word(reg))>>)

Assign(s, n, v) == IF s.ctl = "cut" THEN s ELSE [s EXCEPT !.env[n] = Fit(v, s.type[n])]

RECURSIVE Eval(_, _, _), Exec(_, _, _), Loop(_, _, _, _)

\* The values of the operands, from left to right.
Also(vs, r) == [vs |-> Append(vs, r.v), s |-> r.s]
EvalAll(o, es, s) ==
    FoldLeft(LAMBDA a, e : Also(a.vs, Eval(o, e, a.s)), [vs |-> <<>>, s |-> s], es)

Apply(op, a, b) == CASE op = "add" -> a + b
                     [] op = "band" -> a & b
                     [] op = "bor" -> a | b
                     [] op = "bxor" -> a ^^ b
                     [] op = "shl" -> a * 2^b

Fields1(reg, names, vs) ==
    [i \in DOMAIN vs |-> [name |-> names[i], mask |-> All(reg, names[i]), val |-> vs[i]]]
Structs(mask, names, vs) ==
    [i \in DOMAIN mask |-> [name |-> mask[i].name, mask |-> mask[i].mask,
                            val |-> ValueOf(mask[i].name, names, vs)]]

\* An operation whose operands have the values vs.
EvalOp(o, e, vs, s) ==
    CASE e.k = "read" -> [v |-> Answer(o, s) % Word(e.x), s |-> Effect(o, s, <<"read", e.x>> \o vs)]
      [] e.k = "call" -> [v |-> Answer(o, s), s |-> Effect(o, s, <<e.x>> \o vs)]
      [] e.k = "not" -> [v |-> 1 - AsBool(vs[1]), s |-> s]
      [] e.k = "wv" -> [v |-> 0, s |-> Effect(o, s, <<"write", e.x, vs[1] % Word(e.x)>>)]
      [] e.k = "wvm" -> [v |-> 0, s |-> Modify(o, s, e.x, LAMBDA w : Masked(w, vs[1], vs[2], e.x))]
      [] e.k = "wfs" ->
            [v |-> 0, s |-> Modify(o, s, e.x, LAMBDA w : Fielded(w, Fields1(e.x, e.f, vs), e.x))]
      [] e.k = "wms" ->
            [v |-> 0, s |-> Modify(o, s, e.x, LAMBDA w : Fielded(w, Structs(e.m, e.f, vs), e.x))]
      [] OTHER -> [v |-> Apply(e.k, vs[1], vs[2]), s |-> s]

\* The rest of && or ||: on to the next operand until one decides.
Onward(o, stop, a, e) == IF a.v = stop THEN a ELSE [Eval(o, e, a.s) EXCEPT !.v = AsBool(@)]

EvalWith(o, e, a) == EvalOp(o, e, a.vs, a.s)
Choose(o, e, c) == Eval(o, IF c.v # 0 THEN e.e[2] ELSE e.e[3], c.s)

\* The value of e, and the state after it.
Eval(o, e, s) ==
    CASE e.k = "lit" -> [v |-> e.n, s |-> s]
      [] e.k = "var" -> [v |-> s.env[e.n], s |-> s]
      [] e.k = "and" -> FoldLeft(LAMBDA a, x : Onward(o, 0, a, x), [v |-> 1, s |-> s], e.e)
      [] e.k = "or"  -> FoldLeft(LAMBDA a, x : Onward(o, 1, a, x), [v |-> 0, s |-> s], e.e)
      [] e.k = "sel" -> Choose(o, e, Eval(o, e.e[1], s))
      [] OTHER -> EvalWith(o, e, EvalAll(o, e.e, s))

\* A loop after its body: break ends it, continue does not.
After(s) == IF s.ctl = "cont" THEN [s EXCEPT !.ctl = "go"] ELSE s
Out(s)   == IF s.ctl = "brk" THEN [s EXCEPT !.ctl = "go"] ELSE s

\* The rest of a loop whose condition is c, or whose body has ended in s; n is
\* how many iterations a repeat has left.
WhileOn(o, st, n, c) == IF c.s.ctl # "go" THEN c.s
                        ELSE IF c.v = 0 THEN Exec(o, st.b[2], c.s)
                        ELSE Loop(o, st, n, After(Exec(o, st.b[1], c.s)))
RepeatOn(o, st, n, c) == IF c.s.ctl # "go" \/ c.v = 0 THEN c.s ELSE Loop(o, st, n, c.s)
RepeatAgain(o, st, n, s) == IF s.ctl # "go" THEN s ELSE RepeatOn(o, st, n, Eval(o, st.e[1], s))

Loop(o, st, n, s) ==
    CASE s.ctl # "go" -> s
      [] s.ctl = "go" /\ st.k = "while" -> WhileOn(o, st, n, Eval(o, st.e[1], s))
      [] s.ctl = "go" /\ st.k = "repw" -> RepeatAgain(o, st, n, After(Exec(o, st.b[1], s)))
      [] s.ctl = "go" /\ st.k = "repeat" ->
            IF n = 0 THEN s ELSE Loop(o, st, n - 1, After(Exec(o, st.b[1], s)))

Write(n, w) == Assign(w.s, n, w.v)
Arm(o, st, g, hit) == Exec(o, IF hit /\ g.v # 0 THEN st.b[1] ELSE st.b[2], g.s)

Between(o, e, a) == EvalOp(o, e, <<a.vs[1], a.vs[3]>>, a.s)

\* The value e of an assignment to an index at, both evaluated.
EvalPut(o, at, e, s) ==
    CASE s.order = "first" -> Eval(o, e, Eval(o, at, s).s)
      [] s.order = "between" /\ e.k = "add" -> Between(o, e, EvalAll(o, <<e.e[1], at, e.e[2]>>, s))
      [] OTHER -> LET r == Eval(o, e, s) IN [r EXCEPT !.s = Eval(o, at, @).s]

\* A statement whose first expression has been evaluated to r.
ExecWith(o, st, s, r) ==
    CASE st.k = "expr" -> r.s
      [] st.k = "decl" -> LET d == [r.s EXCEPT !.type[st.n] = st.t]
                          IN  IF st.e = <<>> THEN d ELSE Assign(d, st.n, r.v)
      [] st.k = "set" -> Assign(r.s, st.n, r.v)
      [] st.k = "put" -> Write(st.n, EvalPut(o, st.e[1], st.e[2], s))
      [] st.k = "ret" -> IF r.s.ctl = "cut" THEN r.s
                         ELSE [r.s EXCEPT !.ctl = "ret", !.tr = Append(@, <<"ret", r.v>>)]
      [] st.k \in {"brk", "cont"} -> [s EXCEPT !.ctl = st.k]
      [] st.k = "if" -> Exec(o, IF r.v # 0 THEN st.b[1] ELSE st.b[2], r.s)
      [] st.k = "chain" ->
            Exec(o, IF r.v # 0 THEN st.b[1]
                    ELSE IF Len(st.e) = 1 THEN st.b[2]
                    ELSE <<Chain(Tail(st.e), Tail(st.b))>>, r.s)
      [] st.k = "match" -> Arm(o, st, IF r.v = 0 THEN r ELSE Eval(o, st.e[2], r.s), r.v # 0)
      [] st.k = "repeat" -> Out(Loop(o, st, r.v, r.s))
      [] OTHER -> Out(Loop(o, st, 0, s))

ExecOne(o, st, s) ==
    ExecWith(o, st, s, IF st.e = <<>> THEN [v |-> 0, s |-> s] ELSE Eval(o, st.e[1], s))

Exec(o, body, s) == FoldLeft(LAMBDA a, st : IF a.ctl = "go" THEN ExecOne(o, st, a) ELSE a, s, body)

\* What a body does: its trace and, if it was not cut, the values of the
\* locals it declares for itself and of the members.
Shown(s, kept) == [tr |-> s.tr, cut |-> s.ctl = "cut",
                   env |-> [n \in kept |-> IF s.ctl = "cut" THEN 0 ELSE s.env[n]]]
Behaviour(body, o, kept, order) == Shown(Exec(o, body, Start(order)), kept)
=============================================================================
