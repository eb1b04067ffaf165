------------------------------ MODULE EffectSeq ------------------------------
(***************************************************************************)
(* The pass that moves register reads out of expressions (effect_seq.py):  *)
(* what it makes of a body, or that it refuses it.                         *)
(*                                                                         *)
(* A result has the statements or expression, the next number of a fresh   *)
(* local, and "bad" if the pass raised a Refusal on the way.               *)
(***************************************************************************)
EXTENDS ExecBody

RECURSIVE HasRead(_), Uses(_), UsesIn(_), LoopContinue(_)
HasRead(e) == e.k = "read" \/ \E i \in DOMAIN e.e : HasRead(e.e[i])

\* _names: the locals a body refers to, the declared ones included.
Uses(e) == (IF e.k = "var" THEN {e.n} ELSE {}) \cup UNION {Uses(x) : x \in Range(e.e)}
UsesIn(body) == UNION { {st.n} \cup UNION {Uses(e) : e \in Range(st.e)}
                               \cup UNION {UsesIn(b) : b \in Range(st.b)} : st \in Range(body) }

\* Faulty: the names of the body are not avoided.
FreshUnchecked(used, n) == n

\* _fresh_names: the next number whose name the body does not use.
Fresh(used, n) == CHOOSE m \in Locals : m >= n /\ m \notin used /\ \A k \in n..(m - 1) : k \in used

Loops == {"while", "repw", "repeat"}

\* Faulty: a continue of a nested loop counts too.
LoopContinueNested(body) ==
    \E st \in Range(body) : st.k = "cont" \/ \E b \in Range(st.b) : LoopContinue(b)

\* A continue that belongs to the loop around the body.
LoopContinue(body) ==
    \E st \in Range(body) : \/ st.k = "cont"
                            \/ st.k \notin Loops /\ \E b \in Range(st.b) : LoopContinue(b)

TypeOfRead(e) == Width[e.x]

-----------------------------------------------------------------------------
(* Expressions: pre is to run first, res if an unmatched call is left in e *)

RECURSIVE SeqExpr(_, _, _)

\* Faulty: a read is moved past a call that is evaluated before it.
NextReordering(a, r) == [pre |-> a.pre \o r.pre, es |-> Append(a.es, r.e),
                         res |-> a.res \/ r.res, n |-> r.n, bad |-> a.bad \/ r.bad]

\* The next operand; it may not have its reads moved past a call that is left.
NextChild(a, r) == [pre |-> a.pre \o r.pre, es |-> Append(a.es, r.e),
                    res |-> a.res \/ r.res, n |-> r.n,
                    bad |-> a.bad \/ r.bad \/ (r.pre # <<>> /\ a.res)]

\* _children: the operands from left to right.
Children(es, used, n) ==
    FoldLeft(LAMBDA a, x : NextChild(a, SeqExpr(x, used, a.n)),
             [pre |-> <<>>, es |-> <<>>, res |-> FALSE, n |-> n, bad |-> FALSE], es)

Rebuilt(e, c) == [pre |-> c.pre, e |-> [e EXCEPT !.e = c.es], res |-> c.res, n |-> c.n, bad |-> c.bad]

\* A sequence of expressions, each on its own.
NextResult(a, r) == [rs |-> Append(a.rs, r), n |-> r.n, bad |-> a.bad \/ r.bad]
SeqEach(es, used, n) ==
    FoldLeft(LAMBDA a, x : NextResult(a, SeqExpr(x, used, a.n)), [rs |-> <<>>, n |-> n, bad |-> FALSE], es)

\* "t = a; if (t) { t = b; }", one nested if for each later operand.
ShortCode(e, t, left, later) ==
    LET test == IF e.k = "and" THEN Var(t) ELSE Not1(Var(t))
        nest == FoldRight(LAMBDA r, inner : <<If(test, r.pre \o <<Set(t, r.e)>> \o inner, <<>>)>>,
                          later.rs, <<>>)
    IN  [pre |-> left.pre \o <<Decl(t, Bool, <<left.e>>)>> \o nest, e |-> Var(t), res |-> FALSE,
         n |-> later.n, bad |-> left.bad \/ later.bad]

ShortRest(e, k, used, t, left) ==
    ShortCode(e, t, left, SeqEach(SubSeq(e.e, k, Len(e.e)), used, t + 1))

\* The operands before the k-th, the first of the later ones with a read, stay together.
ShortFrom(e, k, used, n) ==
    LET left == SeqExpr(IF k = 2 THEN e.e[1] ELSE [e EXCEPT !.e = SubSeq(@, 1, k - 1)], used, n)
    IN  ShortRest(e, k, used, Fresh(used, left.n), left)

ShortCircuit(e, used, n) ==
    ShortFrom(e, Min({i \in 2..Len(e.e) : HasRead(e.e[i])}), used, n)

\* _select_type, without a type_of: the arms that are reads give the type.
ReadArms(e) == {e.e[i] : i \in {j \in 2..3 : e.e[j].k = "read"}}
SelectType(e) == Max({TypeOfRead(a) : a \in ReadArms(e)})

\* "if (c) { t = a; } else { t = b; }".
SelectCode(e, t, c, arms) ==
    LET arm(i) == arms.rs[i].pre \o <<Set(t, arms.rs[i].e)>>
    IN  [pre |-> c.pre \o <<Decl(t, SelectType(e), <<>>), If(c.e, arm(1), arm(2))>>,
         e |-> Var(t), res |-> FALSE, n |-> arms.n, bad |-> c.bad \/ arms.bad]

SelectArms(e, used, t, c) == SelectCode(e, t, c, SeqEach(Tail(e.e), used, t + 1))
SelectFrom(e, used, c) == SelectArms(e, used, Fresh(used, c.n), c)

Select(e, used, n) ==
    IF ReadArms(e) = {} THEN [pre |-> <<>>, e |-> e, res |-> FALSE, n |-> n, bad |-> TRUE]
                        ELSE SelectFrom(e, used, SeqExpr(e.e[1], used, n))

\* A read becomes the declaration of a local.
ReadFrom(e, t, c) == [pre |-> Append(c.pre, Decl(t, TypeOfRead(e), <<[e EXCEPT !.e = c.es]>>)),
                      e |-> Var(t), res |-> FALSE, n |-> t + 1, bad |-> c.bad]
Hoisted(e, used, c) == ReadFrom(e, Fresh(used, c.n), c)

\* _expr.
SeqExpr(e, used, n) ==
    CASE e.k = "read" -> Hoisted(e, used, Children(e.e, used, n))
      [] e.k \in {"and", "or"} /\ \E i \in 2..Len(e.e) : HasRead(e.e[i]) -> ShortCircuit(e, used, n)
      [] e.k = "sel" /\ (HasRead(e.e[2]) \/ HasRead(e.e[3])) -> Select(e, used, n)
      [] OTHER -> [Rebuilt(e, Children(e.e, used, n)) EXCEPT !.res = @ \/ e.k \in {"call", "wv", "wvm"}]

-----------------------------------------------------------------------------
(* Statements *)

RECURSIVE SeqStmt(_, _, _), SeqChain(_, _, _, _)

NextStmt(a, r) == [ss |-> a.ss \o r.ss, n |-> r.n, bad |-> a.bad \/ r.bad]
SeqBody(body, used, n) ==
    FoldLeft(LAMBDA a, st : NextStmt(a, SeqStmt(st, used, a.n)), [ss |-> <<>>, n |-> n, bad |-> FALSE], body)

\* The bodies of a statement, one after the other.
NextBody(a, r) == [bs |-> Append(a.bs, r.ss), n |-> r.n, bad |-> a.bad \/ r.bad]
SeqBodies(bs, used, n) ==
    FoldLeft(LAMBDA a, b : NextBody(a, SeqBody(b, used, a.n)), [bs |-> <<>>, n |-> n, bad |-> FALSE], bs)

\* Faulty: a read that is the whole value is left in any statement.
MayStayAnywhere(st, e) == e.k = "read"

\* A read that is the whole value of these statements is left where it is.
MayStay(st, e) == e.k = "read" /\ st.k \in {"expr", "decl", "set"}

\* _stmt: its i-th expression sequenced to r.  "t;" of a sequenced "a && f()" is dropped.
Replaced(st, i, r) ==
    [ss |-> IF st.k = "expr" /\ r.pre # <<>> /\ r.e.k = "var" THEN r.pre
            ELSE Append(r.pre, [st EXCEPT !.e[i] = r.e]),
     n |-> r.n, bad |-> r.bad]

Simple(st, i, used, n) ==
    LET e == st.e[i]
    IN  Replaced(st, i, IF MayStay(st, e) THEN Rebuilt(e, Children(e.e, used, n)) ELSE SeqExpr(e, used, n))

\* _head: the reads of the head before the statement, then its bodies.
HeadOver(st, h, b) == [ss |-> Append(h.pre, [st EXCEPT !.e[1] = h.e, !.b = b.bs]),
                       n |-> b.n, bad |-> h.bad \/ b.bad]
HeadFrom(st, used, h) == HeadOver(st, h, SeqBodies(st.b, used, h.n))
HeadOf(st, used, n) == HeadFrom(st, used, SeqExpr(st.e[1], used, n))

\* _chain: split at j, the first later test with a read.
ChainOver(cs, j, t0, h, tl) ==
    [ss |-> Append(t0.pre, Chain(<<t0.e>> \o SubSeq(cs, 2, j - 1), Append(h.bs, tl.ss))),
     n |-> tl.n, bad |-> t0.bad \/ h.bad \/ tl.bad]
ChainTail(cs, bs, j, used, t0, h) ==
    ChainOver(cs, j, t0, h,
              IF j > Len(cs) THEN SeqBody(bs[j], used, h.n)
              ELSE SeqChain(SubSeq(cs, j, Len(cs)), SubSeq(bs, j, Len(bs)), used, h.n))
ChainFrom(cs, bs, j, used, t0) ==
    ChainTail(cs, bs, j, used, t0, SeqBodies(SubSeq(bs, 1, j - 1), used, t0.n))
SeqChain(cs, bs, used, n) ==
    ChainFrom(cs, bs, Min({i \in 2..Len(cs) : HasRead(cs[i])} \cup {Len(cs) + 1}), used,
              SeqExpr(cs[1], used, n))

\* "reads; if (!c) break;"
Until(r) == Append(r.pre, If(Not1(r.e), <<Break>>, <<>>))

\* The reads of the condition go to the top of the body.
WhileOver(st, c, b) == [ss |-> <<While(Lit(1), Until(c) \o b.ss, <<>>)>>, n |-> b.n,
                        bad |-> c.bad \/ b.bad \/ st.b[2] # <<>>]
WhileFrom(st, used, c) == WhileOver(st, c, SeqBody(st.b[1], used, c.n))
SeqWhile(st, used, n) == WhileFrom(st, used, SeqExpr(st.e[1], used, n))

\* ... of a repeat ... while, to the end.
RepeatOver(st, b, c) == [ss |-> <<RepeatWhile(b.ss \o Until(c), Lit(1))>>, n |-> c.n,
                         bad |-> c.bad \/ b.bad \/ LoopContinue(st.b[1])]
RepeatFrom(st, used, b) == RepeatOver(st, b, SeqExpr(st.e[1], used, b.n))
SeqRepeatWhile(st, used, n) == RepeatFrom(st, used, SeqBody(st.b[1], used, n))

\* A statement whose expressions hold no read.
NestedOver(st, b) == [ss |-> <<[st EXCEPT !.b = b.bs]>>, n |-> b.n, bad |-> b.bad]
Nested(st, used, n) == NestedOver(st, SeqBodies(st.b, used, n))

Refusing(r) == [r EXCEPT !.bad = TRUE]

\* visit_Stmt<kind>.
SeqStmt(st, used, n) ==
    CASE st.k \in {"expr", "decl", "set"} ->
            IF st.e = <<>> THEN Nested(st, used, n) ELSE Simple(st, 1, used, n)
      [] st.k = "put" -> IF HasRead(st.e[1]) THEN Refusing(Nested(st, used, n))
                         ELSE Simple(st, 2, used, n)
      [] st.k = "ret" -> Simple(st, 1, used, n)
      [] st.k \in {"if", "repeat"} -> HeadOf(st, used, n)
      [] st.k = "match" -> IF HasRead(st.e[2]) THEN Refusing(Nested(st, used, n)) ELSE HeadOf(st, used, n)
      [] st.k = "chain" -> SeqChain(st.e, st.b, used, n)
      [] st.k = "while" /\ HasRead(st.e[1]) -> SeqWhile(st, used, n)
      [] st.k = "repw" /\ HasRead(st.e[1]) -> SeqRepeatWhile(st, used, n)
      [] OTHER -> Nested(st, used, n)

\* sequence(): the numbers of fresh locals start at first.
Sequence(body, first) == SeqBody(body, UsesIn(body), first)
=============================================================================
