-------------------------------- MODULE RegRmw --------------------------------
(***************************************************************************)
(* The masked and field-wise register writes (reg_rmw.py): reduced to the  *)
(* primitive write_val_masked(mask, value) while a model is translated,    *)
(* and with --reg-rmw=expand rewritten as a read and a write.              *)
(***************************************************************************)
EXTENDS ExecBody

CONSTANT WriteOnly   \* the registers that cannot be read

IsConst(e) == e.k = "lit"
Ones(n) == 2^n - 1

\* _and_lit and _shl_lit; a literal folds, also a negative one (~0 is -1).
AndLit(e, n) == IF IsConst(e) THEN Lit(e.n % 2^n) ELSE Bin("band", e, Lit(Ones(n)))
Shl(e, n) == IF IsConst(e) THEN Lit(e.n * 2^n) ELSE Bin("shl", e, Lit(n))

\* Faulty: a value that is too wide spills into the next field.
PlaceUntruncated(e, slice) == Shl(e, slice.lsb)

\* The value at its place in the register.
Place(e, slice) == Shl(AndLit(e, slice.width), slice.lsb)

\* The constants are folded into one literal, the rest keep their order.
OrAll(es) ==
    LET dyn == SelectSeq(es, LAMBDA e : ~IsConst(e))
        acc == FoldLeft(LAMBDA a, e : IF IsConst(e) THEN a | e.n ELSE a, 0, es)
        all == IF acc = 0 /\ dyn # <<>> THEN dyn ELSE Append(dyn, Lit(acc))
    IN  FoldLeft(LAMBDA a, e : Bin("bor", a, e), Head(all), Tail(all))

-----------------------------------------------------------------------------
(* reduce() *)

RECURSIVE HasCall(_)
HasCall(e) == e.k \in {"read", "call"} \/ \E arg \in Range(e.e) : HasCall(arg)

Known(reg, names) == /\ reg \notin WriteOnly
                     /\ Range(names) \subseteq DOMAIN Fields[reg]
                     /\ IsInjective(names)

\* An access that _mask_and_val or _reduce_call reports as an error.
IsRefusedWrite(e) ==
    \/ e.k = "wvm" /\ e.x \in WriteOnly
    \/ e.k = "wfs" /\ ~Known(e.x, e.f)
    \/ /\ e.k = "wms"
       /\ LET names == [i \in DOMAIN e.m |-> e.m[i].name]
          IN  \/ ~Known(e.x, names) \/ ~Known(e.x, e.f)
              \* a zero mask, and a call in a value that the mask leaves out
              \/ \E i \in DOMAIN names : e.m[i].mask % 2^Fields[e.x][names[i]].width = 0
              \/ \E i \in DOMAIN e.f : e.f[i] \notin Range(names) /\ HasCall(e.e[i])

Packed(reg, names, es) == OrAll([i \in DOMAIN es |-> Place(es[i], Fields[reg][names[i]])])

\* _reduce_call.
ReduceCall(e) ==
    CASE e.k = "wfs" ->
            WriteMasked(e.x, Packed(e.x, e.f, [i \in DOMAIN e.f |-> Lit(All(e.x, e.f[i]))]),
                             Packed(e.x, e.f, e.e))
      [] e.k = "wms" ->
            WriteMasked(e.x, Packed(e.x, [i \in DOMAIN e.m |-> e.m[i].name],
                                         [i \in DOMAIN e.m |-> Lit(e.m[i].mask)]),
                             Packed(e.x, e.f, e.e))
      [] OTHER -> e

RECURSIVE Reduce(_), AnyRefused(_)
\* Every write of a body, the ones in nested bodies included.
Reduce(body) ==
    [i \in DOMAIN body |->
        [body[i] EXCEPT !.e = [j \in DOMAIN @ |-> ReduceCall(@[j])],
                        !.b = [j \in DOMAIN @ |-> Reduce(@[j])]]]

AnyRefused(body) ==
    \E st \in Range(body) : \/ \E e \in Range(st.e) : IsRefusedWrite(e)
                            \/ \E b \in Range(st.b) : AnyRefused(b)

-----------------------------------------------------------------------------
(* expand_all() *)

RECURSIVE Masks(_), ExpandFrom(_, _)
\* How many statements are masked writes.
Masks(body) == FoldLeft(LAMBDA a, st : a + (IF st.k = "expr" /\ st.e[1].k = "wvm" THEN 1 ELSE 0)
                                         + FoldLeft(LAMBDA c, b : c + Masks(b), 0, st.b), 0, body)

\* Faulty: the bits that are kept are the ones that are written.
MinusSelected(e, m, reg) == Bin("band", e, m)

Minus(e, m, reg) == IF IsConst(m) THEN Bin("band", e, Lit(Ones(Width[reg]) - m.n))
                                  ELSE Bin("band", e, Bin("bxor", Lit(Ones(Width[reg])), m))

AndMask(v, m) == IF IsConst(m) /\ IsConst(v) THEN Lit(v.n & m.n) ELSE Bin("band", v, m)

\* _Expander.stmt: one temporary for each masked write.
ExpandWrite(e, tmp) ==
    << Set(tmp, Read(e.x, <<>>)),
       Expr(WriteVal(e.x, Bin("bor", Minus(Var(tmp), e.e[1], e.x), AndMask(e.e[2], e.e[1])))) >>

\* The bodies of a statement come before it; n numbers the temporaries.
ExpandFrom(body, n) ==
    FoldLeft(LAMBDA a, st :
                 LET bs == FoldLeft(LAMBDA c, b : [b |-> Append(c.b, ExpandFrom(b, c.n).body),
                                                  n |-> c.n + Masks(b)],
                                    [b |-> <<>>, n |-> a.n], st.b)
                     new == [st EXCEPT !.b = bs.b]
                 IN  IF st.k = "expr" /\ st.e[1].k = "wvm"
                     THEN [body |-> a.body \o ExpandWrite(st.e[1], bs.n), n |-> bs.n + 1]
                     ELSE [body |-> Append(a.body, new), n |-> bs.n],
             [body |-> <<>>, n |-> n], body)

\* _expand_one: the declarations go to the top.
Expand(body, first) ==
    LET r == ExpandFrom(body, first)
        decls == [i \in 1..(r.n - first) |-> Decl(first + i - 1, Wide, <<>>)]
    IN  decls \o r.body
=============================================================================
