----------------------------- MODULE MCBodyPasses -----------------------------
(* Constants for BodyPasses: the bodies are every use of a set of expressions
   in every kind of statement, and the masked writes in their spellings. *)
EXTENDS BodyPasses

MCWidth == [r \in {"a", "n", "w", "wo"} |-> IF r = "n" THEN 1 ELSE 3]
MCFields == [r \in {"a", "n", "w", "wo"} |->
                IF r = "n" THEN "b" :> [lsb |-> 0, width |-> 1]
                ELSE "lo" :> [lsb |-> 0, width |-> 1] @@ "hi" :> [lsb |-> 1, width |-> 2]]
MCLocals == 0..28
MCMembers == {5}

MCOracles == [1..4 -> {0, 6, 1}]

A == Read("a", <<>>)
N == Read("n", <<>>)
G == Call("g", <<>>)
X == Var(1)

Atoms == {A, G, X}
Simple1 == {Bin("add", p, q) : p, q \in Atoms} \cup {And2(p, q) : p, q \in Atoms}
           \cup {Or2(p, q) : p, q \in Atoms} \cup {Sel(p, q, r) : p, q, r \in Atoms}
Deep == {And2(Not1(p), Or2(q, A)) : p, q \in Atoms}
        \cup {Bin("add", p, And2(q, A)) : p, q \in Atoms}
        \cup {Sel(And2(p, A), q, A) : p, q \in Atoms}
        \cup {[And2(p, q) EXCEPT !.e = Append(@, A)] : p, q \in Atoms}
        \cup {Call("h", <<p, q>>) : p, q \in Atoms}
        \cup {Read("a", <<p>>) : p \in {G, X, And2(X, A)}}
        \cup {Bin("add", G, X), Sel(X, Bin("add", A, Lit(1)), Lit(2))}
Exprs == Atoms \cup Simple1 \cup Deep

H == Expr(Call("h", <<>>))
Few == {A, X, And2(X, A), And2(A, G), Bin("add", G, A), Bin("add", A, G)}

Uses1 == UNION { { <<Expr(e)>>, <<Set(1, e)>>, <<Put(5, Lit(0), e)>>, <<Return(e)>>,
                   <<If(e, <<H>>, <<>>)>> } : e \in Exprs }
         \cup { <<Decl(10, 3, <<e>>), Set(2, Bin("add", Var(10), A))>> : e \in Few }
         \cup { <<If(X, <<Set(1, e)>>, <<Return(e)>>), H>> : e \in Few }
         \cup { <<Put(5, e, f)>> : e, f \in {G, X, Bin("add", G, A), Bin("add", A, G), A, And2(X, A)} }
Uses2 == { <<Chain(<<e, f>>, << <<H>>, <<Set(2, A)>>, <<Return(X)>> >>)>> : e, f \in Few }
         \cup { <<Chain(<<e, X, f, A>>, << <<>>, <<H>>, <<H>>, <<H>>, <<Return(A)>> >>)>> : e, f \in Few }
         \cup { <<While(e, <<Expr(e), If(X, <<Continue>>, <<>>), H>>, o)>> :
                    e \in Few \ {X}, o \in {<<>>, <<H>>} }
         \cup { <<RepeatWhile(b, e)>> : e \in Few, b \in { <<H, Set(1, A)>>,
                    <<H, If(A, <<Continue>>, <<>>), Set(1, A)>>, <<If(A, <<Break>>, <<>>), H>>,
                    <<Repeat(Lit(2), <<If(A, <<Continue>>, <<H>>)>>)>> } }
         \cup { <<Repeat(e, <<Set(1, Bin("add", A, X))>>)>> : e \in Few }
         \cup { <<Match(e, g, <<H>>, <<Set(1, A)>>)>> : e \in Few, g \in {X, G, A} }

Mask(name, m) == [name |-> name, mask |-> m]

\* The spellings of a masked write.
Writes == << WriteFields("w", <<"hi">>, <<X>>), WriteFields("w", <<"hi">>, <<Lit(7)>>),
             WriteFields("w", <<"lo">>, <<Lit(2)>>),
             WriteFields("w", <<"hi", "lo">>, <<X, G>>), WriteFields("w", <<"lo", "hi">>, <<G, A>>),
             WriteFields("w", <<"lo", "lo">>, <<X, X>>), WriteFields("w", <<"no">>, <<X>>),
             WriteStructs("w", <<Mask("hi", -1)>>, <<"hi">>, <<X>>),
             WriteStructs("w", <<Mask("hi", 2)>>, <<"hi">>, <<Lit(3)>>),
             WriteStructs("w", <<Mask("hi", 1), Mask("lo", -1)>>, <<"lo", "hi">>, <<G, Call("h", <<X>>)>>),
             WriteStructs("w", <<Mask("hi", -1)>>, <<"lo">>, <<X>>),
             WriteStructs("w", <<Mask("hi", -1)>>, <<"lo", "hi">>, <<G, X>>),
             WriteStructs("w", <<Mask("hi", -1)>>, <<"lo", "hi">>, <<Bin("add", X, Bin("add", X, G)), X>>),
             WriteStructs("w", <<Mask("hi", 4)>>, <<"hi">>, <<X>>),
             WriteMasked("w", Lit(5), Lit(6)), WriteMasked("w", Lit(6), X), WriteMasked("w", X, Lit(3)),
             WriteMasked("w", Lit(6), A), WriteMasked("w", A, G),
             WriteMasked("wo", Lit(1), Lit(1)) >>

OfWrites == UNION { { <<Set(1, Lit(5)), Expr(w), H>>,
                      <<Set(1, A), Repeat(Lit(2), <<If(X, <<Expr(w)>>, <<H, Expr(w)>>)>>), Expr(w)>> } :
                    w \in Range(Writes) }

\* A read of a narrow register in one arm, a wider value in the other.
MCNarrow == { <<Set(1, A), Return(Sel(p, q, r))>> : p, q, r \in {A, N, X} }

MCBodies == OfWrites \cup Uses1 \cup Uses2 \cup MCNarrow
=============================================================================
