---------------------------- MODULE MCIntSemantics ----------------------------
(* Constants for IntSemantics: an int of 4 bits, and expressions with one or
   two operations over variables and literals of the widths around it. *)
EXTENDS IntSemantics

U(w) == Type(w, FALSE)
S(w) == Type(w, TRUE)

MCValues(t) == {Lowest(t), Highest(t), 1} \cup (IF t.s THEN {-1} ELSE {2^(t.w - 1)})

Leaves == {Var("a", U(2)), Var("c", U(3)), Var("d", U(4)), Var("p", S(3)), Var("q", S(4)),
           Var("m", U(6)), Var("n", S(8)), Lit(1, CInt), Lit(3, U(2)), Lit(6, CInt), Lit(0, CInt)}
Few == {Var("a", U(2)), Var("q", S(4)), Var("m", U(6))}
Few2 == {Var("d", U(4)), Var("p", S(3)), Lit(1, CInt)}
Casts == {U(2), U(4), S(3), S(4), S(6), U(8)}
Binary == ContextBinary \cup Shifts

\* A shift amount stays small, for the integers of TLC.
Tame(e) == \/ e.k \notin Shifts
           \/ e.e[2].k \in {"var", "lit"} /\ e.e[2].t.w <= 4 /\ (e.e[1].k = "shl" => e.e[2].t.w < 4)

\* Selected bits, and powers.
Other == {Bits(Var(x, t), lo, w) : x \in {"c"}, t \in {U(4), S(4), S(6), U(8)}, lo \in {0, 2}, w \in {1, 2}}
         \cup {Bin(op, Bits(Var("c", t), 1, 3), y) : op \in {"add", "lt", "shr", "mul"}, t \in {S(4), S(6), U(8)}, y \in Few2 \cup {Lit(3, U(2))}}
         \cup {Bin("pow", x, y) : x \in Few \cup {Var("p", S(3)), Lit(3, U(2))}, y \in {Var("b", U(2)), Var("p", S(3)), Lit(2, CInt)}}
         \cup {Bin("pow", Bin(op, x, y), Var("b", U(2))) : op \in {"add", "sub"}, x \in Few, y \in Few2}
         \cup {Bin(op, Bin("pow", x, Var("b", U(2))), y) : op \in {"add", "shr", "lt"}, x \in Few, y \in Few2}

Once == {Bin(op, x, y) : op \in Binary \cup Relational, x, y \in Leaves}
        \cup {Neg(x) : x \in Leaves} \cup {Inv(x) : x \in Leaves} \cup {Cast(t, x) : t \in Casts, x \in Leaves}
Small == {Bin(op, x, y) : op \in Binary, x \in Few, y \in Few2} \cup {Neg(x) : x \in Few} \cup {Inv(x) : x \in Few}
         \cup {Sel(Bin("lt", Var("a", U(2)), Lit(1, CInt)), x, y) : x \in Few, y \in Few2}
Twice == {Bin(op, x, y) : op \in Binary \cup {"lt"}, x \in Small, y \in {Var("p", S(3)), Lit(3, U(2))}}
         \cup {Bin(op, y, x) : op \in {"sub", "div", "mod", "lt", "band"}, x \in Small, y \in {Var("d", U(4))}}
         \cup {Cast(t, x) : t \in Casts, x \in Small}
         \cup {Bin(op, Cast(t, x), y) : op \in {"lt", "shr"}, t \in Casts, x \in Small, y \in {Var("p", S(3))}}
         \cup {Neg(x) : x \in Small} \cup {Inv(x) : x \in Small}

Whole(t) == [t |-> t, bits |-> <<>>]
Part(t, lo, w) == [t |-> t, bits |-> <<lo, w>>]
Wholes == {Whole(t) : t \in {U(2), S(3), S(4), S(6), U(8)}}
SomeBits == {Part(U(4), 0, 2), Part(U(3), 1, 2), Part(S(3), 0, 1), Part(S(4), 2, 2), Part(S(6), 1, 4), Part(U(8), 3, 5)}

MCAssignments == ({e \in Leaves \cup Once \cup Twice \cup Other : Tame(e)} \X Wholes)
                 \cup ((Leaves \cup Small) \X SomeBits)

\* Signed casts of what is computed unsigned.
MCCasts == {Bin("lt", Cast(S(w), x), y) : w \in {3, 4, 6}, x \in Small, y \in {Var("p", S(3)), Lit(0, CInt)}} \X Wholes
=============================================================================
