----------------------------- MODULE Allocator -----------------------------
(***************************************************************************)
(* What a scenario may expect of its resource pools: the abstract          *)
(* specification that both SystemVerilog lowerings implement.  A claim is  *)
(* granted one instance, which nobody else has unless both only share it,  *)
(* keeps that instance, and gives it back once.                            *)
(***************************************************************************)

VARIABLE held    \* the grants that are out: [by, of, kind]

Init == held = {}

Grant(g) == /\ \A h \in held : h.by # g.by
            /\ \A h \in held : h.of = g.of => h.kind = "share" /\ g.kind = "share"
            /\ held' = held \cup {g}

Return(g) == g \in held /\ held' = held \ {g}

Next == \/ \E g \in held' : Grant(g)
        \/ \E g \in held : Return(g)

Spec == Init /\ [][Next]_held
=============================================================================
