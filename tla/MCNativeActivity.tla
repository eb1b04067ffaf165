-------------------------- MODULE MCNativeActivity --------------------------
(* Pool 1 has two instances and pool 2 one.  Every pair of branches over a  *)
(* small library of actions, and one triple.                                *)
EXTENDS NativeActivity

MCPool == {1, 2}
MCCap == [p \in MCPool |-> IF p = 1 THEN 2 ELSE 1]
MCThread == 1 .. 6

Cl(p, f, kd) == [pool |-> p, field |-> f, kind |-> kd]
\* locks one; locks both pools, the fields named in either order; shares;
\* shares and locks; claims nothing
Reader == {Cl(1, 1, "share")}
Writer == {Cl(1, 1, "lock")}
Both12 == {Cl(1, 1, "lock"), Cl(2, 2, "lock")}
Both21 == {Cl(1, 2, "lock"), Cl(2, 1, "lock")}
Mixed  == {Cl(1, 1, "share"), Cl(2, 2, "lock")}
\* locks two instances of one pool
Pair   == {Cl(1, 1, "lock"), Cl(1, 2, "lock")}

Do(cs)     == [kind |-> "do", claims |-> cs]
Handle(cs) == [kind |-> "handle", claims |-> cs]
Seqn(ss)   == [kind |-> "sequence", stmts |-> ss]
Atomic(ss) == [kind |-> "atomic", stmts |-> ss]

Branch == {Do(cs) : cs \in {Reader, Writer, Both12, Both21, Mixed, Pair}}
          \cup {Handle(Writer),
                Atomic(<<>>), Atomic(<<Do(Writer)>>),
                Seqn(<<Atomic(<<Do({}), Do(Writer)>>)>>),
                Seqn(<<Atomic(<<Do(Reader)>>), Do(Both21)>>)}

Pairs == {<<s, r>> : s \in Branch, r \in Branch}
MCScenario == Pairs \cup {<<Do(Reader), Do(Reader), Do(Writer)>>}

\* two anonymous traversals that lock a pair of instances each
MCPairs == {<<Do(Pair), Do(Pair)>>}
=============================================================================
