--------------------------- MODULE MCPureActivity ---------------------------
(* Pool 1 has two instances and pool 2 one; two stream channels.  Two threads *)
(* of one or two traversals each, and forks of three threads.                *)
EXTENDS PureActivity

MCPool == {1, 2}
MCCap == [p \in MCPool |-> IF p = 1 THEN 2 ELSE 1]
MCThread == 1 .. 3
MCChan == {"s", "d"}

Cl(p, kd) == [pool |-> p, kind |-> kd]
Tr(cs, gs, ps) == [claims |-> cs, gets |-> gs, puts |-> ps]

Claims == {<<>>, <<Cl(1, "lock")>>, <<Cl(1, "share")>>,
           <<Cl(1, "share"), Cl(2, "lock")>>, <<Cl(1, "lock"), Cl(1, "lock")>>}
Plain == {Tr(cs, <<>>, <<>>) : cs \in Claims}
Short == {<<a>> : a \in Plain}
Long  == {<<a, b>> : a \in Plain, b \in Plain}

\* a producer and a consumer of two items each, holding claims
Send(cs) == <<Tr(cs, <<>>, <<"s">>), Tr(<<>>, <<>>, <<"s">>)>>
Recv(cs) == <<Tr(cs, <<"s">>, <<>>), Tr(<<>>, <<"s">>, <<>>)>>

\* a stage that passes two items on, and the last of a chain
Pass(cs) == <<Tr(cs, <<"s">>, <<"d">>), Tr(<<>>, <<"s">>, <<"d">>)>>
Last == <<Tr(<<>>, <<"d", "d">>, <<>>)>>
\* two threads that wait for each other's item
Turn == <<Tr(<<>>, <<"d">>, <<"s">>)>>
Back == <<Tr(<<>>, <<"s">>, <<"d">>)>>

Rd == <<Tr(<<Cl(1, "share")>>, <<>>, <<>>)>>
Wr == <<Tr(<<Cl(1, "lock")>>, <<>>, <<>>)>>

MCScenario ==
    {<<a, b>> : a \in Short, b \in Long}
    \cup {<<Send(cs), Recv(ds)>> : cs \in Claims, ds \in Claims}
    \cup {<<Send(cs), Recv(ds), Wr>> : cs \in Claims, ds \in Claims}
    \cup {<<Send(<<>>), Pass(cs), Last>> : cs \in Claims}
    \cup {<<Send(cs), Pass(<<Cl(1, "lock")>>), Last>> : cs \in {<<Cl(1, "share")>>, <<Cl(2, "lock")>>}}
    \cup {<<Last, Turn, Back>>, <<Tail(Send(<<>>)), Tail(Send(<<>>)), Recv(<<>>)>>}
    \cup {<<Wr \o Wr, Rd \o Rd, Rd>>, <<Wr, Wr, Wr>>}
=============================================================================
