------------------------------ MODULE MCClixml -------------------------------
(* An instance of Clixml for TLC.                                           *)
EXTENDS Clixml

\* "_", "x", "005F", "xD834_", "XDD1E_", U+0001, U+1D11E, "<" and U+FFFF
MCBlocks ==
    {<<95>>, <<120>>, <<48, 48, 53, 70>>, <<120, 68, 56, 51, 52, 95>>,
     <<88, 68, 68, 49, 69, 95>>, <<1>>, <<119070>>, <<60>>, <<65535>>}

\* "b" stands for a name like "a&amp;b", "c" for one like "a&b" or "List<T>".
MCRaw(n) == IF n = "b" THEN "bRead" ELSE IF n = "c" THEN NoXml ELSE n

\* p2 and p3 share p1 and a type; p4 holds itself.
MCHeap(t) ==
    [p1 |-> Object(<<"A", "Object">>, t, <<>>, <<Named("s", Str(t))>>),
     p2 |-> Object(<<"B">>, <<66>>, <<Named("m", Pointer("p1")), Named("n", Nil)>>, <<>>),
     p3 |-> Object(<<"A", "Object">>, <<>>, <<Named("lost", Nil)>>,
                   <<Named("l", Array(<<Pointer("p1"), Nil>>)), Named("q", Pointer("p2"))>>),
     p4 |-> Object(<<>>, <<>>, <<>>, <<Named("self", Pointer("p4"))>>),
     p5 |-> Object(<<"c", "Object">>, t, <<Named("b", Nil)>>, <<>>)]

Nested[n \in 0..8] == IF n = 0 THEN Prim("I32", 1) ELSE Array(<<Nested[n - 1]>>)

Script(t) ==
    PowerShellToPSObject(
        [nested |-> FALSE, noInput |-> TRUE,
         commands |-> <<[name |-> t, script |-> TRUE,
                         parameters |-> <<[name |-> <<>>, value |-> Pointer("p1")],
                                          [name |-> <<80>>, value |-> Pointer("p1")],
                                          [name |-> <<>>, value |-> Nil]>>]>>])

MCRunspace == [i \in 1..16 |-> i]
MCPipelineID == [c \in Clients |-> [i \in 1..16 |-> 15 * i]]

MCSymmetry == {p @@ q : p \in Permutations(Clients), q \in Permutations(Serializers)}

MCInputs(t) ==
    {Str(t), Table(<<Entry(t, Array(<<Str(t)>>)), Entry(<<75>>, Table(<<>>))>>),
     Array(<<Map(<<Entry(Str(t), Pointer("p1"))>>), Table(<<Entry(<<75>>, Pointer("p1"))>>)>>),
     Map(<<Entry(Prim("I32", 7), Version(<<50, 46, 51>>)), Entry(Str(<<75>>), Nil)>>),
     Pointer("p3"), Pointer("p4"), Nested[7], Nested[8],
     Array(<<Pointer("p2"), Unsupported>>), Script(t),
     Array(<<Pointer("p5"), TypedList(<<"c", "Object">>, <<Enum("b", 1, t)>>)>>),
     Array(<<TypedList(<<"c", "Object">>, <<>>), Pointer("p5")>>),
     Members(<<Named("a", Nil), Named("c", Pointer("p1"))>>)}
=============================================================================
