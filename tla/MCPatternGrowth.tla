--------------------------- MODULE MCPatternGrowth ---------------------------
(* Small lists of graphs for PatternGrowth.                                *)
EXTENDS PatternGrowth

\* An undirected graph from its colours, in vertex order, and half its edges.
U(colors, half) ==
    [color |-> [v \in 0 .. Len(colors) - 1 |-> colors[v + 1]],
     edges |-> half \cup {<<e[2], e[1]>> : e \in half}, directed |-> FALSE]

D(colors, arcs) ==
    [color |-> [v \in 0 .. Len(colors) - 1 |-> colors[v + 1]],
     edges |-> arcs, directed |-> TRUE]

Triangle == U(<<0, 0, 0>>, {<<0, 1>>, <<1, 2>>, <<0, 2>>})
Star     == U(<<0, 0, 1, 0>>, {<<0, 1>>, <<0, 2>>, <<0, 3>>})
Diamond  == U(<<0, 0, 0, 1>>, {<<0, 1>>, <<1, 2>>, <<0, 2>>, <<1, 3>>, <<2, 3>>})
Claw     == U(<<0, 0, 0, 0>>, {<<0, 1>>, <<0, 2>>, <<0, 3>>})
\* Two ways down from vertex 0, one of which ends next to it.
Fork     == U(<<0, 1, 1, 2, 2>>, {<<0, 1>>, <<0, 2>>, <<1, 3>>, <<2, 4>>, <<0, 3>>})
Alone    == U(<<1>>, {})
Square   == U(<<0, 1, 0, 1>>, {<<0, 1>>, <<1, 2>>, <<2, 3>>, <<3, 0>>})
NoVertex == U(<<>>, {})

Cycle    == D(<<0, 0, 0>>, {<<0, 1>>, <<1, 2>>, <<2, 0>>})
Return2  == D(<<0, 1, 0>>, {<<0, 1>>, <<1, 0>>, <<2, 0>>})

Job(gs, num, den) == [graphs |-> gs, alive |-> <<num, den>>]

MCJobs == {Job(<<Diamond, Triangle>>, 1, 2),
           Job(<<Star, Square, Alone>>, 1, 3),
           Job(<<Triangle, Claw>>, 1, 2), Job(<<Triangle, Claw>>, 1, 1),
           Job(<<Fork>>, 1, 1),
           Job(<<Cycle, Return2>>, 1, 2), Job(<<Return2, Square>>, 1, 2),
           Job(<<NoVertex>>, 1, 2), Job(<<>>, 1, 2)}
=============================================================================
