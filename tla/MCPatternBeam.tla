---------------------------- MODULE MCPatternBeam ----------------------------
(* Small background and search graphs for PatternBeam.                     *)
EXTENDS PatternBeam

\* An undirected graph from its colours, in vertex order, and half its edges.
U(colors, half) ==
    [color |-> [v \in 0 .. Len(colors) - 1 |-> colors[v + 1]],
     edges |-> half \cup {<<e[2], e[1]>> : e \in half}, directed |-> FALSE]

D(colors, arcs) ==
    [color |-> [v \in 0 .. Len(colors) - 1 |-> colors[v + 1]],
     edges |-> arcs, directed |-> TRUE]

Diamond == U(<<0, 1, 0, 1>>, {<<0, 1>>, <<1, 2>>, <<0, 2>>, <<1, 3>>, <<2, 3>>})
Parts   == U(<<0, 1, 1, 1>>, {<<0, 1>>, <<2, 3>>})
Claw    == U(<<0, 2, 2, 2, 2>>, {<<0, 1>>, <<0, 2>>, <<0, 3>>, <<3, 4>>})
Pair    == U(<<0, 1>>, {<<0, 1>>})
NoColor == U(<<0, 0, 0>>, {<<0, 1>>})
\* Of colours the background lacks: a star around one it has, and the same a step away.
Star    == U(<<0, 2, 2, 2, 2>>, {<<0, 1>>, <<0, 2>>, <<0, 3>>, <<0, 4>>})
Comb    == U(<<2, 0, 0, 2, 2, 2>>, {<<0, 1>>, <<1, 2>>, <<2, 3>>, <<2, 4>>, <<2, 5>>})
Nothing == U(<<>>, {})
Knot    == D(<<0, 0, 1>>, {<<0, 1>>, <<1, 0>>, <<1, 2>>, <<0, 2>>})
Ring    == D(<<0, 1, 0>>, {<<0, 1>>, <<1, 2>>, <<2, 0>>})

Job(b, s, k) == [background |-> b, search |-> s, max_active |-> k]

MCJobs == {Job(Diamond, Diamond, 3), Job(Parts, Parts, 6), Job(Parts, Diamond, 2),
           Job(NoColor, Claw, 3), Job(NoColor, Pair, 6), Job(NoColor, Star, 3),
           Job(NoColor, Comb, 3), Job(Ring, Knot, 3), Job(Diamond, Nothing, 3)}

BinomialJobs == {Job(Ring, Knot, 3)}
=============================================================================
