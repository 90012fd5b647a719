--------------------------- MODULE MCSubgraphSearch ---------------------------
(* Small graphs, patterns and searchers for SubgraphSearch.                *)
EXTENDS SubgraphSearch

\* An undirected graph from its colours, in vertex order, and half its edges.
U(colors, half) ==
    [color |-> [v \in 0 .. Len(colors) - 1 |-> colors[v + 1]],
     edges |-> half \cup {<<e[2], e[1]>> : e \in half}, directed |-> FALSE]

D(colors, arcs) ==
    [color |-> [v \in 0 .. Len(colors) - 1 |-> colors[v + 1]],
     edges |-> arcs, directed |-> TRUE]

\* Undirected graphs: a triangle with a tail, a 4-cycle with a chord, a 4-cycle
\* of three colours, two edges apart; patterns: a vertex, an edge, a path of
\* three, a triangle, a 4-cycle, two vertices apart, nothing.
Tail3    == U(<<1, 1, 1, 2>>, {<<0, 1>>, <<0, 2>>, <<1, 2>>, <<2, 3>>})
Chorded  == U(<<1, 2, 1, 2>>, {<<0, 1>>, <<1, 2>>, <<2, 3>>, <<3, 0>>, <<0, 2>>})
Square   == U(<<1, 2, 3, 2>>, {<<0, 1>>, <<1, 2>>, <<2, 3>>, <<3, 0>>})
Apart    == U(<<1, 2, 1, 2>>, {<<0, 1>>, <<2, 3>>})
Vertex   == U(<<1>>, {})
Edge     == U(<<1, 1>>, {<<0, 1>>})
Edge12   == U(<<1, 2>>, {<<0, 1>>})
Path3    == U(<<1, 1, 2>>, {<<0, 1>>, <<1, 2>>})
Path121  == U(<<1, 2, 1>>, {<<0, 1>>, <<1, 2>>})
Triangle == U(<<1, 1, 1>>, {<<0, 1>>, <<1, 2>>, <<0, 2>>})
Cycle4   == U(<<1, 2, 3, 2>>, {<<0, 1>>, <<1, 2>>, <<2, 3>>, <<0, 3>>})
TwoApart == U(<<1, 1>>, {})
Nothing  == U(<<>>, {})

\* Directed graphs: a 2-cycle with an arc out of it, a 3-cycle with one arc doubled.
Both     == D(<<1, 1, 2>>, {<<0, 1>>, <<1, 0>>, <<1, 2>>, <<0, 2>>})
Cycle3   == D(<<1, 1, 1>>, {<<0, 1>>, <<1, 2>>, <<2, 0>>, <<1, 0>>})
Arc      == D(<<1, 1>>, {<<0, 1>>})
TwoArcs  == D(<<1, 1>>, {<<0, 1>>, <<1, 0>>})
Chain    == D(<<1, 1, 1>>, {<<0, 1>>, <<1, 2>>})
Into2    == D(<<1, 1, 2>>, {<<0, 1>>, <<1, 2>>, <<0, 2>>})

CallsOf(graphs, patterns, stops) ==
    {[graph |-> g, subgraph |-> p, stop |-> s] : g \in graphs, p \in patterns, s \in stops}

MCCalls ==
    CallsOf({Tail3}, {Edge, Path3, TwoApart, Nothing}, BOOLEAN)
        \cup CallsOf({Tail3}, {Triangle}, {FALSE})
        \cup CallsOf({Chorded}, {Path121}, {TRUE})
        \cup CallsOf({Chorded}, {Vertex}, BOOLEAN)
        \cup CallsOf({Square}, {Cycle4}, BOOLEAN)
        \cup CallsOf({Apart}, {Path121}, {FALSE})
        \cup CallsOf({Both}, {Arc, TwoArcs, Into2}, BOOLEAN)
        \cup CallsOf({Cycle3}, {Chain}, BOOLEAN)

\* Every policy, with either kind of graph and of semantics.
MCSearchers ==
    {[directed |-> FALSE, induced |-> FALSE, policy |-> "SUBGRAPH_DEGREE"],
     [directed |-> FALSE, induced |-> TRUE,  policy |-> "GRAPH_DEGREE_SQUARED"],
     [directed |-> FALSE, induced |-> TRUE,  policy |-> "COMBINED"],
     [directed |-> TRUE,  induced |-> FALSE, policy |-> "RANDOM"],
     [directed |-> TRUE,  induced |-> FALSE, policy |-> "SUBGRAPH_DEGREE_SQUARED"],
     [directed |-> TRUE,  induced |-> TRUE,  policy |-> "CONSTANT"]}
=============================================================================
