---------------------------- MODULE ColoredGraphs ----------------------------
(***************************************************************************)
(* The read interface of ColoredGraph, as the searcher and the enumerators *)
(* use it.  A graph is a record                                            *)
(*   color    : [0 .. n-1 -> colours]   m_colors                           *)
(*   edges    : a set of pairs <<u, w>>; the compressed-row arrays         *)
(*              m_neighbours / m_index_of_neighbours hold one entry per    *)
(*              pair, and an undirected graph stores both directions       *)
(*   directed : m_directed                                                 *)
(* Construction drops self-loops and repeated edges, so a set is exactly   *)
(* what the arrays hold.  The searcher ignores edge colours.               *)
(***************************************************************************)
EXTENDS Integers, FiniteSets

\* The function itself, which TLC evaluates once instead of at every application.
Table(f) == CHOOSE t \in {f} : t = f

Vertices(g) == DOMAIN g.color

vertex_count(g) == Cardinality(Vertices(g))

get_vertex_color(g, v) == g.color[v]

is_edge(g, u, w) == <<u, w>> \in g.edges

\* The rows of the reversed arrays are the in-neighbours; an undirected graph
\* answers a reversed query from its only arrays, which are symmetric.
get_neighbours(g, v, reversed) ==
    IF reversed THEN {w \in Vertices(g) : is_edge(g, w, v)}
                ELSE {w \in Vertices(g) : is_edge(g, v, w)}

out_degree(g, v) == Cardinality(get_neighbours(g, v, FALSE))

in_degree(g, v) == Cardinality(get_neighbours(g, v, TRUE))

\* What the constructors leave behind: vertices 0 .. n-1, no self-loop, no
\* dangling end, and both directions of every edge of an undirected graph.
IsColoredGraph(g) ==
    /\ IsFiniteSet(Vertices(g)) /\ Vertices(g) = 0 .. vertex_count(g) - 1
    /\ \A e \in g.edges : \E u, w \in Vertices(g) : u # w /\ e = <<u, w>>
    /\ g.directed \in BOOLEAN
    /\ ~g.directed => \A u, w \in Vertices(g) : is_edge(g, u, w) => is_edge(g, w, u)

\* Weakly connected, stated by cuts so that no path has to be enumerated.
IsConnected(g) ==
    \A S \in (SUBSET Vertices(g)) \ {{}, Vertices(g)} :
        \E u \in S, w \in Vertices(g) \ S : is_edge(g, u, w) \/ is_edge(g, w, u)

\* Embeddings of p in g: injective, colour- and edge-preserving maps, and
\* edge-reflecting ones when induced.  A map is kept from graph vertices to
\* pattern vertices, the way m_path holds a match.
IsEmbedding(m, p, g, induced) ==
    /\ DOMAIN m \subseteq Vertices(g)
    /\ {m[v] : v \in DOMAIN m} = Vertices(p)
    /\ \A v, w \in DOMAIN m : m[v] = m[w] => v = w
    /\ \A v \in DOMAIN m : get_vertex_color(g, v) = get_vertex_color(p, m[v])
    /\ \A v, w \in DOMAIN m : is_edge(p, m[v], m[w]) => is_edge(g, v, w)
    /\ induced =>
         \A v, w \in DOMAIN m : is_edge(g, v, w) => is_edge(p, m[v], m[w])

Embeddings(p, g, induced) ==
    {m \in UNION {[S -> Vertices(p)] : S \in SUBSET Vertices(g)} :
        IsEmbedding(m, p, g, induced)}

\* What find_all searches for: embeddings of connected patterns; a pattern in
\* several parts has none by definition of the interface.
MatchesOf(p, g, induced) ==
    IF IsConnected(p) THEN Embeddings(p, g, induced) ELSE {}
=============================================================================
