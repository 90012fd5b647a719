---------------------------- MODULE PatternSearch ----------------------------
(***************************************************************************)
(* What MultiGraphPatternFinder::find_pattern promises of its result and   *)
(* of every pattern it holds on the way: a pattern only grows, and the     *)
(* graphs reported with it are the graphs it occurs in, no more, no fewer. *)
(***************************************************************************)
EXTENDS ColoredGraphs, Sequences

CONSTANTS GraphLists,   \* the lists of graphs a search is given
          NoPattern     \* nothing is being searched for

VARIABLES graphs, pattern, alive

\* A match of p in g: the images of the pattern's vertices, in their order.
IsMatch(s, p, g) ==
    /\ \A i, k \in DOMAIN s : s[i] = s[k] => i = k
    /\ \A i \in DOMAIN s : get_vertex_color(g, s[i]) = get_vertex_color(p, i - 1)
    /\ \A i, k \in DOMAIN s : is_edge(p, i - 1, k - 1) => is_edge(g, s[i], s[k])

MatchesIn(p, g) == {s \in [1 .. vertex_count(p) -> Vertices(g)] : IsMatch(s, p, g)}

GraphsWith(p) == {i \in DOMAIN graphs : MatchesIn(p, graphs[i]) # {}}

\* q has every vertex and edge of p, and something more.
IsGrowth(p, q) ==
    /\ Vertices(p) \subseteq Vertices(q)
    /\ \A v \in Vertices(p) : get_vertex_color(q, v) = get_vertex_color(p, v)
    /\ p.edges \subseteq q.edges
    /\ p # q

Begin == /\ pattern = NoPattern
         /\ pattern' # NoPattern
         /\ vertex_count(pattern') = 1
         /\ alive' = GraphsWith(pattern')

Grow == /\ pattern # NoPattern
        /\ pattern' # NoPattern
        /\ IsGrowth(pattern, pattern')
        /\ alive' = GraphsWith(pattern')

End == /\ pattern # NoPattern
       /\ pattern' = NoPattern
       /\ alive' = {}

Init == /\ graphs \in GraphLists
        /\ pattern = NoPattern
        /\ alive = {}

Next == UNCHANGED graphs /\ (Begin \/ Grow \/ End)

Spec == Init /\ [][Next]_<<graphs, pattern, alive>>
=============================================================================
