---------------------------- MODULE PatternGrowth ----------------------------
(***************************************************************************)
(* MultiGraphPatternFinder: grows one pattern after another over a list of *)
(* graphs.  A pattern starts as a vertex of the most frequent colour and   *)
(* gains a vertex with one edge, or an edge, at a time; a MatchTree per    *)
(* graph holds every match of the pattern so far, and a graph is alive     *)
(* while it has one.  One finder belongs to one thread and serves many     *)
(* calls of find_pattern, so an action is one turn of the growth loop.     *)
(***************************************************************************)
EXTENDS MatchTree

CONSTANTS Jobs,       \* what a finder is made for: records [graphs, alive]
          NoResult    \* find_pattern has not returned

\* alive is the alive_threshold, a fraction <<numerator, denominator>>.
ASSUME GrowthAssumption ==
    \A j \in Jobs :
        /\ j.graphs \in Seq(ToSet(j.graphs))
        /\ \A i \in DOMAIN j.graphs : IsColoredGraph(j.graphs[i])
        /\ j.alive[1] \in Nat /\ j.alive[2] \in Nat \ {0}

\* m_pattern outside a call.
NoPattern == [color |-> <<>>, edges |-> {}, directed |-> FALSE]

\* Up to this many vertices 1/cbrt(n) exceeds NON_RANDOM_PROBABILITY.
VERTICES_FIRST == 7

VARIABLES
    job,                    \* the finder's graphs and threshold
    is_random,              \* the argument of the call in progress
    m_pattern,
    m_match_trees,          \* graph index -> tree; Gone also stands for a reset pointer
    leaf_matches,           \* graph index -> leaves, in order
    m_alive_graph_indexes,
    m_dead_edge_pairs,
    done_adding_vertices,
    failed_add_edge,
    result                  \* what the last call returned

vars == <<job, is_random, m_pattern, m_match_trees, leaf_matches, m_alive_graph_indexes,
          m_dead_edge_pairs, done_adding_vertices, failed_add_edge, result>>

m_graph_list == job.graphs

Indexes == DOMAIN m_graph_list

is_directed == \E i \in Indexes : m_graph_list[i].directed

AtLeastShare(n, share, total) == n * share[2] >= share[1] * total

-----------------------------------------------------------------------------
(* Starting a pattern.                                                     *)

ColorCount(c) ==
    MapThenSumSet(LAMBDA i : Cardinality({v \in Vertices(m_graph_list[i]) :
                                            get_vertex_color(m_graph_list[i], v) = c}), Indexes)

Colors == UNION {{m_graph_list[i].color[v] : v \in Vertices(m_graph_list[i])} : i \in Indexes}

\* std::sort leaves colours of one frequency in any order.
first_colors == {c \in Colors : \A d \in Colors : ColorCount(d) <= ColorCount(c)}

\* The k-th number of a set is the one with k-1 below it.
Ascending(S) == [k \in 1 .. Cardinality(S) |->
                   CHOOSE x \in S : Cardinality({y \in S : y < x}) = k - 1]

find_initial_matches(g, c) == Ascending({v \in Vertices(g) : get_vertex_color(g, v) = c})

Seeds(i, c) ==
    LET matches == find_initial_matches(m_graph_list[i], c) IN
    [k \in DOMAIN matches |-> <<matches[k], <<>>>>]

seeded_trees(c) ==
    [i \in Indexes |-> IF Seeds(i, c) = <<>> THEN Gone ELSE add_tree_level(NewTree, Seeds(i, c))]

OneVertex(c) == [color |-> [v \in {0} |-> c], edges |-> {}, directed |-> is_directed]

\* Mutant: the dead pairs of the last pattern are kept.
FindPattern_stale(random, c) ==
    /\ m_pattern = NoPattern
    /\ c \in first_colors
    /\ is_random' = random
    /\ m_pattern' = OneVertex(c)
    /\ m_match_trees' = seeded_trees(c)
    /\ leaf_matches' = [i \in Indexes |-> added_nodes(Seeds(i, c))]
    /\ m_alive_graph_indexes' = {i \in Indexes : ~is_empty(m_match_trees'[i])}
    /\ done_adding_vertices' = FALSE
    /\ failed_add_edge' = FALSE
    /\ result' = NoResult
    /\ UNCHANGED <<job, m_dead_edge_pairs>>

\* find_pattern up to its loop.
FindPattern(random, c) ==
    /\ m_pattern = NoPattern
    /\ c \in first_colors
    /\ is_random' = random
    /\ m_pattern' = OneVertex(c)
    /\ m_match_trees' = seeded_trees(c)
    /\ leaf_matches' = [i \in Indexes |-> added_nodes(Seeds(i, c))]
    /\ m_alive_graph_indexes' = {i \in Indexes : ~is_empty(m_match_trees'[i])}
    /\ m_dead_edge_pairs' = {}
    /\ done_adding_vertices' = FALSE
    /\ failed_add_edge' = FALSE
    /\ result' = NoResult
    /\ UNCHANGED job

\* No graph, or no colour: find_pattern throws.
FindPatternThrows ==
    /\ m_pattern = NoPattern
    /\ Colors = {}
    /\ result' = NoResult
    /\ UNCHANGED <<job, is_random, m_pattern, m_match_trees, leaf_matches, m_alive_graph_indexes,
                   m_dead_edge_pairs, done_adding_vertices, failed_add_edge>>

-----------------------------------------------------------------------------
(* One vertex more.                                                        *)

Share == job.alive

min_alive_count ==
    LET truncated == (Len(m_graph_list) * Share[1]) \div Share[2] IN
    IF truncated > 1 THEN truncated ELSE 1

\* per_tree_counts of every alive tree.
vertex_counts ==
    [i \in m_alive_graph_indexes |-> neighbour_counts(m_graph_list[i], leaf_matches[i])]

tree_support(counts, key) == {i \in DOMAIN counts : key \in DOMAIN counts[i]}

combined_count(counts, key) ==
    MapThenSumSet(LAMBDA i : counts[i][key], tree_support(counts, key))

build_candidates(counts) ==
    {key \in UNION {DOMAIN counts[i] : i \in DOMAIN counts} :
        Cardinality(tree_support(counts, key)) >= min_alive_count}

\* Random: any candidate, all weights are positive.  Else one of the largest
\* count; the map that is searched for it has no order.
choose_next_vertex(counts) ==
    LET candidates == build_candidates(counts) IN
    IF is_random THEN candidates
    ELSE {key \in candidates :
            \A other \in candidates : combined_count(counts, other) <= combined_count(counts, key)}

\* Mutant: a vertex already in the match is used again.
collect_extension_candidates_reusing(i, key) ==
    LET g == m_graph_list[i]
        of(leaf) == Ascending({w \in get_neighbours(g, leaf[key[2] + 1], key[3]) :
                                  /\ get_vertex_color(g, w) = key[1]
                                  /\ w # leaf[1]}) IN
    FlattenSeq([k \in DOMAIN leaf_matches[i] |->
        [n \in DOMAIN of(leaf_matches[i][k]) |-> <<of(leaf_matches[i][k])[n], leaf_matches[i][k]>>]])

\* key is <<colour, connection_vertex_id, is_edge_reversed>>.
collect_extension_candidates(i, key) ==
    LET g == m_graph_list[i]
        of(leaf) == Ascending({w \in get_neighbours(g, leaf[key[2] + 1], key[3]) :
                                  /\ get_vertex_color(g, w) = key[1]
                                  /\ w \notin path_vertices(leaf)}) IN
    FlattenSeq([k \in DOMAIN leaf_matches[i] |->
        [n \in DOMAIN of(leaf_matches[i][k]) |-> <<of(leaf_matches[i][k])[n], leaf_matches[i][k]>>]])

\* A level is added below the leaves, then the leaves that got no child go.
update_tree_after_extension(t, leaves, pairs) ==
    LET pruned[k \in 0 .. Len(leaves)] ==
            IF k = 0 THEN add_tree_level(t, pairs)
            ELSE LET u == pruned[k - 1] IN
                 IF u[leaves[k]].son = Null THEN remove_node(u, leaves[k]) ELSE u IN
    pruned[Len(leaves)]

\* The pattern's new vertex is joined to the connection vertex.
WithVertex(key) ==
    LET new == vertex_count(m_pattern)
        old == key[2]
        arc == IF key[3] THEN <<new, old>> ELSE <<old, new>> IN
    [m_pattern EXCEPT
        !.color = [v \in 0 .. new |-> IF v = new THEN key[1] ELSE m_pattern.color[v]],
        !.edges = @ \cup {arc} \cup IF is_directed THEN {} ELSE {<<arc[2], arc[1]>>}]

\* extend_pattern_at_node_find_matches_in_s.
ExtendAt(key) ==
    /\ m_pattern' = WithVertex(key)
    /\ leaf_matches' = [i \in Indexes |->
            IF is_empty(m_match_trees[i]) THEN leaf_matches[i]
            ELSE added_nodes(collect_extension_candidates(i, key))]
    /\ m_match_trees' = [i \in Indexes |->
            IF is_empty(m_match_trees[i]) THEN m_match_trees[i]
            ELSE update_tree_after_extension(m_match_trees[i], leaf_matches[i],
                                             collect_extension_candidates(i, key))]
    /\ m_alive_graph_indexes' = {i \in m_alive_graph_indexes : ~is_empty(m_match_trees'[i])}

-----------------------------------------------------------------------------
(* One edge more.                                                          *)

supports(i, leaf, pair) == is_edge(m_graph_list[i], leaf[pair[1] + 1], leaf[pair[2] + 1])

is_edge_supported_by_graph(i, pair) == \E leaf \in ToSet(leaf_matches[i]) : supports(i, leaf, pair)

score_edge_support(pair) ==
    Cardinality({i \in Indexes : ~is_empty(m_match_trees[i]) /\ is_edge_supported_by_graph(i, pair)})

candidate_edges ==
    {pair \in Vertices(m_pattern) \X Vertices(m_pattern) :
        /\ pair[1] # pair[2]
        /\ is_directed \/ pair[1] < pair[2]
        /\ pair \notin m_dead_edge_pairs
        /\ ~is_edge(m_pattern, pair[1], pair[2])}

FrequentEdge(pair) == AtLeastShare(score_edge_support(pair), Share, Len(m_graph_list))

\* Mutant: too rare now is taken for never.
dead_candidates_rare == {pair \in candidate_edges : ~FrequentEdge(pair)}

dead_candidates == {pair \in candidate_edges : score_edge_support(pair) = 0}

Earlier(p, q) == p[1] < q[1] \/ (p[1] = q[1] /\ p[2] < q[2])

\* The first of the pairs with the highest score, when any scores.
best_candidate_edges ==
    LET scored == candidate_edges \ dead_candidates
        best   == {p \in scored : \A q \in scored : score_edge_support(q) <= score_edge_support(p)} IN
    {p \in best : \A q \in best \ {p} : Earlier(p, q)}

\* Mutant: the ring keeps the leaves that lost their edge.
filter_tree_matches_lazily(i, pair) ==
    FoldLeft(LAMBDA u, leaf : IF u[leaf].left # Null \/ supports(i, leaf, pair) THEN u
                              ELSE remove_node(u, leaf),
             m_match_trees[i], leaf_matches[i])

\* The leaves that lack the edge go, one by one.
filter_tree_matches_by_edge(i, pair) ==
    LET leaves == leaf_matches[i]
        filtered[k \in 0 .. Len(leaves)] ==
            IF k = 0 THEN m_match_trees[i]
            ELSE IF supports(i, leaves[k], pair) THEN filtered[k - 1]
            ELSE remove_node(filtered[k - 1], leaves[k]) IN
    filtered[Len(leaves)]

remaining_leaves(i, pair) ==
    LET leaves == leaf_matches[i]
        kept[k \in 0 .. Len(leaves)] ==
            IF k = 0 THEN <<>>
            ELSE IF supports(i, leaves[k], pair) THEN Append(kept[k - 1], leaves[k])
            ELSE kept[k - 1] IN
    kept[Len(leaves)]

apply_edge_and_prune(pair) ==
    /\ m_pattern' = [m_pattern EXCEPT
            !.edges = @ \cup {pair} \cup IF is_directed THEN {} ELSE {<<pair[2], pair[1]>>}]
    /\ leaf_matches' = [i \in Indexes |-> remaining_leaves(i, pair)]
    /\ m_match_trees' = [i \in Indexes |-> filter_tree_matches_by_edge(i, pair)]
    /\ m_alive_graph_indexes' = {i \in m_alive_graph_indexes : ~is_empty(m_match_trees'[i])}

-----------------------------------------------------------------------------
(* The growth loop.                                                        *)

Growing ==
    /\ m_pattern # NoPattern
    /\ AtLeastShare(Cardinality(m_alive_graph_indexes), Share, Len(m_graph_list))
    /\ ~(failed_add_edge /\ done_adding_vertices)

\* The probability of a vertex is 1 for the second and falls with their number.
VertexTurn ==
    \/ failed_add_edge
    \/ (~done_adding_vertices /\ (is_random \/ vertex_count(m_pattern) <= VERTICES_FIRST))

EdgeTurn ==
    /\ ~failed_add_edge
    /\ \/ done_adding_vertices
       \/ is_random /\ vertex_count(m_pattern) > 1
       \/ ~is_random /\ vertex_count(m_pattern) > VERTICES_FIRST

AddVertex ==
    /\ Growing
    /\ VertexTurn
    /\ \E key \in choose_next_vertex(vertex_counts) : ExtendAt(key)
    /\ failed_add_edge' = FALSE
    /\ UNCHANGED <<job, is_random, m_dead_edge_pairs, done_adding_vertices, result>>

\* Mutant: the failure is not remembered.
NoVertexToAdd_forgotten ==
    /\ Growing
    /\ VertexTurn
    /\ build_candidates(vertex_counts) = {}
    /\ failed_add_edge' = FALSE
    /\ UNCHANGED <<job, is_random, m_pattern, m_match_trees, leaf_matches, m_alive_graph_indexes,
                   m_dead_edge_pairs, done_adding_vertices, result>>

NoVertexToAdd ==
    /\ Growing
    /\ VertexTurn
    /\ build_candidates(vertex_counts) = {}
    /\ done_adding_vertices' = TRUE
    /\ failed_add_edge' = FALSE
    /\ UNCHANGED <<job, is_random, m_pattern, m_match_trees, leaf_matches, m_alive_graph_indexes,
                   m_dead_edge_pairs, result>>

AddEdge ==
    /\ Growing
    /\ EdgeTurn
    /\ \E pair \in best_candidate_edges : FrequentEdge(pair) /\ apply_edge_and_prune(pair)
    /\ m_dead_edge_pairs' = m_dead_edge_pairs \cup dead_candidates
    /\ failed_add_edge' = FALSE
    /\ UNCHANGED <<job, is_random, done_adding_vertices, result>>

NoEdgeToAdd ==
    /\ Growing
    /\ EdgeTurn
    /\ \A pair \in best_candidate_edges : ~FrequentEdge(pair)
    /\ m_dead_edge_pairs' = m_dead_edge_pairs \cup dead_candidates
    /\ failed_add_edge' = TRUE
    /\ UNCHANGED <<job, is_random, m_pattern, m_match_trees, leaf_matches, m_alive_graph_indexes,
                   done_adding_vertices, result>>

\* finalize_and_return: pattern and alive set are moved into the result.  The
\* locals and the trees are gone, the dead pairs stay with the finder.
Return ==
    /\ m_pattern # NoPattern
    /\ ~Growing
    /\ result' = [pattern |-> m_pattern, alive |-> m_alive_graph_indexes]
    /\ m_pattern' = NoPattern
    /\ m_alive_graph_indexes' = {}
    /\ m_match_trees' = <<>>
    /\ leaf_matches' = <<>>
    /\ done_adding_vertices' = FALSE
    /\ failed_add_edge' = FALSE
    /\ UNCHANGED <<job, is_random, m_dead_edge_pairs>>

LoopStep == AddVertex \/ NoVertexToAdd \/ AddEdge \/ NoEdgeToAdd \/ Return

Init ==
    /\ job \in Jobs
    /\ is_random = TRUE
    /\ m_pattern = NoPattern
    /\ m_match_trees = <<>>
    /\ leaf_matches = <<>>
    /\ m_alive_graph_indexes = {}
    /\ m_dead_edge_pairs = {}
    /\ done_adding_vertices = FALSE
    /\ failed_add_edge = FALSE
    /\ result = NoResult

Next == \/ \E random \in BOOLEAN, c \in Colors : FindPattern(random, c)
        \/ FindPatternThrows
        \/ LoopStep

Spec == Init /\ [][Next]_vars

\* The loop runs on a thread of its own and waits for nothing: WF_vars(LoopStep),
\* with its ENABLED spelled out, since a turn is possible exactly during a call.
FairSpec == Spec /\ ([]<>(m_pattern = NoPattern) \/ []<><<LoopStep>>_vars)

-----------------------------------------------------------------------------
(* Properties.                                                             *)

\* Outside a call the finder holds nothing but dead pairs; inside one, a
\* pattern, a tree and a list of leaves for every graph.
TypeOK ==
    /\ job \in Jobs
    /\ {is_random, done_adding_vertices, failed_add_edge} \subseteq BOOLEAN
    /\ m_alive_graph_indexes \subseteq Indexes
    /\ IF m_pattern = NoPattern
       THEN m_match_trees = <<>> /\ leaf_matches = <<>> /\ m_alive_graph_indexes = {}
       ELSE /\ IsColoredGraph(m_pattern)
            /\ m_dead_edge_pairs \subseteq Vertices(m_pattern) \X Vertices(m_pattern)
            /\ DOMAIN m_match_trees = Indexes
            /\ \A i \in Indexes : leaf_matches[i] \in Seq(Seq(Vertices(m_graph_list[i])))

\* What the finder promises (PatternSearch): the alive graphs are the graphs the
\* pattern occurs in, at every turn of the loop.
Promise == INSTANCE PatternSearch WITH GraphLists <- {j.graphs : j \in Jobs}, graphs <- job.graphs,
                                       pattern <- m_pattern, alive <- m_alive_graph_indexes

ImplementsPatternSearch == Promise!Spec

\* The leaves of a graph are the matches of the pattern in it, all of them and
\* each once, however the pattern was grown and pruned.
LeavesAreMatches ==
    m_pattern # NoPattern =>
        \A i \in Indexes :
            /\ ToSet(leaf_matches[i]) = Promise!MatchesIn(m_pattern, m_graph_list[i])
            /\ Len(leaf_matches[i]) = Cardinality(ToSet(leaf_matches[i]))

\* The links of every tree stay consistent through growth and cascading removal:
\* sibling rings are closed, no node is left without a leaf below it, none lost.
TreesAreLinked ==
    m_pattern # NoPattern =>
        \A i \in Indexes : /\ RingsAreClosed(m_match_trees[i])
                           /\ NodesLeadToLeaves(m_match_trees[i], leaf_matches[i])

\* A pair once found dead is never worth scoring again for this pattern: no match
\* of it, or of what it grows into, has that edge.
DeadPairsAreUnsupported ==
    m_pattern # NoPattern =>
        \A pair \in m_dead_edge_pairs, i \in Indexes : ~is_edge_supported_by_graph(i, pair)

\* Leaves below one node are next to each other at every depth, so that
\* validate_parent_ordering never throws, and with them the counts of a tree name
\* exactly the vertices that some match can be extended with.
Extensions(i) ==
    LET g == m_graph_list[i] IN
    {<<get_vertex_color(g, e[2]), e[3], e[4]>> : e \in
        {e \in ToSet(leaf_matches[i]) \X Vertices(g) \X Vertices(m_pattern) \X Directions(g.directed) :
            /\ e[2] \in get_neighbours(g, e[1][e[3] + 1], e[4])
            /\ e[2] \notin path_vertices(e[1])}}

CountsAreOfExtensions ==
    m_pattern # NoPattern =>
        \A i \in Indexes :
            LET leaves == leaf_matches[i] IN
            /\ \A d \in Vertices(m_pattern) :
                 ParentsAreGrouped([k \in DOMAIN leaves |->
                                        <<leaves[k], get_node_by_depth(leaves[k], d + 1)>>])
            /\ DOMAIN neighbour_counts(m_graph_list[i], leaves) = Extensions(i)

\* Every call of find_pattern returns.
EverySearchEnds == (m_pattern # NoPattern) ~> (m_pattern = NoPattern)
=============================================================================
