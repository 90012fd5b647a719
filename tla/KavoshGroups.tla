----------------------------- MODULE KavoshGroups -----------------------------
(***************************************************************************)
(* MotifPreprocessor::stream_groups_to_counter_for_vertex: the groups of   *)
(* four vertices that one root emits, and the marks it leaves in           *)
(* bfs_visited.  A worker keeps one such array for all the roots it        *)
(* claims and never clears it: an entry holds 4 * root + depth of the last *)
(* root that reached the vertex, -1 before any did.                        *)
(*                                                                         *)
(* index is m_order_index: a root emits the groups in which it comes first *)
(* in the order of degrees.  Emission tests no mark but that of depth one, *)
(* and no later mark replaces one, so marks and groups are computed apart. *)
(***************************************************************************)
EXTENDS ColoredGraphs, FiniteSetsExt, Functions

\* Out- and in-neighbours, each once: the walks over the reversed rows skip what
\* has a forward edge.
neighbour_range(g, v) ==
    get_neighbours(g, v, FALSE)
        \cup (IF g.directed THEN get_neighbours(g, v, TRUE) ELSE {})

adjacent(g, u, w) == is_edge(g, u, w) \/ is_edge(g, w, u)

run_id(root) == 4 * root

is_visited_in_run(visited, root, v) == visited[v] \div 4 = root

\* Mutant: a mark that an earlier root left counts too.
is_not_at_depth_one_stale(visited, root, v) == root # v /\ visited[v] % 4 # 1

is_not_at_depth_one(visited, root, v) == root # v /\ visited[v] # run_id(root) + 1

mark_neighbours(visited, root, S, depth) ==
    [v \in DOMAIN visited |->
        IF v \in S /\ ~is_visited_in_run(visited, root, v)
        THEN run_id(root) + depth ELSE visited[v]]

\* The vertices of S that do not come before the root.
not_before(index, root, S) == {v \in S : index[v] >= index[root]}

depth_one(g, index, root) == not_before(index, root, neighbour_range(g, root))

\* Neighbours of v that are neither the root nor at depth one.
deeper(g, index, visited, root, v) ==
    {w \in not_before(index, root, neighbour_range(g, v)) :
        is_not_at_depth_one(visited, root, w)}

mark_depth_one(g, visited, root) ==
    mark_neighbours([visited EXCEPT ![root] = run_id(root)], root,
                    neighbour_range(g, root), 1)

\* The array when the root is finished, from what mark_depth_one left.
mark_deeper(g, index, visited, root) ==
    LET seconds == UNION {neighbour_range(g, f) : f \in depth_one(g, index, root)}
        anchors == UNION {deeper(g, index, visited, root, f) : f \in depth_one(g, index, root)}
        thirds  == UNION {not_before(index, root, neighbour_range(g, s)) : s \in anchors} IN
    mark_neighbours(mark_neighbours(visited, root, seconds, 2), root, thirds, 3)

\* The calls of count_group_by_ids, by the depths of the three other vertices;
\* what a loop emits once per unordered pair or triple is emitted in increasing order.
emit_depth_1_1_1(g, index, visited, root) ==
    LET D == depth_one(g, index, root) IN
    {"111"} \X {e \in D \X D \X D : e[1] < e[2] /\ e[2] < e[3]}

emit_depth_1_1_2(g, index, visited, root) ==
    LET D == depth_one(g, index, root) IN
    {"112"} \X {e \in D \X D \X Vertices(g) :
        /\ e[3] \in deeper(g, index, visited, root, e[1])
        /\ e[1] # e[2]
        /\ adjacent(g, e[2], e[3]) => e[1] < e[2]}

emit_depth_1_2_2(g, index, visited, root) ==
    {"122"} \X {e \in depth_one(g, index, root) \X Vertices(g) \X Vertices(g) :
        {e[2], e[3]} \subseteq deeper(g, index, visited, root, e[1]) /\ e[2] < e[3]}

emit_depth_1_2_3(g, index, visited, root) ==
    {"123"} \X {e \in depth_one(g, index, root) \X Vertices(g) \X Vertices(g) :
        /\ e[2] \in deeper(g, index, visited, root, e[1])
        /\ e[3] \in deeper(g, index, visited, root, e[2])
        /\ ~adjacent(g, e[1], e[3])}

stream_groups(g, index, visited, root) ==
    emit_depth_1_1_1(g, index, visited, root) \cup emit_depth_1_1_2(g, index, visited, root)
        \cup emit_depth_1_2_2(g, index, visited, root)
        \cup emit_depth_1_2_3(g, index, visited, root)

\* The identifier of a group of four: the canonical tables give the same number
\* to two groups exactly when they are isomorphic as coloured graphs, so it is
\* one relabelling of the induced subgraph, the same for every member of a class.
MotifNumber(g, group) ==
    CHOOSE m \in {[colors |-> [i \in 1 .. 4 |-> get_vertex_color(g, f[i])],
                   edges |-> {e \in (1 .. 4) \X (1 .. 4) : is_edge(g, f[e[1]], f[e[2]])}] :
                    f \in Bijection(1 .. 4, group)} : TRUE

\* What an enumeration of motifs is: every connected set of four vertices.
Inside(g, S) == [color |-> [v \in S |-> g.color[v]],
                 edges |-> {e \in g.edges : e[1] \in S /\ e[2] \in S},
                 directed |-> g.directed]

MotifGroups(g) == {S \in kSubset(4, Vertices(g)) : IsConnected(Inside(g, S))}
=============================================================================
