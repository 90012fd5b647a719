------------------------------ MODULE MatchTree ------------------------------
(***************************************************************************)
(* Tree and Node: the matches of a growing pattern in one graph.  A node   *)
(* at depth d > 0 is the image of pattern vertex d-1, so a leaf at the     *)
(* depth of the pattern is one match, read from the root down.  Children   *)
(* of a node are the graph vertices its match was extended with, no vertex *)
(* twice, and a node is named here by the vertices on its path: m_index is *)
(* the last of them, m_depth their number, m_parent the path without the   *)
(* last, and <<>> is the root.  The links that operations rewrite are kept *)
(* as the code keeps them: a tree is a function from its nodes to records  *)
(*   son          the first child, or Null                                 *)
(*   left, right  the ring of siblings; Null for an only child             *)
(* and Gone, with no node at all, once m_root is reset.                    *)
(***************************************************************************)
EXTENDS ColoredGraphs, SequencesExt

CONSTANT Null    \* a null NodePtr

\* It points to no node.
ASSUME NullAssumption == Null \notin Seq(Nat)

Unlinked == [son |-> Null, left |-> Null, right |-> Null]

\* Tree::Tree.  The index given to the root is the graph's, and is never read.
NewTree == [node \in {<<>>} |-> Unlinked]

Gone == [node \in {} |-> Unlinked]

is_empty(t) == DOMAIN t = {}

get_node_by_depth(leaf, depth) == SubSeq(leaf, 1, depth)

\* The vertices of get_tree_path_map, seed_path_from_leaf.
path_vertices(leaf) == {leaf[i] : i \in DOMAIN leaf}

-----------------------------------------------------------------------------
(* Growing.                                                                *)

\* The new child goes right of the first one.
add_node(t, parent, v) ==
    LET new == Append(parent, v)
        son == t[parent].son
        u   == [node \in DOMAIN t \cup {new} |-> IF node = new THEN Unlinked ELSE t[node]] IN
    IF son = Null THEN [u EXCEPT ![parent].son = new]
    ELSE IF u[son].left = Null
    THEN [u EXCEPT ![son].left = new, ![son].right = new, ![new].left = son, ![new].right = son]
    ELSE [u EXCEPT ![u[son].right].left = new, ![son].right = new,
                   ![new].right = u[son].right, ![new].left = son]

\* validate_parent_ordering accepts: the pairs of one parent are next to each
\* other.  Pairs are <<vertex, parent>>.
ParentsAreGrouped(pairs) ==
    \A i, k \in DOMAIN pairs :
        i < k /\ pairs[i][2] = pairs[k][2] => \A j \in i .. k : pairs[j][2] = pairs[i][2]

add_tree_level(t, pairs) ==
    LET grown[k \in 0 .. Len(pairs)] ==
            IF k = 0 THEN t ELSE add_node(grown[k - 1], pairs[k][2], pairs[k][1]) IN
    grown[Len(pairs)]

\* The nodes add_tree_level returns, in the order of the pairs.
added_nodes(pairs) == [i \in DOMAIN pairs |-> Append(pairs[i][2], pairs[i][1])]

-----------------------------------------------------------------------------
(* Shrinking.                                                              *)

splice_out_of_sibling_ring(t, node) ==
    LET l == t[node].left
        r == t[node].right IN
    IF l = Null THEN t
    ELSE IF l = r THEN [t EXCEPT ![l].right = Null, ![l].left = Null]
    ELSE [t EXCEPT ![l].right = r, ![r].left = l]

\* Mutant: the parent keeps pointing to the child it lost.
delete_node_dangling(t, node) ==
    LET u == splice_out_of_sibling_ring(t, node)
        p == Front(node) IN
    [n \in DOMAIN u \ {node} |->
        IF n = p /\ u[n].son = node /\ u[node].left = Null THEN [u[n] EXCEPT !.son = Null] ELSE u[n]]

\* The parent's first child becomes the left sibling, Null for an only child.
delete_node(t, node) ==
    LET u == splice_out_of_sibling_ring(t, node)
        p == Front(node) IN
    [n \in DOMAIN u \ {node} |->
        IF n = p /\ u[n].son = node THEN [u[n] EXCEPT !.son = u[node].left] ELSE u[n]]

\* A leaf goes, and with it every ancestor that has no other child; when that
\* reaches the root the tree is gone.
remove_node(t, leaf) ==
    LET removed[k \in 0 .. Len(leaf) + 1] ==
            IF k = 0 THEN t
            ELSE LET u    == removed[k - 1]
                     node == get_node_by_depth(leaf, Len(leaf) + 1 - k) IN
                 IF u[node].son # Null THEN u
                 ELSE IF node = <<>> THEN Gone
                 ELSE delete_node(u, node) IN
    removed[Len(leaf) + 1]

-----------------------------------------------------------------------------
(* Counting.  The frontier at a depth is a sequence of pairs <<node, path>> *)
(* with the vertices that every leaf below the node has on its path.       *)

\* The running path of one leaf turned into the next one's: what differs from
\* where they part is erased, then inserted.
update_path_to_next_leaf(prev, curr, path) ==
    LET parted == {i \in DOMAIN curr : get_node_by_depth(prev, i) # get_node_by_depth(curr, i)} IN
    (path \ {prev[i] : i \in parted}) \cup {curr[i] : i \in parted}

build_leaf_frontier_paths(leaves) ==
    LET running[i \in DOMAIN leaves] ==
            IF i = 1 THEN path_vertices(leaves[1])
            ELSE update_path_to_next_leaf(leaves[i - 1], leaves[i], running[i - 1])
    IN [i \in DOMAIN leaves |-> <<leaves[i], running[i]>>]

\* Mutant: the parent gets the path of its first child alone.
advance_frontier_to_parents_first(frontier) ==
    FoldLeft(LAMBDA up, entry :
                LET parent == Front(entry[1]) IN
                IF up # <<>> /\ Last(up)[1] = parent THEN up
                ELSE Append(up, <<parent, entry[2]>>),
             <<>>, frontier)

\* Neighbours in the sequence with one parent are merged.
advance_frontier_to_parents(frontier) ==
    LET merged[k \in 0 .. Len(frontier)] ==
            IF k = 0 THEN <<>>
            ELSE LET up     == merged[k - 1]
                     parent == Front(frontier[k][1])
                     path   == frontier[k][2] IN
                 IF up # <<>> /\ Last(up)[1] = parent
                 THEN Append(Front(up), <<parent, Last(up)[2] \cap path>>)
                 ELSE Append(up, <<parent, path>>) IN
    merged[Len(frontier)]

frontiers(leaves) ==
    LET at[d \in 1 .. Len(leaves[1])] ==
            IF d = Len(leaves[1]) THEN build_leaf_frontier_paths(leaves)
            ELSE advance_frontier_to_parents(at[d + 1])
    IN at

\* The count of key <<colour, pattern vertex, reversed>>: neighbours of that
\* colour, off the path, of every image of the pattern vertex.
neighbour_count(g, frontier, color, reversed) ==
    LET off_path(entry) ==
            {w \in get_neighbours(g, Last(entry[1]), reversed) \ entry[2] :
                get_vertex_color(g, w) = color} IN
    SumFunction([k \in DOMAIN frontier |-> Cardinality(off_path(frontier[k]))])

Directions(directed) == IF directed THEN BOOLEAN ELSE {FALSE}

\* get_color_by_depth_neighbour_counts: a CountsMap, without its zeros.
neighbour_counts(g, leaves) ==
    IF leaves = <<>> THEN <<>>
    ELSE LET at    == frontiers(leaves)
             count == [key \in {g.color[v] : v \in Vertices(g)} \X (0 .. Len(leaves[1]) - 1)
                               \X Directions(g.directed) |->
                        neighbour_count(g, at[key[2] + 1], key[1], key[3])] IN
         [key \in {k \in DOMAIN count : count[k] > 0} |-> count[key]]

-----------------------------------------------------------------------------
(* What operations keep.                                                   *)

\* Following right from the first child k times.
ChildAt(t, parent, k) ==
    LET at[i \in 0 .. k] == IF i = 0 THEN t[parent].son ELSE t[at[i - 1]].right IN at[k]

Children(t, parent) == {n \in DOMAIN t : n # <<>> /\ Front(n) = parent}

\* The children of every node form one ring, walked from its son to the right
\* and back; left undoes right; an only child is in no ring.
RingsAreClosed(t) ==
    \A p \in DOMAIN t :
        LET kids == Children(t, p)
            n    == Cardinality(kids) IN
        /\ n = 0 <=> t[p].son = Null
        /\ n = 1 => kids = {t[p].son} /\ t[t[p].son].left = Null /\ t[t[p].son].right = Null
        /\ n > 1 => /\ \A c \in kids : /\ t[c].right \in kids /\ t[t[c].right].left = c
                                       /\ t[c].left \in kids /\ t[t[c].left].right = c
                    /\ t[p].son \in kids
                    /\ {ChildAt(t, p, k) : k \in 0 .. n - 1} = kids

\* Every node is on the way to a leaf, and every node on the way is there.
NodesLeadToLeaves(t, leaves) ==
    DOMAIN t = UNION {{get_node_by_depth(leaf, d) : d \in 0 .. Len(leaf)} : leaf \in ToSet(leaves)}
=============================================================================
