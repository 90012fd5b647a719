------------------------------ MODULE PathGroups ------------------------------
(***************************************************************************)
(* PathProcessor::stream_groups_to_counter_for_vertex: the paths of four   *)
(* edges that one root, their middle vertex, emits.  A half-path is a      *)
(* depth-one neighbour, a neighbour of it, and the direction in which the  *)
(* second was looked up (TRUE: reversed).                                  *)
(***************************************************************************)
EXTENDS ColoredGraphs, Sequences, SequencesExt

\* The pairs of depth-one neighbours, with the rows they were read from: a vertex
\* that is an out- and an in-neighbour is in both.
neighbour_pairs(g, root) ==
    LET out == get_neighbours(g, root, FALSE)
        in  == get_neighbours(g, root, TRUE) IN
    {"out-out"} \X {e \in out \X out : e[1] < e[2]}
        \cup IF g.directed
             THEN {"out-in"} \X (out \X in) \cup {"in-in"} \X {e \in in \X in : e[1] < e[2]}
             ELSE {}

directions(g) == IF g.directed THEN BOOLEAN ELSE {FALSE}

\* The half-paths through v.
half_paths(g, root, v) ==
    UNION {{<<v, w, d>> : w \in get_neighbours(g, v, d) \ {root}} : d \in directions(g)}

check_path_intersection(first, second) ==
    first[1] = second[2] \/ first[2] = second[1] \/ first[2] = second[2]

\* The calls of record_path, with the rows that led to each.
stream_paths(g, root) ==
    UNION {{pair[1]} \X {e \in half_paths(g, root, pair[2][1])
                                 \X half_paths(g, root, pair[2][2]) :
                            ~check_path_intersection(e[1], e[2])} :
            pair \in neighbour_pairs(g, root)}

\* From here on a path is its two halves.
concatenate_path(root, path) == <<path[1][2], path[1][1], root, path[2][1], path[2][2]>>

compute_motif_descriptor(g, path) ==
    IF g.directed THEN <<path[1][3], path[1][3], ~path[2][3], ~path[2][3]>>
                  ELSE <<FALSE, FALSE, FALSE, FALSE>>

compute_reversed_descriptor(descriptor) == [i \in 1 .. 4 |-> ~descriptor[5 - i]]

\* Colour sequences compare as the numbers they are packed into.
sequence_leq(s, t) == s = t \/ \E i \in 1 .. 5 : s[i] < t[i] /\ \A j \in 1 .. i - 1 : s[j] = t[j]

PathNumber(g, root, path) ==
    LET forward    == [i \in 1 .. 5 |-> get_vertex_color(g, concatenate_path(root, path)[i])]
        backward   == Reverse(forward)
        descriptor == compute_motif_descriptor(g, path) IN
    IF sequence_leq(forward, backward)
    THEN [colors |-> forward, edges |-> descriptor]
    ELSE [colors |-> backward,
          edges |-> IF g.directed THEN compute_reversed_descriptor(descriptor) ELSE descriptor]

\* What an enumeration of an undirected graph's paths is: every path of five
\* distinct vertices, counted with its reverse.
IsPath(g, p) == \A i \in 1 .. 4 : is_edge(g, p[i], p[i + 1])

SimplePaths(g) ==
    {p \in Vertices(g) \X Vertices(g) \X Vertices(g) \X Vertices(g) \X Vertices(g) :
        p[2] < p[4] /\ Cardinality({p[i] : i \in 1 .. 5}) = 5 /\ IsPath(g, p)}
=============================================================================
