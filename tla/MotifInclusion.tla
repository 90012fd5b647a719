---------------------------- MODULE MotifInclusion ----------------------------
(***************************************************************************)
(* The identifiers of motifs, the inclusion DAG that relates them, and     *)
(* MotifDagExpander, which turns induced counts into non-induced ones by   *)
(* adding the count of every motif to the motifs it contains.  A structure *)
(* is a set of pairs over the positions 1 .. 4, an identifier a canonical  *)
(* structure with a colour for each of its positions.                      *)
(*                                                                         *)
(* MotifMap gives each structure its canonical one with the permutations   *)
(* onto it; DirectedMotifDag and UndirectedMotifDag give each canonical    *)
(* structure the ones it contains, with the permutations that lay it over  *)
(* them.  The tables are generated; here they are what they hold.          *)
(***************************************************************************)
EXTENDS ColoredGraphs, FiniteSetsExt, Functions, TLC

CONSTANT COUNT_LIMIT   \* counts are kept modulo this: 2^32

ASSUME LimitAssumption == COUNT_LIMIT \in Nat \ {0}

Positions == 1 .. 4

Permutations4 == Bijection(Positions, Positions)

Relabelled(structure, p) == {<<p[e[1]], p[e[2]]>> : e \in structure}

AsGraph(structure) ==
    [color |-> [i \in Positions |-> 0], edges |-> structure, directed |-> TRUE]

canonical_structure(structure) ==
    CHOOSE s \in {Relabelled(structure, p) : p \in Permutations4} : TRUE

\* The vertices of a group, listed so that their edges are the canonical ones.
CanonicalOrders(g, group) ==
    LET structure(f) == {e \in Positions \X Positions : is_edge(g, f[e[1]], f[e[2]])}
        orders       == Bijection(Positions, group)
        canonical    == canonical_structure(structure(CHOOSE f \in orders : TRUE)) IN
    {f \in orders : structure(f) = canonical}

colors_leq(s, t) ==
    s = t \/ \E i \in Positions : s[i] < t[i] /\ \A j \in 1 .. i - 1 : s[j] = t[j]

\* The canonical structure, with the least of the colourings that lead to it.
motif_identifier(g, group) ==
    LET orders    == CanonicalOrders(g, group)
        colorings == {[i \in Positions |-> get_vertex_color(g, f[i])] : f \in orders}
        order     == CHOOSE f \in orders : TRUE IN
    [edges  |-> {e \in Positions \X Positions : is_edge(g, order[e[1]], order[e[2]])},
     colors |-> CHOOSE c \in colorings : \A d \in colorings : colors_leq(c, d)]

\* The edges of the DAG out of a structure.  An undirected graph stores both
\* directions, so only symmetric structures are its own.
IsSymmetric(structure) == \A e \in structure : <<e[2], e[1]>> \in structure

InclusionDag(structure, directed) ==
    LET parts == {s \in (SUBSET structure) \ {structure} :
                    (directed \/ IsSymmetric(s)) /\ IsConnected(AsGraph(s))} IN
    UNION {{canonical_structure(s)}
              \X {p \in Permutations4 : Relabelled(s, p) = canonical_structure(s)} : s \in parts}

UndirectedStructures ==
    {s \in SUBSET {e \in Positions \X Positions : e[1] # e[2]} :
        IsSymmetric(s) /\ IsConnected(AsGraph(s))}

UNDIRECTED_MOTIF_DAG ==
    Table([s \in {canonical_structure(t) : t \in UndirectedStructures} |-> InclusionDag(s, FALSE)])

MotifDag(structure, directed) ==
    IF directed THEN InclusionDag(structure, TRUE) ELSE UNDIRECTED_MOTIF_DAG[structure]

at(counts, id) == IF id \in DOMAIN counts THEN counts[id] ELSE 0

\* apply_permutation: the colour at a position goes to the permuted one.
apply_permutation(colors, p) ==
    [i \in Positions |-> colors[CHOOSE j \in Positions : p[j] = i]]

\* The additions of process_motif for one key of the snapshot.
process_motif(id, directed) ==
    {[key |-> [edges |-> d[1], colors |-> apply_permutation(id.colors, d[2])], of |-> id, by |-> d] :
        d \in MotifDag(id.edges, directed)}

additions_of(counts, directed) == UNION {process_motif(id, directed) : id \in DOMAIN counts}

\* What a key has and what it is given, before it wraps.
expanded_count(counts, additions, key) ==
    LET given == {a \in additions : a.key = key} IN
    at(counts, key) + SumFunctionOnSet([a \in given |-> counts[a.of]], given)

\* Mutant: additions are taken from the expanded counts' own keys only.
expand_existing(counts, directed) ==
    LET additions == additions_of(counts, directed) IN
    [key \in DOMAIN counts |-> expanded_count(counts, additions, key) % COUNT_LIMIT]

\* Every key of a snapshot adds its count, unchecked, to the keys it contains.
expand(counts, directed) ==
    LET additions == additions_of(counts, directed) IN
    [key \in DOMAIN counts \cup {a.key : a \in additions} |->
        expanded_count(counts, additions, key) % COUNT_LIMIT]

\* None of them does.
ExpansionFits(counts, directed) ==
    LET additions == additions_of(counts, directed) IN
    \A key \in DOMAIN counts \cup {a.key : a \in additions} :
        expanded_count(counts, additions, key) < COUNT_LIMIT

-----------------------------------------------------------------------------
\* GroupEnumerationGraphFilter::filter, for one library graph: it can be
\* filtered when the query has too few of some group.
can_be_filtered(features, library_features) ==
    \E id \in DOMAIN library_features : at(features, id) < library_features[id]
=============================================================================
