---------------------------- MODULE GraphDocuments ----------------------------
(***************************************************************************)
(* Graph files and the graphs built from them: the readers of the three    *)
(* formats, the constructors of ColoredGraph with the compressed rows they *)
(* leave, and the writers of pattern files.                                *)
(*                                                                         *)
(* A document is what a file says once its syntax is read:                 *)
(*   nodes    : a sequence of [id, color]                                  *)
(*   links    : a sequence of [source, target, color]                      *)
(*   directed : what a GraphML file declares                               *)
(* in which a color may be absent (NoColor).  Colors are numbers in JSON   *)
(* and vertex-edge files, and labels in GraphML ones.                      *)
(***************************************************************************)
EXTENDS ColoredGraphs, SequencesExt

CONSTANTS MAX_UINT32,       \* the largest vertex id and number of 32 bits
          MAX_VERTEX_COLOR, \* the largest vertex color
          NoColor

Rejected == [rejected |-> TRUE]   \* the constructor or the reader throws

\* static_cast<uint32_t> of a signed number.
uint32(k) == k % (MAX_UINT32 + 1)

-----------------------------------------------------------------------------
(* ColoredGraph's constructors.                                            *)

\* Rows of <<source, destination, color>>, in the order of std::sort.
sort_and_deduplicate(edges) ==
    SetToSortSeq(edges, LAMBDA e, f : \/ e[1] < f[1]
                                      \/ e[1] = f[1] /\ e[2] < f[2]
                                      \/ e[1] = f[1] /\ e[2] = f[2] /\ e[3] < f[3])

Conflicting(edges) == \E e, f \in edges : e[1] = f[1] /\ e[2] = f[2] /\ e[3] # f[3]

\* Self-loops are dropped.
validate_edges(edges) == {e \in edges : e[1] # e[2]}

Reversed(edges) == {<<e[2], e[1], e[3]>> : e \in edges}

fill_index_range(index, from_vertex, to_vertex, neighbour_count) ==
    [v \in DOMAIN index |-> IF v \in from_vertex + 1 .. to_vertex THEN neighbour_count ELSE index[v]]

\* Mutant: vertices without an edge past the last source start at 0.
initiate_graph_unfinished(num_vertices, rows) ==
    LET visit(a, e) == [vertex |-> e[1], neighbours |-> Append(a.neighbours, e[2]),
                        index |-> fill_index_range(a.index, a.vertex, e[1], Len(a.neighbours))]
        last == FoldLeft(visit, [vertex |-> IF rows = <<>> THEN 0 ELSE rows[1][1], neighbours |-> <<>>,
                                 index |-> [v \in 0 .. num_vertices - 1 |-> 0]], rows) IN
    [neighbours |-> last.neighbours, index |-> last.index,
     edge_colors |-> [i \in DOMAIN rows |-> rows[i][3]]]

\* m_neighbours and m_index_of_neighbours: where the row of a vertex starts.
initiate_graph(num_vertices, rows) ==
    LET visit(a, e) == [vertex |-> e[1], neighbours |-> Append(a.neighbours, e[2]),
                        index |-> fill_index_range(a.index, a.vertex, e[1], Len(a.neighbours))]
        last == FoldLeft(visit, [vertex |-> IF rows = <<>> THEN 0 ELSE rows[1][1], neighbours |-> <<>>,
                                 index |-> [v \in 0 .. num_vertices - 1 |-> 0]], rows) IN
    [neighbours |-> last.neighbours,
     index |-> IF rows = <<>> THEN last.index
               ELSE fill_index_range(last.index, last.vertex, num_vertices - 1, Len(last.neighbours)),
     edge_colors |-> [i \in DOMAIN rows |-> rows[i][3]]]

build_structures(num_vertices, edges, colors, directed, colored) ==
    LET stored == IF directed THEN edges ELSE edges \cup Reversed(edges)
        rows   == sort_and_deduplicate(stored) IN
    [m_colors |-> colors, m_directed |-> directed, m_edges_colored |-> colored,
     m_edge_count |-> IF directed THEN Len(rows) ELSE Len(rows) \div 2,
     rows |-> initiate_graph(num_vertices, rows),
     reversed_rows |-> IF directed THEN initiate_graph(num_vertices, sort_and_deduplicate(Reversed(stored)))
                       ELSE initiate_graph(num_vertices, <<>>)]

\* Either constructor; edges without colors have color 0.
ColoredGraph(num_vertices, edges, colors, directed, colored) ==
    LET kept   == validate_edges(edges)
        stored == IF directed THEN kept ELSE kept \cup Reversed(kept) IN
    IF \/ DOMAIN colors # 0 .. num_vertices - 1
       \/ \E e \in edges : ~({e[1], e[2]} \subseteq 0 .. num_vertices - 1)
       \/ Conflicting(stored)
    THEN Rejected
    ELSE build_structures(num_vertices, kept, colors, directed, colored)

-----------------------------------------------------------------------------
(* ColoredGraph's accessors, over the rows.                                *)

compute_range(vertex, elements, index) ==
    SubSeq(elements, index[vertex] + 1,
           IF vertex + 1 \in DOMAIN index THEN index[vertex + 1] ELSE Len(elements))

rows_of(g, reversed) == IF reversed /\ g.m_directed THEN g.reversed_rows ELSE g.rows

row_range(g, vertex, reversed) ==
    compute_range(vertex, rows_of(g, reversed).neighbours, rows_of(g, reversed).index)

row_edge_colors(g, vertex, reversed) ==
    compute_range(vertex, rows_of(g, reversed).edge_colors, rows_of(g, reversed).index)

\* The end of the last row is taken from m_neighbours in either direction.
row_length(g, vertex, reversed) ==
    LET index == rows_of(g, reversed).index IN
    (IF vertex + 1 \in DOMAIN index THEN index[vertex + 1] ELSE Len(g.rows.neighbours)) - index[vertex]

edge_color(g, source, destination) ==
    row_edge_colors(g, source, FALSE)
        [CHOOSE i \in DOMAIN row_range(g, source, FALSE) :
            row_range(g, source, FALSE)[i] = destination]

\* The graph of ColoredGraphs that these accessors present.
Presented(g) ==
    [color |-> g.m_colors, directed |-> g.m_directed,
     edges |-> {e \in (DOMAIN g.m_colors) \X (DOMAIN g.m_colors) : e[2] \in ToSet(row_range(g, e[1], FALSE))}]

-----------------------------------------------------------------------------
(* JsonGraphReader and VertexEdgeGraphReader.                              *)

Ids(doc) == {doc.nodes[i].id : i \in DOMAIN doc.nodes}

\* Vertices are numbered in the order of their ids.
build_consecutive_index_map(ids) == [id \in ids |-> Cardinality({k \in ids : k < id})]

build_vertex_colors(doc) ==
    LET index == build_consecutive_index_map(Ids(doc)) IN
    [v \in 0 .. Cardinality(DOMAIN index) - 1 |->
        uint32(doc.nodes[CHOOSE i \in DOMAIN doc.nodes : index[doc.nodes[i].id] = v].color)]

DuplicateIds(doc) == Cardinality(Ids(doc)) < Len(doc.nodes)

\* Some links have a color and some do not.
MixedColors(doc) == \E i, k \in DOMAIN doc.links : (doc.links[i].color = NoColor) # (doc.links[k].color = NoColor)

detect_edge_colors(doc) == \E i \in DOMAIN doc.links : doc.links[i].color # NoColor

\* The ends of links are cast before they are looked up.
cast_ends(doc) ==
    [doc EXCEPT !.links = [i \in DOMAIN @ |->
        [@[i] EXCEPT !.source = uint32(@), !.target = uint32(@)]]]

extract_link_endpoints(link, index) == <<index[link.source], index[link.target]>>

extract_edges(doc, index) ==
    {Append(extract_link_endpoints(doc.links[i], index),
            IF doc.links[i].color = NoColor THEN 0 ELSE uint32(doc.links[i].color)) : i \in DOMAIN doc.links}

UnknownEnds(doc, ids) ==
    \E i \in DOMAIN doc.links : ~({doc.links[i].source, doc.links[i].target} \subseteq ids)

build_graph(doc, is_directed) ==
    LET index == build_consecutive_index_map(Ids(doc)) IN
    IF MixedColors(doc) \/ DuplicateIds(doc) \/ UnknownEnds(doc, Ids(doc))
    THEN Rejected
    ELSE ColoredGraph(Cardinality(DOMAIN index), extract_edges(doc, index),
                      build_vertex_colors(doc), is_directed, detect_edge_colors(doc))

\* Node ids are tested before they are cast; the ends of links are cast.
read_json(doc, is_directed) ==
    IF \E i \in DOMAIN doc.nodes : doc.nodes[i].id \notin 0 .. MAX_UINT32 \/ doc.nodes[i].color = NoColor
    THEN Rejected
    ELSE build_graph(cast_ends(doc), is_directed)

\* A number read from a stream as unsigned: one that does not fit fails, and a
\* negative one is taken modulo 2^32.
Streams(k) == k \in -MAX_UINT32 .. MAX_UINT32

\* The color of an edge that does not fit is taken for none.
parse_edge_line(line) ==
    [line EXCEPT !.color = IF @ # NoColor /\ Streams(@) THEN @ ELSE NoColor]

\* Vertex ids are read as signed numbers, must not be negative, and are cast.
read_vertex_edge(doc, is_directed) ==
    LET parsed == [doc EXCEPT !.links = [i \in DOMAIN @ |-> parse_edge_line(@[i])],
                              !.nodes = [i \in DOMAIN @ |-> [@[i] EXCEPT !.id = uint32(@)]]] IN
    IF \/ \E i \in DOMAIN doc.nodes :
            doc.nodes[i].id < 0 \/ doc.nodes[i].color = NoColor \/ ~Streams(doc.nodes[i].color)
       \/ \E i \in DOMAIN doc.links : ~Streams(doc.links[i].source) \/ ~Streams(doc.links[i].target)
    THEN Rejected
    ELSE build_graph(cast_ends(parsed), is_directed)

-----------------------------------------------------------------------------
(* GraphmlGraphReader and GraphUtils.  A label is <<"digits", k>>, the     *)
(* number k, or <<"name", k>>; or <<"comma", m, k>>, the label m, a comma  *)
(* and the number k, or something that is no number if k is NoColor.       *)

to_string(k) == <<"digits", k>>

\* A vertex or an edge without a color has the property's initial value.
label(color) == IF color = NoColor THEN to_string(0) ELSE color

\* Vertices are numbered in the order in which the file declares them.
boost_vertex(doc, id) == (CHOOSE i \in DOMAIN doc.nodes : doc.nodes[i].id = id) - 1

\* The edges of an undirected Boost graph are met in the order of the file, those of a
\* directed one vertex by vertex.
Precedes(doc, k, i) ==
    LET v == boost_vertex(doc, doc.links[k].source)
        w == boost_vertex(doc, doc.links[i].source) IN
    IF doc.directed /\ v # w THEN v < w ELSE k < i

edge_at(doc, n) ==
    CHOOSE i \in DOMAIN doc.links : Cardinality({k \in DOMAIN doc.links : Precedes(doc, k, i)}) = n - 1

\* Labels of vertices are mapped first; those of edges all are, whether the walk
\* that looks for an edge color or the one that extracts them gets to them.
Labels(doc) == [i \in DOMAIN doc.nodes |-> label(doc.nodes[i].color)]
                   \o [n \in DOMAIN doc.links |-> label(doc.links[edge_at(doc, n)].color)]

NewLabels(doc, color_map) == {Labels(doc)[i] : i \in DOMAIN Labels(doc)} \ DOMAIN color_map

MetBefore(doc, k, l) ==
    \E i \in DOMAIN Labels(doc) : Labels(doc)[i] = k /\ \A j \in 1 .. i : Labels(doc)[j] # l

\* m_color_map after the file was read: map_color_string gives a label that it meets
\* for the first time the number of those it knows.
extract_colors(doc, color_map) ==
    [l \in DOMAIN color_map \cup NewLabels(doc, color_map) |->
        IF l \in DOMAIN color_map THEN color_map[l]
        ELSE Cardinality(DOMAIN color_map)
               + Cardinality({k \in NewLabels(doc, color_map) : MetBefore(doc, k, l)})]

\* One of the colors given out while the file is read, or found, is too large.
TooManyColors(doc, color_map) ==
    LET colors == extract_colors(doc, color_map) IN
    \/ \E l \in DOMAIN colors \ DOMAIN color_map : colors[l] > MAX_VERTEX_COLOR
    \/ \E i \in DOMAIN doc.nodes : colors[label(doc.nodes[i].color)] > MAX_VERTEX_COLOR

has_edge_colors(doc, colors) == \E i \in DOMAIN doc.links : colors[label(doc.links[i].color)] # 0

read_graphml(doc, is_directed, color_map) ==
    LET colors == extract_colors(doc, color_map)
        colored == has_edge_colors(doc, colors)
        edges  == {<<boost_vertex(doc, doc.links[i].source), boost_vertex(doc, doc.links[i].target),
                     IF colored THEN colors[label(doc.links[i].color)] ELSE 0>> : i \in DOMAIN doc.links} IN
    IF \/ is_directed /\ ~doc.directed
       \/ UnknownEnds(doc, Ids(doc))
       \/ TooManyColors(doc, color_map)
    THEN Rejected
    ELSE ColoredGraph(Len(doc.nodes), edges,
                      [v \in 0 .. Len(doc.nodes) - 1 |-> colors[label(doc.nodes[v + 1].color)]],
                      is_directed, colored)

-----------------------------------------------------------------------------
(* The pattern writers.  A pattern of a search keeps both directions of an *)
(* undirected edge, whose color is 0.                                      *)

\* Of two directions, the one from the higher vertex is left out.
WrittenEdges(graph, is_directed) ==
    {e \in graph.edges : ~(~is_directed /\ e[1] > e[2] /\ is_edge(graph, e[2], e[1]))}

\* JsonPatternWriter and VertexEdgePatternWriter.
write_numbers(graph, is_directed) ==
    [nodes |-> [i \in 1 .. vertex_count(graph) |-> [id |-> i - 1, color |-> get_vertex_color(graph, i - 1)]],
     links |-> SetToSeq({[source |-> e[1], target |-> e[2], color |-> 0] : e \in WrittenEdges(graph, is_directed)})]

\* GraphmlPatternWriter, whose files declare directed edges.
write_graphml(graph, is_directed) ==
    [nodes |-> [i \in 1 .. vertex_count(graph) |->
                   [id |-> i - 1, color |-> to_string(get_vertex_color(graph, i - 1))]],
     links |-> SetToSeq({[source |-> e[1], target |-> e[2], color |-> to_string(0)]
                            : e \in WrittenEdges(graph, is_directed)}),
     directed |-> TRUE]
-----------------------------------------------------------------------------
(* What a file says, and what is made of it.                               *)

LinkBetween(doc, a, b) == {i \in DOMAIN doc.links : doc.links[i].source = a /\ doc.links[i].target = b}

LinksOf(doc, is_directed, a, b) ==
    LinkBetween(doc, a, b) \cup IF is_directed THEN {} ELSE LinkBetween(doc, b, a)

\* The ids, ends and colors that a document gives are numbers of 32 bits.
Fits(doc) ==
    /\ \A i \in DOMAIN doc.nodes : {doc.nodes[i].id, doc.nodes[i].color} \ {NoColor} \subseteq 0 .. MAX_UINT32
    /\ \A i \in DOMAIN doc.links :
          {doc.links[i].source, doc.links[i].target, doc.links[i].color} \ {NoColor} \subseteq 0 .. MAX_UINT32

\* What a document says modulo 2^32; of the colors of its links only those that are kept.
Reduced(doc, kept) ==
    LET color(c) == IF c = NoColor THEN NoColor ELSE uint32(c) IN
    [doc EXCEPT !.nodes = [i \in DOMAIN @ |-> [id |-> uint32(@[i].id), color |-> color(@[i].color)]],
                !.links = [i \in DOMAIN @ |->
                    [source |-> uint32(@[i].source), target |-> uint32(@[i].target),
                     color |-> IF @[i].color \in kept THEN color(@[i].color) ELSE NoColor]]]

LinkColors(doc) == {doc.links[i].color : i \in DOMAIN doc.links}

\* As JSON readers take numbers that do not fit, and as readers of lines do.
Reductions(doc) ==
    {Reduced(doc, LinkColors(doc)), Reduced(doc, {c \in LinkColors(doc) \ {NoColor} : Streams(c)})}

\* Whether a document of numbers that fit describes a graph.
IsDescription(doc, is_directed) ==
    LET ids == {doc.nodes[i].id : i \in DOMAIN doc.nodes} IN
    /\ \A i, k \in DOMAIN doc.nodes : doc.nodes[i].id = doc.nodes[k].id => i = k
    /\ \A i \in DOMAIN doc.nodes : doc.nodes[i].color # NoColor
    /\ \A i \in DOMAIN doc.links : {doc.links[i].source, doc.links[i].target} \subseteq ids
    /\ ~MixedColors(doc)
    /\ \A a, b \in ids : \A i, k \in LinksOf(doc, is_directed, a, b) :
          a # b => doc.links[i].color = doc.links[k].color

\* Vertex by vertex in the order of their ids, and in both directions, the rows hold
\* the links of the document and nothing else, each once.
IsGraphOf(g, doc, is_directed) ==
    LET id   == SetToSortSeq({doc.nodes[i].id : i \in DOMAIN doc.nodes}, <)
        V    == 0 .. Len(id) - 1
        ends(v, reversed) == {w \in V : w # v /\
            (IF reversed THEN LinksOf(doc, is_directed, id[w + 1], id[v + 1])
             ELSE LinksOf(doc, is_directed, id[v + 1], id[w + 1])) # {}} IN
    /\ DOMAIN g.m_colors = V
    /\ \A i \in DOMAIN doc.nodes : \A v \in V :
          id[v + 1] = doc.nodes[i].id => g.m_colors[v] = doc.nodes[i].color
    /\ \A v \in V, reversed \in BOOLEAN :
          /\ ToSet(row_range(g, v, reversed)) = ends(v, reversed)
          /\ Len(row_range(g, v, reversed)) = Cardinality(ends(v, reversed))
          /\ row_length(g, v, reversed) = Cardinality(ends(v, reversed))
    /\ g.m_edges_colored = detect_edge_colors(doc)
    /\ g.m_edges_colored => \A v \in V : \A w \in ends(v, FALSE) :
          \A i \in LinksOf(doc, is_directed, id[v + 1], id[w + 1]) : edge_color(g, v, w) = doc.links[i].color

ReadsAs(g, doc, is_directed) ==
    IF Fits(doc)
    THEN IF IsDescription(doc, is_directed) THEN g # Rejected /\ IsGraphOf(g, doc, is_directed) ELSE g = Rejected
    ELSE g # Rejected => \E r \in Reductions(doc) : IsDescription(r, is_directed) /\ IsGraphOf(g, r, is_directed)

\* A pattern that is written and read is the same graph; a GraphML file keeps it up
\* to the numbers of its colors.
ReadsBack(graph) ==
    LET d    == graph.directed
        json == read_json(write_numbers(graph, d), d)
        text == read_vertex_edge(write_numbers(graph, d), d)
        xml  == read_graphml(write_graphml(graph, d), d, <<>>) IN
    /\ json # Rejected /\ Presented(json) = graph
    /\ text # Rejected /\ Presented(text) = graph
    /\ xml # Rejected
    /\ Presented(xml).edges = graph.edges
    /\ \A v, w \in Vertices(graph) :
          (xml.m_colors[v] = xml.m_colors[w]) <=> (graph.color[v] = graph.color[w])
=============================================================================
