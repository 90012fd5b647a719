----------------------------- MODULE FlowsProofs -----------------------------
(***************************************************************************)
(* Theorems about the runs of Flows, for all libraries, sessions and       *)
(* numbers of threads. Pattern runs: the threads of a search make every    *)
(* search there is to make exactly once; the colours of a library are      *)
(* restored; and the index of the pattern files tells the truth, wherever  *)
(* runs stop. Runs over enumerations: what a cache file holds is right     *)
(* where stems tell graphs apart; caching, loading and recovering change   *)
(* no verdict; and a graph that occurs in a query graph is not discarded   *)
(* (by what FilteringProofs says of occurrences). Loads of GraphML         *)
(* libraries: colours mean labels. And the state of all of them has its    *)
(* type.                                                                   *)
(***************************************************************************)
EXTENDS Flows, FilteringProofs

-----------------------------------------------------------------------------
(* What is read from the directories.                                      *)

\* Every file that can be read holds a graph.
LEMMA FilesHoldGraphs == \A f \in InputFiles : IsGraph(graph_of[f])
<1> SUFFICES ASSUME NEW f \in InputFiles PROVE IsGraph(graph_of[f])
    OBVIOUS
<1> DEFINE d == CHOOSE d \in DOMAIN Inputs : f \in DOMAIN Inputs[d]
<1>1. \E e \in DOMAIN Inputs : f \in DOMAIN Inputs[e]
    BY DEF InputFiles
<1>2. d \in DOMAIN Inputs /\ f \in DOMAIN Inputs[d]
    BY <1>1
<1>3. graph_of[f] = Inputs[d][f]
    BY DEF graph_of
<1> HIDE DEF d
<1>4. QED BY <1>2, <1>3, InputsAssumption

\* The files of a directory, in the order in which it lists them.
LEMMA ListingIs ==
    ASSUME NEW d \in DOMAIN Inputs, NEW names \in SetToSeqs(DOMAIN Inputs[d])
    PROVE  names \in Seq(InputFiles)
<1>1. Cardinality(DOMAIN Inputs[d]) \in Nat
    BY InputsAssumption, FS_CardinalityType
<1>2. names \in [1 .. Cardinality(DOMAIN Inputs[d]) -> DOMAIN Inputs[d]]
    BY DEF SetToSeqs
<1>3. DOMAIN Inputs[d] \subseteq InputFiles
    BY DEF InputFiles
<1>4. names \in [1 .. Cardinality(DOMAIN Inputs[d]) -> InputFiles]
    BY <1>2, <1>3
<1>5. QED BY <1>1, <1>4

-----------------------------------------------------------------------------
(* Colours.                                                                *)

\* What is appended is in the sequence, with what was.
LEMMA AppendedIn ==
    ASSUME NEW T, NEW s \in Seq(T), NEW e \in T
    PROVE  Append(s, e) \in Seq(T) /\ ToSet(Append(s, e)) = ToSet(s) \cup {e}
<1> DEFINE a == Append(s, e)
<1>1. /\ a \in Seq(T) /\ Len(a) = Len(s) + 1 /\ Len(s) \in Nat
      /\ a[Len(s) + 1] = e /\ \A i \in 1 .. Len(s) : a[i] = s[i]
    OBVIOUS
<1>2. DOMAIN a = 1 .. Len(s) + 1 /\ DOMAIN s = 1 .. Len(s)
    BY <1>1
<1> HIDE DEF a
<1>3. ASSUME NEW x \in ToSet(a) PROVE x \in ToSet(s) \cup {e}
    <2>1. PICK i \in 1 .. Len(s) + 1 : a[i] = x
        BY <1>2, <1>3 DEF ToSet
    <2>2. i \in 1 .. Len(s) \/ i = Len(s) + 1
        BY <2>1, <1>1
    <2>3. QED BY <2>1, <2>2, <1>1, <1>2 DEF ToSet
<1>4. ASSUME NEW x \in ToSet(s) \cup {e} PROVE x \in ToSet(a)
    <2>1. CASE x \in ToSet(s)
        <3>1. PICK i \in 1 .. Len(s) : s[i] = x
            BY <2>1, <1>2 DEF ToSet
        <3>2. i \in 1 .. Len(s) + 1 /\ a[i] = x
            BY <3>1, <1>1
        <3>3. QED BY <3>2, <1>2 DEF ToSet
    <2>2. CASE x = e
        <3>1. Len(s) + 1 \in 1 .. Len(s) + 1 /\ a[Len(s) + 1] = x
            BY <2>2, <1>1
        <3>2. QED BY <3>1, <1>2 DEF ToSet
    <2>3. QED BY <2>1, <2>2, <1>4
<1>5. ToSet(a) = ToSet(s) \cup {e}
    BY <1>3, <1>4
<1>6. QED BY <1>1, <1>5 DEF a

\* scan_graph_colors keeps the colours it knows and adds those of the graph.
LEMMA ScanKnows ==
    ASSUME NEW g, IsGraph(g), NEW T, \A v \in Vertices(g) : g.color[v] \in T, NEW color_map \in Seq(T)
    PROVE  /\ scan_graph_colors(g, color_map) \in Seq(T)
           /\ ToSet(color_map) \subseteq ToSet(scan_graph_colors(g, color_map))
           /\ \A v \in Vertices(g) : g.color[v] \in ToSet(scan_graph_colors(g, color_map))
<1> DEFINE n == vertex_count(g)
           X == [k \in 0 .. n |-> {s \in Seq(T) : /\ ToSet(color_map) \subseteq ToSet(s)
                                                  /\ \A v \in Vertices(g) : v < k => g.color[v] \in ToSet(s)}]
           after(k, s) == IF get_vertex_color(g, k - 1) \in ToSet(s) THEN s
                          ELSE Append(s, get_vertex_color(g, k - 1))
           step == [k \in 1 .. n |-> [s \in X[k - 1] |-> after(k, s)]]
           Scans(f) == f = [k \in 0 .. n |->
                IF k = 0 THEN color_map
                ELSE IF get_vertex_color(g, k - 1) \in ToSet(f[k - 1]) THEN f[k - 1]
                ELSE Append(f[k - 1], get_vertex_color(g, k - 1))]
           scanned == CHOOSE f : Scans(f)
<1>1. n \in Nat /\ Vertices(g) = 0 .. n - 1
    BY FS_CardinalityType DEF IsGraph, IsColoredGraph, vertex_count
<1>2. scan_graph_colors(g, color_map) = scanned[n]
    BY DEF scan_graph_colors
<1>3. \A k \in 0 .. n : \A s : s \in X[k] <=>
          /\ s \in Seq(T) /\ ToSet(color_map) \subseteq ToSet(s)
          /\ \A v \in Vertices(g) : v < k => g.color[v] \in ToSet(s)
    OBVIOUS
<1>4. \A k \in 1 .. n : \A s \in X[k - 1] : step[k][s] = after(k, s)
    OBVIOUS
<1> HIDE DEF X, step, scanned, n
<1>5. 0 \in 0 .. n /\ n \in 0 .. n /\ \A k \in 1 .. n : k # 0 /\ k \in 0 .. n /\ k - 1 \in 0 .. n /\ k - 1 \in Vertices(g)
    BY <1>1
<1>6. color_map \in X[0]
    <2>1. \A v \in Vertices(g) : ~(v < 0)
        BY <1>1
    <2>2. QED BY <2>1, <1>3, <1>5
<1>7. ASSUME NEW k \in 1 .. n, NEW s \in X[k - 1] PROVE after(k, s) \in X[k]
    <2>1. s \in Seq(T) /\ ToSet(color_map) \subseteq ToSet(s)
          /\ \A v \in Vertices(g) : v < k - 1 => g.color[v] \in ToSet(s)
        BY <1>3, <1>5
    <2>2. get_vertex_color(g, k - 1) = g.color[k - 1] /\ g.color[k - 1] \in T
        BY <1>5 DEF get_vertex_color
    <2>3. \A v \in Vertices(g) : v < k => v < k - 1 \/ v = k - 1
        BY <1>1
    <2>4. after(k, s) \in Seq(T) /\ ToSet(s) \subseteq ToSet(after(k, s)) /\ g.color[k - 1] \in ToSet(after(k, s))
        BY <2>1, <2>2, AppendedIn
    <2> HIDE DEF after
    <2>5. \A v \in Vertices(g) : v < k => g.color[v] \in ToSet(after(k, s))
        BY <2>1, <2>3, <2>4
    <2>6. QED BY <2>1, <2>4, <2>5, <1>3, <1>5
<1>8. \A k \in 1 .. n : \A s \in X[k - 1] : step[k][s] \in X[k]
    BY <1>4, <1>7
<1>9. PICK f : IsRunThrough(f, X, color_map, step, n)
    BY <1>1, <1>6, <1>8, RunFound
<1>10. Scans(f)
    <2>1. f = [k \in 0 .. n |-> f[k]] /\ f[0] = color_map
          /\ \A k \in 1 .. n : f[k] = step[k][f[k - 1]] /\ f[k - 1] \in X[k - 1]
        BY <1>9 DEF IsRunThrough
    <2>2. \A k \in 1 .. n : f[k] = after(k, f[k - 1])
        BY <2>1, <1>4
    <2>3. \A k \in 0 .. n : k = 0 \/ k \in 1 .. n
        BY <1>1
    <2>4. \A k \in 0 .. n : f[k] = IF k = 0 THEN color_map ELSE after(k, f[k - 1])
        BY <2>1, <2>2, <2>3, <1>5
    <2>5. f = [k \in 0 .. n |-> IF k = 0 THEN color_map ELSE after(k, f[k - 1])]
        BY <2>1, <2>4
    <2>6. QED BY <2>5
<1>11. Scans(scanned)
    <2> HIDE DEF Scans
    <2>1. QED BY <1>10 DEF scanned
<1>12. scanned[0] = color_map /\ \A k \in 1 .. n : scanned[k] = after(k, scanned[k - 1])
    BY <1>11, <1>5
<1> HIDE DEF after, Scans
<1>13. \A k \in 1 .. n : scanned[k - 1] \in X[k - 1] => scanned[k] \in X[k]
    BY <1>7, <1>12
<1>14. scanned[0] \in X[0]
    BY <1>6, <1>12
<1>15. \A k \in 0 .. n : scanned[k] \in X[k]
    BY <1>1, <1>13, <1>14, RunStays
<1>16. scanned[n] \in X[n]
    BY <1>5, <1>15
<1>17. \A v \in Vertices(g) : v < n
    BY <1>1
<1>18. QED BY <1>2, <1>3, <1>5, <1>16, <1>17

\* map_colors knows the colours of all the graphs it is given.
LEMMA MapKnows ==
    ASSUME NEW graphs, Len(graphs) \in Nat, \A k \in 1 .. Len(graphs) : IsGraph(graphs[k])
    PROVE  /\ map_colors(graphs) \in Seq(ToSet(map_colors(graphs)))
           /\ \A k \in 1 .. Len(graphs) : \A v \in Vertices(graphs[k]) :
                  graphs[k].color[v] \in ToSet(map_colors(graphs))
<1> DEFINE n == Len(graphs)
           T == UNION {{graphs[k].color[v] : v \in Vertices(graphs[k])} : k \in 1 .. n}
           X == [k \in 0 .. n |-> {s \in Seq(T) : \A j \in 1 .. n : j <= k =>
                    \A v \in Vertices(graphs[j]) : graphs[j].color[v] \in ToSet(s)}]
           step == [k \in 1 .. n |-> [s \in X[k - 1] |-> scan_graph_colors(graphs[k], s)]]
           Scans(f) == f = [k \in 0 .. n |-> IF k = 0 THEN <<>> ELSE scan_graph_colors(graphs[k], f[k - 1])]
           scanned == CHOOSE f : Scans(f)
<1>1. n \in Nat
    OBVIOUS
<1>2. map_colors(graphs) = scanned[n]
    BY DEF map_colors
<1>3. \A k \in 0 .. n : \A s : s \in X[k] <=>
          /\ s \in Seq(T)
          /\ \A j \in 1 .. n : j <= k => \A v \in Vertices(graphs[j]) : graphs[j].color[v] \in ToSet(s)
    OBVIOUS
<1>4. \A k \in 1 .. n : \A s \in X[k - 1] : step[k][s] = scan_graph_colors(graphs[k], s)
    OBVIOUS
<1>40. \A k \in 1 .. n : \A v \in Vertices(graphs[k]) : graphs[k].color[v] \in T
    OBVIOUS
<1>41. \A k \in 1 .. n : IsGraph(graphs[k])
    OBVIOUS
<1> HIDE DEF X, step, scanned, n, T
<1>5. 0 \in 0 .. n /\ n \in 0 .. n /\ \A k \in 1 .. n : k # 0 /\ k \in 0 .. n /\ k - 1 \in 0 .. n
    BY <1>1
<1>6. <<>> \in X[0]
    <2>1. \A j \in 1 .. n : ~(j <= 0)
        BY <1>1
    <2>2. <<>> \in Seq(T)
        OBVIOUS
    <2>3. QED BY <2>1, <2>2, <1>3, <1>5
<1>7. ASSUME NEW k \in 1 .. n, NEW s \in X[k - 1] PROVE scan_graph_colors(graphs[k], s) \in X[k]
    <2> DEFINE u == scan_graph_colors(graphs[k], s)
    <2>1. s \in Seq(T) /\ \A j \in 1 .. n : j <= k - 1 =>
              \A v \in Vertices(graphs[j]) : graphs[j].color[v] \in ToSet(s)
        BY <1>3, <1>5
    <2>2. /\ u \in Seq(T) /\ ToSet(s) \subseteq ToSet(u)
          /\ \A v \in Vertices(graphs[k]) : graphs[k].color[v] \in ToSet(u)
        BY <2>1, <1>40, <1>41, ScanKnows
    <2> HIDE DEF u
    <2>3. \A j \in 1 .. n : j <= k => j <= k - 1 \/ j = k
        BY <1>1
    <2>4. \A j \in 1 .. n : j <= k => \A v \in Vertices(graphs[j]) : graphs[j].color[v] \in ToSet(u)
        BY <2>1, <2>2, <2>3
    <2>5. u \in X[k]
        BY <2>2, <2>4, <1>3, <1>5
    <2>6. QED BY <2>5 DEF u
<1>8. \A k \in 1 .. n : \A s \in X[k - 1] : step[k][s] \in X[k]
    BY <1>4, <1>7
<1>9. PICK f : IsRunThrough(f, X, <<>>, step, n)
    BY <1>1, <1>6, <1>8, RunFound
<1>10. Scans(f)
    <2>1. f = [k \in 0 .. n |-> f[k]] /\ f[0] = <<>>
          /\ \A k \in 1 .. n : f[k] = step[k][f[k - 1]] /\ f[k - 1] \in X[k - 1]
        BY <1>9 DEF IsRunThrough
    <2>2. \A k \in 1 .. n : f[k] = scan_graph_colors(graphs[k], f[k - 1])
        BY <2>1, <1>4
    <2>3. \A k \in 0 .. n : k = 0 \/ k \in 1 .. n
        BY <1>1
    <2>4. \A k \in 0 .. n : f[k] = IF k = 0 THEN <<>> ELSE scan_graph_colors(graphs[k], f[k - 1])
        BY <2>1, <2>2, <2>3, <1>5
    <2>5. f = [k \in 0 .. n |-> IF k = 0 THEN <<>> ELSE scan_graph_colors(graphs[k], f[k - 1])]
        BY <2>1, <2>4
    <2>6. QED BY <2>5
<1>11. Scans(scanned)
    <2> HIDE DEF Scans
    <2>1. QED BY <1>10 DEF scanned
<1>12. scanned[0] = <<>> /\ \A k \in 1 .. n : scanned[k] = scan_graph_colors(graphs[k], scanned[k - 1])
    BY <1>11, <1>5
<1> HIDE DEF Scans
<1>13. \A k \in 1 .. n : scanned[k - 1] \in X[k - 1] => scanned[k] \in X[k]
    BY <1>7, <1>12
<1>14. scanned[0] \in X[0]
    BY <1>6, <1>12
<1>15. \A k \in 0 .. n : scanned[k] \in X[k]
    BY <1>1, <1>13, <1>14, RunStays
<1>16. scanned[n] \in X[n]
    BY <1>5, <1>15
<1>17. \A j \in 1 .. n : j <= n
    BY <1>1
<1>18. scanned[n] \in Seq(T) /\ \A j \in 1 .. n : \A v \in Vertices(graphs[j]) : graphs[j].color[v] \in ToSet(scanned[n])
    BY <1>3, <1>5, <1>16, <1>17
<1>19. scanned[n] \in Seq(ToSet(scanned[n]))
    BY <1>18 DEF ToSet
<1>20. QED BY <1>2, <1>18, <1>19 DEF n

-----------------------------------------------------------------------------
(* A library in the colours of a search.                                   *)

\* color_map has every colour of g, and no place of it is anything but a colour.
Knows(color_map, g) ==
    /\ color_map \in Seq(ToSet(color_map))
    /\ \A v \in Vertices(g) : g.color[v] \in ToSet(color_map)

\* Recolouring gives every vertex the place of its colour; nothing else changes.
LEMMA RecoloredIs ==
    ASSUME NEW g, IsGraph(g), NEW color_map, Knows(color_map, g)
    PROVE  LET r == recolor_graph(g, color_map) IN
           /\ r = [color |-> r.color, edges |-> g.edges, directed |-> g.directed]
           /\ DOMAIN r.color = Vertices(g)
           /\ \A v \in Vertices(g) : r.color[v] + 1 \in DOMAIN color_map /\ color_map[r.color[v] + 1] = g.color[v]
<1> DEFINE place(v) == CHOOSE i \in DOMAIN color_map : color_map[i] = g.color[v]
           colors == [v \in Vertices(g) |-> place(v) - 1]
           r == recolor_graph(g, color_map)
<1>1. g = [color |-> g.color, edges |-> g.edges, directed |-> g.directed]
    BY DEF IsGraph, get_vertex_color
<1>2. r = [g EXCEPT !.color = colors]
    BY DEF recolor_graph, Vertices
<1>3. ASSUME NEW v \in Vertices(g) PROVE place(v) \in DOMAIN color_map /\ color_map[place(v)] = g.color[v]
    <2>1. \E i \in DOMAIN color_map : color_map[i] = g.color[v]
        BY DEF Knows, ToSet
    <2>2. QED BY <2>1
<1>4. DOMAIN color_map \subseteq Int
    <2>1. DOMAIN color_map = 1 .. Len(color_map)
        BY DEF Knows
    <2>2. QED BY <2>1
<1> HIDE DEF place, r
<1>5. \A v \in Vertices(g) : colors[v] + 1 = place(v)
    BY <1>3, <1>4
<1>6. DOMAIN colors = Vertices(g)
    OBVIOUS
<1> HIDE DEF colors
<1>7. r = [color |-> colors, edges |-> g.edges, directed |-> g.directed]
    BY <1>1, <1>2
<1>8. /\ r = [color |-> r.color, edges |-> g.edges, directed |-> g.directed]
      /\ DOMAIN r.color = Vertices(g)
      /\ \A v \in Vertices(g) : r.color[v] + 1 \in DOMAIN color_map /\ color_map[r.color[v] + 1] = g.color[v]
    BY <1>3, <1>5, <1>6, <1>7
<1>9. QED BY <1>8 DEF r

\* restore_graph_colors undoes it.
LEMMA RestoredIs ==
    ASSUME NEW g, IsGraph(g), NEW color_map, Knows(color_map, g)
    PROVE  restore_graph_colors(recolor_graph(g, color_map), color_map) = g
<1> DEFINE r == recolor_graph(g, color_map)
           colors == [v \in DOMAIN r.color |-> color_map[r.color[v] + 1]]
<1>1. /\ r = [color |-> r.color, edges |-> g.edges, directed |-> g.directed]
      /\ DOMAIN r.color = Vertices(g)
      /\ \A v \in Vertices(g) : color_map[r.color[v] + 1] = g.color[v]
    BY RecoloredIs
<1>2. restore_graph_colors(r, color_map) = [r EXCEPT !.color = colors]
    BY DEF restore_graph_colors
<1>3. g = [color |-> [v \in Vertices(g) |-> g.color[v]], edges |-> g.edges, directed |-> g.directed]
    BY DEF IsGraph, get_vertex_color
<1> HIDE DEF r
<1>4. colors = [v \in Vertices(g) |-> g.color[v]]
    BY <1>1
<1> HIDE DEF colors
<1>5. [r EXCEPT !.color = colors] = [color |-> colors, edges |-> g.edges, directed |-> g.directed]
    BY <1>1
<1>6. QED BY <1>2, <1>3, <1>4, <1>5 DEF r

\* A pattern in the colours of a search that occurs in a graph in these colours occurs,
\* in the colours of the files, in the graph that was read.
LEMMA RecoloredEmbeds ==
    ASSUME NEW g, IsGraph(g), NEW color_map, Knows(color_map, g),
           NEW p, p = [color |-> p.color, edges |-> p.edges, directed |-> p.directed],
           Embeddings(p, recolor_graph(g, color_map), FALSE) # {}
    PROVE  Embeddings(recolor_pattern(p, color_map), g, FALSE) # {}
<1> DEFINE r == recolor_graph(g, color_map)
           q == recolor_pattern(p, color_map)
           colors == [v \in DOMAIN p.color |-> color_map[p.color[v] + 1]]
<1>1. /\ r = [color |-> r.color, edges |-> g.edges, directed |-> g.directed]
      /\ DOMAIN r.color = Vertices(g)
      /\ \A v \in Vertices(g) : color_map[r.color[v] + 1] = g.color[v]
    BY RecoloredIs
<1>2. q = [p EXCEPT !.color = colors]
    BY DEF recolor_pattern, restore_graph_colors
<1>3. DOMAIN colors = DOMAIN p.color /\ \A v \in DOMAIN p.color : colors[v] = color_map[p.color[v] + 1]
    OBVIOUS
<1> HIDE DEF colors, q
<1>4. q = [color |-> colors, edges |-> p.edges, directed |-> p.directed]
    BY <1>2
<1>5. PICK m : m \in Embeddings(p, r, FALSE)
    OBVIOUS
<1> HIDE DEF r
<1>6. Vertices(r) = Vertices(g) /\ Vertices(q) = Vertices(p)
    BY <1>1, <1>3, <1>4 DEF Vertices
<1>7. m \in UNION {[S -> Vertices(p)] : S \in SUBSET Vertices(r)} /\ IsEmbedding(m, p, r, FALSE)
    BY <1>5 DEF Embeddings
<1>8. IsEmbedding(m, q, g, FALSE)
    <2>1. /\ DOMAIN m \subseteq Vertices(g)
          /\ {m[v] : v \in DOMAIN m} = Vertices(q)
          /\ \A v, w \in DOMAIN m : m[v] = m[w] => v = w
        BY <1>6, <1>7 DEF IsEmbedding
    <2>2. ASSUME NEW v \in DOMAIN m PROVE get_vertex_color(g, v) = get_vertex_color(q, m[v])
        <3>1. r.color[v] = p.color[m[v]] /\ m[v] \in DOMAIN p.color /\ v \in Vertices(g)
            BY <1>6, <1>7 DEF IsEmbedding, get_vertex_color, Vertices
        <3>2. q.color[m[v]] = color_map[p.color[m[v]] + 1]
            BY <3>1, <1>3, <1>4
        <3>3. QED BY <3>1, <3>2, <1>1 DEF get_vertex_color
    <2>3. \A v, w \in DOMAIN m : is_edge(q, m[v], m[w]) => is_edge(g, v, w)
        <3>1. q.edges = p.edges /\ r.edges = g.edges
            BY <1>1, <1>4
        <3>2. \A v, w \in DOMAIN m : is_edge(p, m[v], m[w]) => is_edge(r, v, w)
            BY <1>7 DEF IsEmbedding
        <3>3. QED BY <3>1, <3>2 DEF is_edge
    <2>4. QED BY <2>1, <2>2, <2>3 DEF IsEmbedding
<1>9. m \in Embeddings(q, g, FALSE)
    BY <1>6, <1>7, <1>8 DEF Embeddings
<1>10. QED BY <1>9 DEF q

\* A pattern that was induced in a graph occurs in it.
LEMMA NumberedEmbeds ==
    ASSUME NEW g, IsFiniteSet(Vertices(g)), Vertices(g) \subseteq Nat, NEW S \in SUBSET Vertices(g)
    PROVE  Embeddings(Numbered(Inside(g, S)), g, FALSE) # {}
<1> DEFINE h == Inside(g, S)
           n == Cardinality(S)
           below(v) == Cardinality({w \in S : w < v})
           vertex == [k \in 0 .. n - 1 |-> CHOOSE v \in S : below(v) = k]
           p == Numbered(h)
           m == [v \in S |-> below(v)]
<1>1. /\ \A v \in S : below(v) \in 0 .. n - 1
      /\ \A v, w \in S : below(v) = below(w) => v = w
      /\ \A k \in 0 .. n - 1 : \E v \in S : below(v) = k
    <2>1. IsFiniteSet(S) /\ S \subseteq Nat
        BY FS_Subset
    <2>2. QED BY <2>1, RanksAreNumbers
<1>2. /\ Vertices(h) = S
      /\ \A v \in S : get_vertex_color(h, v) = get_vertex_color(g, v)
      /\ \A v, w \in S : is_edge(h, v, w) => is_edge(g, v, w)
    BY DEF Inside, Vertices, get_vertex_color, is_edge
<1> HIDE DEF h
<1>3. p = [color |-> [k \in DOMAIN vertex |-> get_vertex_color(h, vertex[k])],
           edges |-> {e \in (DOMAIN vertex) \X (DOMAIN vertex) : is_edge(h, vertex[e[1]], vertex[e[2]])},
           directed |-> h.directed]
    BY <1>2 DEF Numbered, vertex_count
<1> HIDE DEF below, n
<1>4. ASSUME NEW v \in S PROVE vertex[below(v)] = v
    <2>1. below(v) \in 0 .. n - 1
        BY <1>1
    <2>2. vertex[below(v)] = CHOOSE w \in S : below(w) = below(v)
        BY <2>1
    <2>3. QED BY <2>2, <1>1
<1>5. DOMAIN vertex = 0 .. n - 1
    OBVIOUS
<1> HIDE DEF vertex, p
<1>6. Vertices(p) = 0 .. n - 1 /\ \A k \in 0 .. n - 1 : get_vertex_color(p, k) = get_vertex_color(h, vertex[k])
    BY <1>3, <1>5 DEF Vertices, get_vertex_color
<1>7. DOMAIN m = S /\ \A v \in S : m[v] = below(v) /\ m[v] \in 0 .. n - 1 /\ vertex[m[v]] = v
    BY <1>1, <1>4
<1>8. m \in [S -> Vertices(p)]
    BY <1>1, <1>6
<1> HIDE DEF m
<1>9. {m[v] : v \in DOMAIN m} = Vertices(p)
    BY <1>1, <1>6, <1>7
<1>10. \A v, w \in DOMAIN m : m[v] = m[w] => v = w
    BY <1>1, <1>7
<1>11. \A v \in DOMAIN m : get_vertex_color(g, v) = get_vertex_color(p, m[v])
    BY <1>2, <1>6, <1>7
<1>12. \A v, w \in DOMAIN m : is_edge(p, m[v], m[w]) => is_edge(g, v, w)
    <2> SUFFICES ASSUME NEW v \in S, NEW w \in S, <<m[v], m[w]>> \in p.edges PROVE is_edge(g, v, w)
        BY <1>7 DEF is_edge
    <2>1. p.edges = {e \in (0 .. n - 1) \X (0 .. n - 1) : is_edge(h, vertex[e[1]], vertex[e[2]])}
        BY <1>3, <1>5
    <2>2. is_edge(h, vertex[m[v]], vertex[m[w]])
        BY <2>1
    <2>3. QED BY <2>2, <1>2, <1>7
<1>13. IsEmbedding(m, p, g, FALSE)
    BY <1>7, <1>9, <1>10, <1>11, <1>12 DEF IsEmbedding
<1>14. m \in Embeddings(p, g, FALSE)
    BY <1>8, <1>13 DEF Embeddings
<1>15. QED BY <1>14 DEF p, h

-----------------------------------------------------------------------------
(* The inductive invariant.                                                *)

AllCommands == UNION {Commands(s) : s \in Sessions}

JobFields == {"pc", "command", "phases", "names", "library", "color_map", "to_process", "next", "outputs", "written"}

InPatternRun == job.pc \in {"phase", "search", "write"}

\* A run over patterns has the graphs of a directory; workers exist while it searches.
JobIs ==
    /\ session \in Seq(AllCommands)
    /\ job.pc \in {"idle", "phase", "search", "write", "filter"}
    /\ job.pc # "search" => worker = <<>>
    /\ job.pc = "filter" => DOMAIN job = {"pc", "command", "backgrounds", "cache"}
    /\ InPatternRun =>
         /\ DOMAIN job = JobFields
         /\ job.command \in AllCommands
         /\ job.command.run = "pattern_preprocess"
         /\ job.phases \in Seq({"multi", "single", "results"})
         /\ job.pc # "phase" => job.phases # <<>>
         /\ job.names \in Seq(InputFiles)
         /\ DOMAIN job.library = DOMAIN job.names
         /\ Len(job.library) = Len(job.names)
         /\ job.library \in Seq(ToSet(job.library))

\* The library is what was read, or what became of it under the colours of a search.
LibraryIs ==
    /\ job.pc \in {"phase", "write"} =>
         \A i \in DOMAIN job.names : job.library[i] = graph_of[job.names[i]]
    /\ job.pc = "search" =>
         \A i \in DOMAIN job.names :
             /\ Knows(job.color_map, graph_of[job.names[i]])
             /\ job.library[i] = recolor_graph(graph_of[job.names[i]], job.color_map)

\* A pattern with the graphs it occurs in, of those that were read.
FoundIn(found, names) ==
    \A k \in found.sources :
        k \in DOMAIN names /\ Embeddings(found.pattern, graph_of[names[k]], FALSE) # {}

AllFoundIn(finds, names) ==
    finds \in Seq(ToSet(finds)) /\ \A q \in DOMAIN finds : FoundIn(finds[q], names)

\* What workers and outputs hold was found; the files written are those of the outputs.
FindsAre ==
    /\ job.pc \in {"phase", "search"} => job.written = 0
    /\ job.pc = "search" => \A t \in DOMAIN worker : AllFoundIn(worker[t].found, job.names)
    /\ job.pc = "write" =>
         /\ AllFoundIn(job.outputs, job.names)
         /\ job.written \in 0 .. Len(job.outputs)
         /\ \A i \in 0 .. job.written - 1 :
              /\ Stamp \in DOMAIN store
              /\ i \in DOMAIN store[Stamp].patterns
              /\ store[Stamp].patterns[i] = job.outputs[i + 1].pattern

\* What IndexIsTrue says of one index.
TellsTheTruth(stored) ==
    stored.whole =>
        \A i \in DOMAIN stored.index :
            /\ i \in DOMAIN stored.patterns
            /\ \A k \in stored.index[i] :
                 Embeddings(stored.patterns[i], graph_of[stored.library[k]], FALSE) # {}

StoreIs == \A s \in DOMAIN store : DOMAIN store[s] = DOMAIN EmptyStore /\ TellsTheTruth(store[s])

ToBeSearched(c) == Phase = "multi" \/ job.to_process[c + 1]

\* What one worker has: a claim of its own that nobody searched, and before it at most
\* one search for each smaller claim.
WorkerIs(t) ==
    /\ DOMAIN worker[t] = DOMAIN NewWorker
    /\ worker[t].pc \in {"start", "claim", "work", "done", "failed"}
    /\ worker[t].searched \in Seq(Nat)
    /\ Len(worker[t].searched) <= job.next
    /\ \A k \in 1 .. Len(worker[t].searched) :
         /\ k - 1 <= worker[t].searched[k]
         /\ worker[t].searched[k] < job.next
         /\ worker[t].searched[k] < Claims
         /\ ToBeSearched(worker[t].searched[k])
    /\ worker[t].pc = "work" =>
         /\ worker[t].claim \in 0 .. Claims - 1
         /\ worker[t].claim < job.next
         /\ Len(worker[t].searched) <= worker[t].claim
         /\ \A s \in DOMAIN worker : \A k \in 1 .. Len(worker[s].searched) :
                worker[s].searched[k] # worker[t].claim
    /\ worker[t].pc = "done" => Claims <= job.next

\* Claims differ, and no two searches were for one claim.
ClaimsDiffer ==
    /\ \A s, t \in DOMAIN worker :
         worker[s].pc = "work" /\ worker[t].pc = "work" /\ worker[s].claim = worker[t].claim => s = t
    /\ \A s, t \in DOMAIN worker : \A j \in 1 .. Len(worker[s].searched), k \in 1 .. Len(worker[t].searched) :
         worker[s].searched[j] = worker[t].searched[k] => s = t /\ j = k

SearchedBy(t, c) == \E k \in 1 .. Len(worker[t].searched) : worker[t].searched[k] = c

\* A claim that was made was searched, unless a worker is at it or one has failed.
ClaimsAreKept ==
    \A c \in 0 .. Claims - 1 : ToBeSearched(c) =>
        /\ DOMAIN worker # {}
        /\ c < job.next => \E t \in DOMAIN worker :
              \/ SearchedBy(t, c)
              \/ worker[t].pc = "work" /\ worker[t].claim = c
              \/ worker[t].pc = "failed"

ClaimsAre ==
    job.pc = "search" =>
        /\ job.next \in Nat
        /\ Len(worker) \in Nat /\ DOMAIN worker = 1 .. Len(worker)
        /\ \A t \in DOMAIN worker : WorkerIs(t)
        /\ ClaimsDiffer
        /\ ClaimsAreKept

FlowInv == JobIs /\ LibraryIs /\ FindsAre /\ StoreIs /\ ClaimsAre

\* What the front ends and the directories warrant of a command.
LEMMA CommandIs ==
    ASSUME NEW c \in AllCommands, c.run = "pattern_preprocess"
    PROVE  /\ c.input \in DOMAIN Inputs
           /\ c.threads \in Nat \ {0}
           /\ c.preprocess_multigraph \in Nat
BY CommandsAssumption DEF AllCommands

\* A search is for one kind of patterns and has so many claims.
LEMMA ClaimsType ==
    ASSUME JobIs, InPatternRun, job.pc # "phase" \/ job.phases # <<>>
    PROVE  /\ Phase \in {"multi", "single", "results"}
           /\ Claims \in Nat
           /\ Phase # "multi" => Claims = Len(job.names)
           /\ Len(job.names) \in Nat /\ DOMAIN job.names = 1 .. Len(job.names)
<1>1. /\ job.phases \in Seq({"multi", "single", "results"}) /\ job.phases # <<>>
      /\ job.command \in AllCommands /\ job.command.run = "pattern_preprocess"
      /\ job.names \in Seq(InputFiles) /\ Len(job.library) = Len(job.names)
    BY DEF JobIs, InPatternRun
<1>2. Phase \in {"multi", "single", "results"}
    BY <1>1 DEF Phase
<1>3. Len(job.names) \in Nat /\ DOMAIN job.names = 1 .. Len(job.names)
    BY <1>1
<1>4. job.command.preprocess_multigraph \in Nat
    BY <1>1, CommandIs
<1>5. QED BY <1>1, <1>2, <1>3, <1>4 DEF Claims

\* What the graphs of a run are.
LEMMA NamesAreGraphs ==
    ASSUME JobIs, InPatternRun, NEW i \in DOMAIN job.names
    PROVE  job.names[i] \in InputFiles /\ IsGraph(graph_of[job.names[i]])
<1>1. job.names \in Seq(InputFiles)
    BY DEF JobIs
<1>2. job.names[i] \in InputFiles
    BY <1>1
<1>3. QED BY <1>2, FilesHoldGraphs

\* The run goes on with the same search.
SameRun ==
    /\ DOMAIN job' = DOMAIN job
    /\ job'.pc = job.pc /\ job'.command = job.command /\ job'.phases = job.phases
    /\ job'.names = job.names /\ job'.library = job.library /\ job'.color_map = job.color_map
    /\ job'.to_process = job.to_process /\ job'.outputs = job.outputs /\ job'.written = job.written

LEMMA SameSearch ==
    ASSUME SameRun
    PROVE  Phase' = Phase /\ Claims' = Claims /\ \A c : job'.to_process[c + 1] = job.to_process[c + 1]
BY DEF SameRun, Phase, Claims

\* In a search only its workers, what they found and the counter change.
LEMMA SearchGoesOn ==
    ASSUME FlowInv, job.pc = "search", SameRun, UNCHANGED <<session, store>>,
           \A t \in DOMAIN worker' : AllFoundIn(worker'[t].found, job.names)
    PROVE  JobIs' /\ LibraryIs' /\ FindsAre' /\ StoreIs'
<1>1. JobIs'
    BY DEF FlowInv, JobIs, InPatternRun, SameRun
<1>2. LibraryIs'
    BY DEF FlowInv, LibraryIs, SameRun
<1>3. FindsAre'
    BY DEF FlowInv, FindsAre, SameRun
<1>4. StoreIs'
    BY DEF FlowInv, StoreIs, EmptyStore
<1>5. QED BY <1>1, <1>2, <1>3, <1>4

\* A worker that exists is searching.
LEMMA WorkersSearch ==
    ASSUME FlowInv, NEW t \in DOMAIN worker
    PROVE  job.pc = "search" /\ InPatternRun
BY DEF FlowInv, JobIs, InPatternRun

\* A worker goes on to something else than work, and leaves no claim that is to be
\* searched unless it fails.
LEMMA WorkerGoesOn ==
    ASSUME FlowInv, job' = job, NEW t \in DOMAIN worker, NEW pc \in {"claim", "failed"},
           worker' = [worker EXCEPT ![t].pc = pc],
           worker[t].pc = "work" /\ pc = "claim" => ~ToBeSearched(worker[t].claim),
           worker[t].pc # "failed",
           UNCHANGED <<session, store>>
    PROVE  FlowInv'
<1>1. job.pc = "search" /\ InPatternRun
    BY WorkersSearch
<1>2. /\ job.next \in Nat
      /\ Len(worker) \in Nat /\ DOMAIN worker = 1 .. Len(worker)
      /\ \A s \in DOMAIN worker : WorkerIs(s)
      /\ ClaimsDiffer
      /\ ClaimsAreKept
    BY <1>1 DEF FlowInv, ClaimsAre
<1>3. DOMAIN worker[t] = DOMAIN NewWorker
    BY <1>2 DEF WorkerIs
<1>4. /\ DOMAIN worker' = DOMAIN worker
      /\ \A s \in DOMAIN worker \ {t} : worker'[s] = worker[s]
      /\ worker'[t] = [worker[t] EXCEPT !.pc = pc]
    OBVIOUS
<1>5. /\ DOMAIN worker'[t] = DOMAIN worker[t]
      /\ worker'[t].pc = pc /\ worker'[t].claim = worker[t].claim
      /\ worker'[t].found = worker[t].found /\ worker'[t].searched = worker[t].searched
    BY <1>3, <1>4 DEF NewWorker
<1>6. \A s \in DOMAIN worker :
          /\ DOMAIN worker'[s] = DOMAIN worker[s]
          /\ worker'[s].claim = worker[s].claim /\ worker'[s].found = worker[s].found
          /\ worker'[s].searched = worker[s].searched
          /\ worker'[s].pc = IF s = t THEN pc ELSE worker[s].pc
    BY <1>4, <1>5
<1>7. SameRun
    BY DEF SameRun
<1>8. Phase' = Phase /\ Claims' = Claims
    BY <1>7, SameSearch
<1>9. Len(worker') = Len(worker)
    BY <1>2, <1>4
<1>10. ASSUME NEW s \in DOMAIN worker PROVE WorkerIs(s)'
    <2>1. WorkerIs(s)
        BY <1>2
    <2>2. /\ DOMAIN worker'[s] = (DOMAIN NewWorker)'
          /\ worker'[s].pc \in {"start", "claim", "work", "done", "failed"}
        BY <2>1, <1>6 DEF WorkerIs, NewWorker
    <2>3. worker'[s].pc \in {"work", "done"} => worker[s].pc = worker'[s].pc
        BY <1>6
    <2>4. QED BY <2>1, <2>2, <2>3, <1>4, <1>6, <1>8 DEF WorkerIs, ToBeSearched
<1>11. ClaimsDiffer'
    <2>1. \A s, r \in DOMAIN worker' :
             worker'[s].pc = "work" /\ worker'[r].pc = "work" /\ worker'[s].claim = worker'[r].claim => s = r
        BY <1>2, <1>4, <1>6 DEF ClaimsDiffer
    <2>2. ASSUME NEW s \in DOMAIN worker', NEW r \in DOMAIN worker',
                 NEW j \in 1 .. Len(worker'[s].searched), NEW k \in 1 .. Len(worker'[r].searched),
                 worker'[s].searched[j] = worker'[r].searched[k]
          PROVE  s = r /\ j = k
        <3>1. worker'[s].searched = worker[s].searched /\ worker'[r].searched = worker[r].searched
              /\ s \in DOMAIN worker /\ r \in DOMAIN worker
            BY <1>4, <1>6
        <3>2. /\ j \in 1 .. Len(worker[s].searched) /\ k \in 1 .. Len(worker[r].searched)
              /\ worker[s].searched[j] = worker[r].searched[k]
            BY <2>2, <3>1
        <3>3. QED BY <3>1, <3>2, <1>2 DEF ClaimsDiffer
    <2>3. QED BY <2>1, <2>2 DEF ClaimsDiffer
<1>12. ClaimsAreKept'
    <2> SUFFICES ASSUME NEW c \in 0 .. Claims - 1, ToBeSearched(c)
                 PROVE  /\ DOMAIN worker' # {}
                        /\ c < job'.next => \E s \in DOMAIN worker' :
                              \/ SearchedBy(s, c)'
                              \/ worker'[s].pc = "work" /\ worker'[s].claim = c
                              \/ worker'[s].pc = "failed"
        BY <1>8 DEF ClaimsAreKept, ToBeSearched
    <2>1. DOMAIN worker' # {}
        BY <1>4
    <2>2. ASSUME c < job.next
          PROVE  \E s \in DOMAIN worker' :
                    \/ SearchedBy(s, c)'
                    \/ worker'[s].pc = "work" /\ worker'[s].claim = c
                    \/ worker'[s].pc = "failed"
        <3>1. PICK s \in DOMAIN worker :
                    \/ SearchedBy(s, c)
                    \/ worker[s].pc = "work" /\ worker[s].claim = c
                    \/ worker[s].pc = "failed"
            BY <2>2, <1>2 DEF ClaimsAreKept
        <3>2. CASE SearchedBy(s, c)
            BY <3>2, <1>4, <1>6 DEF SearchedBy
        <3>3. CASE s # t
            BY <3>1, <3>3, <1>4, <1>6 DEF SearchedBy
        <3>4. CASE s = t /\ worker[t].pc = "work" /\ worker[t].claim = c
            <4>1. worker'[t].pc = "failed"
                BY <3>4, <1>5
            <4>2. QED BY <4>1, <1>4
        <3>5. QED BY <3>1, <3>2, <3>3, <3>4
    <2>3. QED BY <2>1, <2>2
<1>13. ClaimsAre'
    BY <1>2, <1>4, <1>9, <1>10, <1>11, <1>12 DEF ClaimsAre
<1>14. \A s \in DOMAIN worker' : AllFoundIn(worker'[s].found, job.names)
    BY <1>1, <1>4, <1>6 DEF FlowInv, FindsAre
<1>15. QED BY <1>1, <1>7, <1>13, <1>14, SearchGoesOn DEF FlowInv

\* A worker takes the number of the counter: no one else has it or ever had it.
LEMMA ClaimKeeps ==
    ASSUME FlowInv, NEW t \in DOMAIN worker, Claim(t)
    PROVE  FlowInv'
<1>1. job.pc = "search" /\ InPatternRun
    BY WorkersSearch
<1>2. /\ job.next \in Nat
      /\ Len(worker) \in Nat /\ DOMAIN worker = 1 .. Len(worker)
      /\ \A s \in DOMAIN worker : WorkerIs(s)
      /\ ClaimsDiffer
      /\ ClaimsAreKept
    BY <1>1 DEF FlowInv, ClaimsAre
<1>3. DOMAIN worker[t] = DOMAIN NewWorker /\ DOMAIN job = JobFields
    BY <1>1, <1>2 DEF WorkerIs, FlowInv, JobIs
<1> DEFINE pc == IF job.next < Claims THEN "work" ELSE "done"
<1>4. /\ worker[t].pc = "claim"
      /\ job' = [job EXCEPT !.next = job.next + 1]
      /\ worker' = [worker EXCEPT ![t].claim = job.next, ![t].pc = pc]
      /\ UNCHANGED <<session, store>>
    BY DEF Claim, enumerationVars
<1>5. pc \in {"work", "done"} /\ (pc = "work" <=> job.next < Claims)
    OBVIOUS
<1> HIDE DEF pc
<1>6. SameRun /\ job'.next = job.next + 1
    BY <1>3, <1>4 DEF SameRun, JobFields
<1>7. /\ DOMAIN worker' = DOMAIN worker
      /\ \A s \in DOMAIN worker \ {t} : worker'[s] = worker[s]
      /\ worker'[t] = [worker[t] EXCEPT !.claim = job.next, !.pc = pc]
    BY <1>4
<1>8. /\ DOMAIN worker'[t] = DOMAIN worker[t]
      /\ worker'[t].pc = pc /\ worker'[t].claim = job.next
      /\ worker'[t].found = worker[t].found /\ worker'[t].searched = worker[t].searched
    BY <1>3, <1>7 DEF NewWorker
<1>9. \A s \in DOMAIN worker :
          /\ DOMAIN worker'[s] = DOMAIN worker[s]
          /\ worker'[s].found = worker[s].found
          /\ worker'[s].searched = worker[s].searched
          /\ worker'[s].pc = IF s = t THEN pc ELSE worker[s].pc
          /\ worker'[s].claim = IF s = t THEN job.next ELSE worker[s].claim
    BY <1>7, <1>8
<1>10. Phase' = Phase /\ Claims' = Claims /\ Claims \in Nat
    BY <1>1, <1>6, SameSearch, ClaimsType DEF FlowInv
<1>11. \A c : ToBeSearched(c)' <=> ToBeSearched(c)
    BY <1>6, <1>10 DEF ToBeSearched, SameRun
<1>12. Len(worker') = Len(worker)
    BY <1>2, <1>7
<1>13. \A s \in DOMAIN worker : \A k \in 1 .. Len(worker[s].searched) :
           worker[s].searched[k] < job.next /\ worker[s].searched[k] \in Nat /\ Len(worker[s].searched) \in Nat
    BY <1>2 DEF WorkerIs
<1>14. ASSUME NEW s \in DOMAIN worker PROVE WorkerIs(s)'
    <2>1. WorkerIs(s)
        BY <1>2
    <2>2. /\ DOMAIN worker'[s] = (DOMAIN NewWorker)'
          /\ worker'[s].pc \in {"start", "claim", "work", "done", "failed"}
        BY <2>1, <1>5, <1>9 DEF WorkerIs, NewWorker
    <2>3. /\ worker'[s].searched \in Seq(Nat)
          /\ Len(worker'[s].searched) <= job'.next
        BY <2>1, <1>2, <1>6, <1>9 DEF WorkerIs
    <2>4. ASSUME NEW k \in 1 .. Len(worker'[s].searched)
          PROVE  /\ k - 1 <= worker'[s].searched[k]
                 /\ worker'[s].searched[k] < job'.next
                 /\ worker'[s].searched[k] < Claims'
                 /\ ToBeSearched(worker[s].searched[k])'
        <3>1. k \in 1 .. Len(worker[s].searched) /\ worker'[s].searched = worker[s].searched
            BY <1>9
        <3>2. /\ k - 1 <= worker[s].searched[k]
              /\ worker[s].searched[k] < job.next
              /\ worker[s].searched[k] < Claims
              /\ ToBeSearched(worker[s].searched[k])
            BY <2>1, <3>1 DEF WorkerIs
        <3>3. ToBeSearched(worker[s].searched[k])'
            BY <3>1, <3>2, <1>6, <1>10 DEF ToBeSearched, SameRun
        <3>4. worker[s].searched[k] \in Nat
            BY <3>1, <1>13
        <3>5. QED BY <3>1, <3>2, <3>3, <3>4, <1>2, <1>6, <1>10
    <2>5. ASSUME worker'[s].pc = "work"
          PROVE  /\ worker'[s].claim \in 0 .. Claims' - 1
                 /\ worker'[s].claim < job'.next
                 /\ Len(worker'[s].searched) <= worker'[s].claim
                 /\ \A r \in DOMAIN worker' : \A k \in 1 .. Len(worker'[r].searched) :
                        worker'[r].searched[k] # worker'[s].claim
        <3>1. CASE s = t
            <4>1. worker'[s].claim = job.next /\ job.next < Claims
                BY <2>5, <3>1, <1>5, <1>8
            <4>2. Len(worker'[s].searched) <= job.next
                BY <2>1, <1>9 DEF WorkerIs
            <4>3. ASSUME NEW r \in DOMAIN worker, NEW k \in 1 .. Len(worker'[r].searched)
                  PROVE  worker'[r].searched[k] # job.next
                <5>1. worker'[r].searched = worker[r].searched
                    BY <1>9
                <5>2. k \in 1 .. Len(worker[r].searched)
                    BY <5>1
                <5>3. worker[r].searched[k] < job.next /\ worker[r].searched[k] \in Nat
                    BY <5>2, <1>13
                <5>4. QED BY <5>1, <5>3, <1>2
            <4>4. QED BY <4>1, <4>2, <4>3, <1>2, <1>6, <1>7, <1>10
        <3>2. CASE s # t
            <4>1. worker[s].pc = "work" /\ worker'[s].claim = worker[s].claim
                BY <2>5, <3>2, <1>9
            <4>2. /\ worker[s].claim \in 0 .. Claims - 1
                  /\ worker[s].claim < job.next
                  /\ Len(worker[s].searched) <= worker[s].claim
                  /\ \A r \in DOMAIN worker : \A k \in 1 .. Len(worker[r].searched) :
                         worker[r].searched[k] # worker[s].claim
                BY <4>1, <2>1 DEF WorkerIs
            <4>3. QED BY <4>1, <4>2, <1>2, <1>6, <1>7, <1>9, <1>10
        <3>3. QED BY <3>1, <3>2
    <2>6. worker'[s].pc = "done" => Claims' <= job'.next
        <3>1. CASE s = t
            BY <3>1, <1>2, <1>5, <1>6, <1>8, <1>10
        <3>2. CASE s # t
            BY <3>2, <2>1, <1>2, <1>6, <1>9, <1>10 DEF WorkerIs
        <3>3. QED BY <3>1, <3>2
    <2>7. QED BY <2>2, <2>3, <2>4, <2>5, <2>6 DEF WorkerIs
<1>15. ClaimsDiffer'
    <2>1. ASSUME NEW s \in DOMAIN worker', NEW r \in DOMAIN worker',
                 worker'[s].pc = "work", worker'[r].pc = "work", worker'[s].claim = worker'[r].claim
          PROVE  s = r
        <3>1. \A q \in DOMAIN worker \ {t} : worker[q].pc = "work" => worker[q].claim < job.next /\ worker[q].claim \in Int
            BY <1>2, <1>10 DEF WorkerIs
        <3>2. QED BY <2>1, <3>1, <1>2, <1>7, <1>9 DEF ClaimsDiffer
    <2>2. ASSUME NEW s \in DOMAIN worker', NEW r \in DOMAIN worker',
                 NEW j \in 1 .. Len(worker'[s].searched), NEW k \in 1 .. Len(worker'[r].searched),
                 worker'[s].searched[j] = worker'[r].searched[k]
          PROVE  s = r /\ j = k
        <3>1. worker'[s].searched = worker[s].searched /\ worker'[r].searched = worker[r].searched
              /\ s \in DOMAIN worker /\ r \in DOMAIN worker
            BY <1>7, <1>9
        <3>2. /\ j \in 1 .. Len(worker[s].searched) /\ k \in 1 .. Len(worker[r].searched)
              /\ worker[s].searched[j] = worker[r].searched[k]
            BY <2>2, <3>1
        <3>3. QED BY <3>1, <3>2, <1>2 DEF ClaimsDiffer
    <2>3. QED BY <2>1, <2>2 DEF ClaimsDiffer
<1>16. ClaimsAreKept'
    <2> SUFFICES ASSUME NEW c \in 0 .. Claims - 1, ToBeSearched(c)
                 PROVE  /\ DOMAIN worker' # {}
                        /\ c < job'.next => \E s \in DOMAIN worker' :
                              \/ SearchedBy(s, c)'
                              \/ worker'[s].pc = "work" /\ worker'[s].claim = c
                              \/ worker'[s].pc = "failed"
        BY <1>10, <1>11 DEF ClaimsAreKept
    <2>1. DOMAIN worker' # {}
        BY <1>7
    <2>2. CASE c < job.next
        <3>1. PICK s \in DOMAIN worker :
                    \/ SearchedBy(s, c)
                    \/ worker[s].pc = "work" /\ worker[s].claim = c
                    \/ worker[s].pc = "failed"
            BY <2>2, <1>2 DEF ClaimsAreKept
        <3>2. CASE SearchedBy(s, c)
            <4>1. SearchedBy(s, c)'
                BY <3>2, <1>9 DEF SearchedBy
            <4>2. QED BY <4>1, <2>1, <1>7
        <3>3. CASE s # t /\ ~SearchedBy(s, c)
            <4>1. worker'[s].pc = worker[s].pc /\ worker'[s].claim = worker[s].claim
                BY <3>3, <1>9
            <4>2. QED BY <3>1, <3>3, <4>1, <2>1, <1>7
        <3>4. QED BY <3>1, <3>2, <3>3, <1>4
    <2>3. CASE c = job.next
        <3>1. worker'[t].pc = "work" /\ worker'[t].claim = c
            BY <2>3, <1>2, <1>5, <1>8, <1>10
        <3>2. QED BY <3>1, <2>1, <1>7
    <2>4. c < job'.next => c < job.next \/ c = job.next
        BY <1>2, <1>6, <1>10
    <2>5. QED BY <2>1, <2>2, <2>3, <2>4
<1>17. ClaimsAre'
    BY <1>2, <1>6, <1>7, <1>12, <1>14, <1>15, <1>16 DEF ClaimsAre
<1>18. \A s \in DOMAIN worker' : AllFoundIn(worker'[s].found, job.names)
    BY <1>1, <1>7, <1>9 DEF FlowInv, FindsAre
<1>19. QED BY <1>1, <1>4, <1>6, <1>17, <1>18, SearchGoesOn DEF FlowInv

-----------------------------------------------------------------------------
(* What a search finds.                                                    *)

LEMMA NothingFound == ASSUME NEW names PROVE AllFoundIn(<<>>, names)
<1>1. <<>> \in Seq(ToSet(<<>>)) /\ DOMAIN <<>> = {}
    OBVIOUS
<1>2. QED BY <1>1 DEF AllFoundIn

LEMMA OneMoreFound ==
    ASSUME NEW names, NEW finds, AllFoundIn(finds, names), NEW f, FoundIn(f, names)
    PROVE  AllFoundIn(finds \o <<f>>, names)
<1> DEFINE u == finds \o <<f>>
           T == ToSet(finds) \cup {f}
           n == Len(finds)
<1>1. finds \in Seq(T) /\ <<f>> \in Seq(T)
    <2>1. finds \in Seq(ToSet(finds))
        BY DEF AllFoundIn
    <2> HIDE DEF T
    <2>2. ToSet(finds) \subseteq T /\ f \in T
        BY DEF T
    <2>3. QED BY <2>1, <2>2
<1> HIDE DEF T
<1>2. /\ u \in Seq(T) /\ Len(u) = n + 1 /\ n \in Nat
      /\ \A q \in 1 .. n : u[q] = finds[q]
      /\ u[n + 1] = f
    BY <1>1
<1> HIDE DEF u, n
<1>3. DOMAIN u = 1 .. n + 1 /\ DOMAIN finds = 1 .. n
    BY <1>1, <1>2 DEF n
<1>4. u \in Seq(ToSet(u))
    BY <1>2 DEF ToSet
<1>5. ASSUME NEW q \in DOMAIN u PROVE FoundIn(u[q], names)
    <2>1. q \in 1 .. n \/ q = n + 1
        BY <1>2, <1>3
    <2>2. QED BY <2>1, <1>2, <1>3 DEF AllFoundIn
<1>6. AllFoundIn(u, names)
    BY <1>4, <1>5 DEF AllFoundIn
<1>7. QED BY <1>6 DEF u

\* The finds of several workers, one after the other.
LEMMA AllTheirFinds ==
    ASSUME NEW names, NEW seqs, Len(seqs) \in Nat, DOMAIN seqs = 1 .. Len(seqs),
           Len(seqs) = 0 => seqs = <<>>,
           \A k \in 1 .. Len(seqs) : AllFoundIn(seqs[k], names)
    PROVE  AllFoundIn(FlattenSeq(seqs), names)
<1> DEFINE T == UNION {ToSet(seqs[k]) : k \in 1 .. Len(seqs)}
           s == FlattenSeq(seqs)
<1>1. ASSUME NEW k \in 1 .. Len(seqs) PROVE seqs[k] \in Seq(T)
    <2>1. seqs[k] \in Seq(ToSet(seqs[k]))
        BY DEF AllFoundIn
    <2>2. ToSet(seqs[k]) \subseteq T
        OBVIOUS
    <2> HIDE DEF T
    <2>3. QED BY <2>1, <2>2
<1> HIDE DEF T
<1>2. PICK b : \E o : IsFlat(s, T, seqs, Len(seqs), b, o)
    BY <1>1, FlattenIsFlat
<1>3. PICK o : IsFlat(s, T, seqs, Len(seqs), b, o)
    BY <1>2
<1> HIDE DEF s
<1>4. /\ s \in Seq(T)
      /\ \A q \in 1 .. Len(s) : b[q] \in 1 .. Len(seqs)
      /\ \A q \in 1 .. Len(s) : o[q] \in 1 .. Len(seqs[b[q]]) /\ s[q] = seqs[b[q]][o[q]]
    BY <1>3 DEF IsFlat
<1>5. DOMAIN s = 1 .. Len(s) /\ s \in Seq(ToSet(s))
    BY <1>4 DEF ToSet
<1>6. ASSUME NEW q \in 1 .. Len(s) PROVE FoundIn(s[q], names)
    <2>1. b[q] \in 1 .. Len(seqs) /\ o[q] \in 1 .. Len(seqs[b[q]]) /\ s[q] = seqs[b[q]][o[q]]
        BY <1>4
    <2>2. seqs[b[q]] \in Seq(T) /\ DOMAIN seqs[b[q]] = 1 .. Len(seqs[b[q]])
        BY <2>1, <1>1
    <2>3. FoundIn(seqs[b[q]][o[q]], names)
        BY <2>1, <2>2 DEF AllFoundIn
    <2>4. QED BY <2>1, <2>3
<1>7. AllFoundIn(s, names)
    BY <1>5, <1>6 DEF AllFoundIn
<1>8. QED BY <1>7 DEF s

\* A pattern has the fields of a graph.
LEMMA PatternsHaveFields ==
    ASSUME NEW g, NEW p \in PatternsOf(g)
    PROVE  p = [color |-> p.color, edges |-> p.edges, directed |-> p.directed]
<1>1. PICK S \in SUBSET Vertices(g) : p = Numbered(Inside(g, S))
    BY DEF PatternsOf
<1>2. QED BY <1>1 DEF Numbered

\* A pattern that occurs in graphs of the library during a search is found, in the
\* colours of the files, in those that were read.
LEMMA FoundIsTrue ==
    ASSUME FlowInv, job.pc = "search", NEW p,
           p = [color |-> p.color, edges |-> p.edges, directed |-> p.directed],
           NEW sources \in SUBSET (DOMAIN job.names),
           \A k \in sources : Embeddings(p, job.library[k], FALSE) # {}
    PROVE  FoundIn(Found(recolor_pattern(p, job.color_map), sources), job.names)
<1>1. ASSUME NEW k \in sources
      PROVE  Embeddings(recolor_pattern(p, job.color_map), graph_of[job.names[k]], FALSE) # {}
    <2>1. /\ Knows(job.color_map, graph_of[job.names[k]])
          /\ job.library[k] = recolor_graph(graph_of[job.names[k]], job.color_map)
        BY DEF FlowInv, LibraryIs
    <2>2. IsGraph(graph_of[job.names[k]])
        BY NamesAreGraphs DEF FlowInv, InPatternRun
    <2>3. Embeddings(p, recolor_graph(graph_of[job.names[k]], job.color_map), FALSE) # {}
        BY <2>1
    <2>4. QED BY <2>1, <2>2, <2>3, RecoloredEmbeds
<1>2. QED BY <1>1 DEF FoundIn, Found

\* So are those of a search of several graphs,
LEMMA MultiFinds ==
    ASSUME FlowInv, job.pc = "search", NEW o \in multi_patterns(job.library)
    PROVE  FoundIn(Found(recolor_pattern(o.pattern, job.color_map), o.sources), job.names)
<1>1. DOMAIN job.library = DOMAIN job.names
    BY DEF FlowInv, JobIs, InPatternRun
<1>2. PICK p \in UNION {PatternsOf(job.library[i]) : i \in DOMAIN job.library} : o = Found(p, Sources(p, job.library))
    BY DEF multi_patterns
<1>3. PICK i \in DOMAIN job.library : p \in PatternsOf(job.library[i])
    BY <1>2
<1>4. p = [color |-> p.color, edges |-> p.edges, directed |-> p.directed]
    BY <1>3, PatternsHaveFields
<1>5. /\ Sources(p, job.library) \subseteq DOMAIN job.names
      /\ \A k \in Sources(p, job.library) : Embeddings(p, job.library[k], FALSE) # {}
    BY <1>1 DEF Sources
<1>6. o.pattern = p /\ o.sources = Sources(p, job.library)
    BY <1>2 DEF Found
<1>7. QED BY <1>4, <1>5, <1>6, FoundIsTrue

\* and of one graph.
LEMMA SingleFinds ==
    ASSUME FlowInv, job.pc = "search", NEW i \in DOMAIN job.names, NEW p \in PatternsOf(job.library[i])
    PROVE  FoundIn(Found(recolor_pattern(p, job.color_map), {i}), job.names)
<1> DEFINE g == graph_of[job.names[i]]
<1>1. p = [color |-> p.color, edges |-> p.edges, directed |-> p.directed]
    BY PatternsHaveFields
<1>2. IsGraph(g)
    BY NamesAreGraphs DEF FlowInv, InPatternRun
<1>3. Knows(job.color_map, g) /\ job.library[i] = recolor_graph(g, job.color_map)
    BY DEF FlowInv, LibraryIs
<1> HIDE DEF g
<1>4. Vertices(job.library[i]) = Vertices(g)
    BY <1>2, <1>3, RecoloredIs DEF Vertices
<1>5. IsFiniteSet(Vertices(g)) /\ Vertices(g) \subseteq Nat
    <2>1. Cardinality(Vertices(g)) \in Nat /\ Vertices(g) = 0 .. Cardinality(Vertices(g)) - 1 /\ IsFiniteSet(Vertices(g))
        BY <1>2, FS_CardinalityType DEF IsGraph, IsColoredGraph, vertex_count
    <2>2. QED BY <2>1
<1>6. PICK S \in SUBSET Vertices(job.library[i]) : p = Numbered(Inside(job.library[i], S))
    BY DEF PatternsOf
<1>7. Embeddings(p, job.library[i], FALSE) # {}
    BY <1>4, <1>5, <1>6, NumberedEmbeds
<1>8. QED BY <1>1, <1>7, FoundIsTrue

\* A worker has searched its claim.
LEMMA SearchKeeps ==
    ASSUME FlowInv, job' = job, NEW t \in DOMAIN worker, worker[t].pc = "work",
           ToBeSearched(worker[t].claim), NEW finds, AllFoundIn(finds, job.names),
           worker' = [worker EXCEPT ![t].pc = "claim", ![t].searched = Append(worker[t].searched, worker[t].claim),
                                    ![t].found = finds],
           UNCHANGED <<session, store>>
    PROVE  FlowInv'
<1> DEFINE c == worker[t].claim
           n == Len(worker[t].searched)
           mine == Append(worker[t].searched, c)
<1>1. job.pc = "search" /\ InPatternRun
    BY WorkersSearch
<1>2. /\ job.next \in Nat
      /\ Len(worker) \in Nat /\ DOMAIN worker = 1 .. Len(worker)
      /\ \A s \in DOMAIN worker : WorkerIs(s)
      /\ ClaimsDiffer
      /\ ClaimsAreKept
    BY <1>1 DEF FlowInv, ClaimsAre
<1>3. DOMAIN worker[t] = DOMAIN NewWorker
    BY <1>2 DEF WorkerIs
<1>4. SameRun
    BY DEF SameRun
<1>5. Phase' = Phase /\ Claims' = Claims /\ Claims \in Nat
    BY <1>1, <1>4, SameSearch, ClaimsType DEF FlowInv
<1>6. /\ DOMAIN worker' = DOMAIN worker
      /\ \A s \in DOMAIN worker \ {t} : worker'[s] = worker[s]
      /\ worker'[t] = [worker[t] EXCEPT !.pc = "claim", !.searched = mine, !.found = finds]
    OBVIOUS
<1>7. /\ c \in 0 .. Claims - 1 /\ c < job.next /\ n <= c
      /\ worker[t].searched \in Seq(Nat)
      /\ \A s \in DOMAIN worker : \A k \in 1 .. Len(worker[s].searched) : worker[s].searched[k] # c
    BY <1>2 DEF WorkerIs
<1>8. /\ mine \in Seq(Nat) /\ Len(mine) = n + 1 /\ n \in Nat /\ mine[n + 1] = c
      /\ \A k \in 1 .. n : mine[k] = worker[t].searched[k]
      /\ \A k \in 1 .. n + 1 : k \in 1 .. n \/ k = n + 1
    BY <1>5, <1>7
<1> HIDE DEF mine, c, n
<1>9. /\ DOMAIN worker'[t] = DOMAIN worker[t]
      /\ worker'[t].pc = "claim" /\ worker'[t].claim = c
      /\ worker'[t].found = finds /\ worker'[t].searched = mine
    BY <1>3, <1>6 DEF NewWorker, c
<1>10. \A s \in DOMAIN worker : worker'[s].claim = worker[s].claim
    BY <1>6, <1>9 DEF c
<1>11. Len(worker') = Len(worker)
    BY <1>2, <1>6
<1>12. \A s \in DOMAIN worker : Len(worker[s].searched) \in Nat
    BY <1>2 DEF WorkerIs
<1>13. ASSUME NEW s \in DOMAIN worker, s # t PROVE WorkerIs(s)'
    <2>1. WorkerIs(s) /\ worker'[s] = worker[s]
        BY <1>2, <1>6, <1>13
    <2>2. /\ DOMAIN worker'[s] = (DOMAIN NewWorker)'
          /\ worker'[s].pc \in {"start", "claim", "work", "done", "failed"}
        BY <2>1 DEF WorkerIs, NewWorker
    <2>3. ASSUME worker'[s].pc = "work", NEW r \in DOMAIN worker', NEW k \in 1 .. Len(worker'[r].searched)
          PROVE  worker'[r].searched[k] # worker'[s].claim
        <3>1. worker[s].pc = "work" /\ worker'[s].claim = worker[s].claim
            BY <2>1, <2>3
        <3>2. CASE r # t
            <4>1. worker'[r] = worker[r] /\ r \in DOMAIN worker
                BY <3>2, <2>3, <1>6
            <4>2. \A q \in DOMAIN worker : \A i \in 1 .. Len(worker[q].searched) :
                      worker[q].searched[i] # worker[s].claim
                BY <2>1, <3>1 DEF WorkerIs
            <4>3. k \in 1 .. Len(worker[r].searched)
                BY <2>3, <4>1
            <4>4. worker[r].searched[k] # worker[s].claim
                BY <4>1, <4>2, <4>3
            <4>5. QED BY <3>1, <4>1, <4>4
        <3>3. CASE r = t
            <4>1. worker'[r].searched = mine /\ k \in 1 .. n + 1
                BY <3>3, <2>3, <1>8, <1>9
            <4>2. CASE k = n + 1
                <5>1. worker[s].claim # c
                    BY <3>1, <1>2, <1>13 DEF ClaimsDiffer, c
                <5>2. QED BY <3>1, <4>1, <4>2, <5>1, <1>8
            <4>3. CASE k \in 1 .. n
                <5>1. worker[t].searched[k] # worker[s].claim
                    BY <2>1, <3>1, <4>3 DEF WorkerIs, n
                <5>2. QED BY <3>1, <4>1, <4>3, <5>1, <1>8
            <4>4. QED BY <4>1, <4>2, <4>3, <1>8
        <3>4. QED BY <3>2, <3>3
    <2>4. /\ worker'[s].searched \in Seq(Nat)
          /\ Len(worker'[s].searched) <= job'.next
          /\ worker'[s].pc = "done" => Claims' <= job'.next
          /\ worker'[s].pc = "work" =>
               /\ worker'[s].claim \in 0 .. Claims' - 1
               /\ worker'[s].claim < job'.next
               /\ Len(worker'[s].searched) <= worker'[s].claim
        BY <2>1, <1>5 DEF WorkerIs
    <2>5. ASSUME NEW k \in 1 .. Len(worker'[s].searched)
          PROVE  /\ k - 1 <= worker'[s].searched[k]
                 /\ worker'[s].searched[k] < job'.next
                 /\ worker'[s].searched[k] < Claims'
                 /\ ToBeSearched(worker[s].searched[k])'
        <3>1. k \in 1 .. Len(worker[s].searched) /\ worker'[s].searched = worker[s].searched
            BY <2>1
        <3>2. /\ k - 1 <= worker[s].searched[k]
              /\ worker[s].searched[k] < job.next
              /\ worker[s].searched[k] < Claims
              /\ ToBeSearched(worker[s].searched[k])
            BY <2>1, <3>1 DEF WorkerIs
        <3>3. ToBeSearched(worker[s].searched[k])'
            BY <3>1, <3>2, <1>5 DEF ToBeSearched
        <3>4. QED BY <3>1, <3>2, <3>3, <1>5
    <2>6. QED BY <2>2, <2>3, <2>4, <2>5 DEF WorkerIs
<1>14. WorkerIs(t)'
    <2>1. DOMAIN worker'[t] = (DOMAIN NewWorker)'
        <3>1. DOMAIN NewWorker = (DOMAIN NewWorker)'
            BY DEF NewWorker
        <3>2. QED BY <3>1, <1>3, <1>9
    <2>2. worker'[t].searched \in Seq(Nat) /\ Len(worker'[t].searched) <= job'.next
        <3>1. c \in Nat /\ n + 1 <= job.next /\ job'.next = job.next
            BY <1>2, <1>5, <1>7, <1>8
        <3>2. worker'[t].searched = mine
            BY <1>9
        <3>3. QED BY <3>1, <3>2, <1>8
    <2>3. ASSUME NEW k \in 1 .. Len(worker'[t].searched)
          PROVE  /\ k - 1 <= worker'[t].searched[k]
                 /\ worker'[t].searched[k] < job'.next
                 /\ worker'[t].searched[k] < Claims'
                 /\ ToBeSearched(worker[t].searched[k])'
        <3>1. k \in 1 .. n + 1
            BY <1>8, <1>9
        <3>2. CASE k = n + 1
            <4>1. worker'[t].searched[k] = c
                BY <3>2, <1>8, <1>9
            <4>2. ToBeSearched(worker[t].searched[k])'
                BY <4>1, <1>5 DEF ToBeSearched, c
            <4>3. job'.next = job.next
                OBVIOUS
            <4>4. k - 1 <= c /\ c < job'.next /\ c < Claims'
                BY <3>2, <4>3, <1>2, <1>5, <1>7, <1>8
            <4>5. QED BY <4>1, <4>2, <4>4
        <3>3. CASE k \in 1 .. n
            <4>1. worker'[t].searched[k] = worker[t].searched[k]
                BY <3>3, <1>8, <1>9
            <4>2. /\ k - 1 <= worker[t].searched[k]
                  /\ worker[t].searched[k] < job.next
                  /\ worker[t].searched[k] < Claims
                  /\ ToBeSearched(worker[t].searched[k])
                BY <3>3, <1>2 DEF WorkerIs, n
            <4>3. ToBeSearched(worker[t].searched[k])'
                BY <4>1, <4>2, <1>5 DEF ToBeSearched
            <4>4. QED BY <4>1, <4>2, <4>3, <1>5
        <3>4. QED BY <3>1, <3>2, <3>3, <1>8
    <2>4. QED BY <2>1, <2>2, <2>3, <1>9 DEF WorkerIs
<1>15. ClaimsDiffer'
    <2>1. \A s, r \in DOMAIN worker' :
             worker'[s].pc = "work" /\ worker'[r].pc = "work" /\ worker'[s].claim = worker'[r].claim => s = r
        BY <1>2, <1>6, <1>9 DEF ClaimsDiffer
    <2>2. ASSUME NEW s \in DOMAIN worker', NEW r \in DOMAIN worker',
                 NEW j \in 1 .. Len(worker'[s].searched), NEW k \in 1 .. Len(worker'[r].searched),
                 worker'[s].searched[j] = worker'[r].searched[k]
          PROVE  s = r /\ j = k
        <3>1. /\ s \in DOMAIN worker /\ r \in DOMAIN worker
              /\ s # t => worker'[s] = worker[s]
              /\ r # t => worker'[r] = worker[r]
            BY <1>6
        <3>2. ASSUME NEW q \in DOMAIN worker, NEW i \in 1 .. Len(worker'[q].searched)
              PROVE  \/ q = t /\ i = n + 1 /\ worker'[q].searched[i] = c
                     \/ i \in 1 .. Len(worker[q].searched) /\ worker'[q].searched[i] = worker[q].searched[i]
            <4>1. CASE q # t
                <5>1. worker'[q] = worker[q]
                    BY <4>1, <1>6
                <5>2. QED BY <3>2, <5>1
            <4>2. CASE q = t
                <5>1. i \in 1 .. n + 1 /\ worker'[q].searched[i] = mine[i]
                    BY <3>2, <4>2, <1>8, <1>9
                <5>2. CASE i = n + 1
                    BY <4>2, <5>1, <5>2, <1>8
                <5>3. CASE i \in 1 .. n
                    BY <4>2, <5>1, <5>3, <1>8 DEF n
                <5>4. QED BY <5>1, <5>2, <5>3, <1>8
            <4>3. QED BY <4>1, <4>2
        <3>3. \/ s = t /\ j = n + 1 /\ worker'[s].searched[j] = c
              \/ j \in 1 .. Len(worker[s].searched) /\ worker'[s].searched[j] = worker[s].searched[j]
            BY <3>1, <3>2
        <3>4. \/ r = t /\ k = n + 1 /\ worker'[r].searched[k] = c
              \/ k \in 1 .. Len(worker[r].searched) /\ worker'[r].searched[k] = worker[r].searched[k]
            BY <3>1, <3>2
        <3>5. CASE s = t /\ j = n + 1 /\ worker'[s].searched[j] = c
            BY <2>2, <3>1, <3>4, <3>5, <1>7
        <3>6. CASE r = t /\ k = n + 1 /\ worker'[r].searched[k] = c
            BY <2>2, <3>1, <3>3, <3>6, <1>7
        <3>7. CASE /\ j \in 1 .. Len(worker[s].searched) /\ worker'[s].searched[j] = worker[s].searched[j]
                   /\ k \in 1 .. Len(worker[r].searched) /\ worker'[r].searched[k] = worker[r].searched[k]
            <4>1. worker[s].searched[j] = worker[r].searched[k]
                BY <2>2, <3>7
            <4>2. QED BY <3>1, <3>7, <4>1, <1>2 DEF ClaimsDiffer
        <3>8. QED BY <3>3, <3>4, <3>5, <3>6, <3>7
    <2>3. QED BY <2>1, <2>2 DEF ClaimsDiffer
<1>16. ClaimsAreKept'
    <2> SUFFICES ASSUME NEW d \in 0 .. Claims - 1, ToBeSearched(d)
                 PROVE  /\ DOMAIN worker' # {}
                        /\ d < job'.next => \E s \in DOMAIN worker' :
                              \/ SearchedBy(s, d)'
                              \/ worker'[s].pc = "work" /\ worker'[s].claim = d
                              \/ worker'[s].pc = "failed"
        BY <1>5 DEF ClaimsAreKept, ToBeSearched
    <2>1. DOMAIN worker' # {}
        BY <1>6
    <2>2. ASSUME d < job.next
          PROVE  \E s \in DOMAIN worker' :
                    \/ SearchedBy(s, d)'
                    \/ worker'[s].pc = "work" /\ worker'[s].claim = d
                    \/ worker'[s].pc = "failed"
        <3>1. PICK s \in DOMAIN worker :
                    \/ SearchedBy(s, d)
                    \/ worker[s].pc = "work" /\ worker[s].claim = d
                    \/ worker[s].pc = "failed"
            BY <2>2, <1>2 DEF ClaimsAreKept
        <3>2. CASE s # t
            <4>1. worker'[s] = worker[s] /\ s \in DOMAIN worker'
                BY <3>2, <1>6
            <4>2. SearchedBy(s, d) => SearchedBy(s, d)'
                BY <4>1 DEF SearchedBy
            <4>3. QED BY <3>1, <4>1, <4>2
        <3>3. CASE s = t /\ d = c
            <4>1. n + 1 \in 1 .. Len(worker'[t].searched) /\ worker'[t].searched[n + 1] = d
                BY <3>3, <1>8, <1>9
            <4>2. SearchedBy(t, d)'
                BY <4>1 DEF SearchedBy
            <4>3. QED BY <4>2, <1>6
        <3>4. CASE s = t /\ d # c
            <4>1. SearchedBy(t, d)
                BY <3>1, <3>4 DEF c
            <4>2. PICK k \in 1 .. n : worker[t].searched[k] = d
                BY <4>1 DEF SearchedBy, n
            <4>3. k \in 1 .. Len(worker'[t].searched) /\ worker'[t].searched[k] = d
                BY <4>2, <1>8, <1>9
            <4>4. SearchedBy(t, d)'
                BY <4>3 DEF SearchedBy
            <4>5. QED BY <4>4, <1>6
        <3>5. QED BY <3>2, <3>3, <3>4
    <2>3. QED BY <2>1, <2>2
<1>17. ClaimsAre'
    BY <1>2, <1>6, <1>11, <1>13, <1>14, <1>15, <1>16 DEF ClaimsAre
<1>18. \A s \in DOMAIN worker' : AllFoundIn(worker'[s].found, job.names)
    BY <1>1, <1>6, <1>9 DEF FlowInv, FindsAre
<1>19. QED BY <1>1, <1>4, <1>17, <1>18, SearchGoesOn DEF FlowInv

\* A step of a worker.
LEMMA WorkerKeeps ==
    ASSUME FlowInv, NEW t \in DOMAIN worker, WorkerStep(t)
    PROVE  FlowInv'
<1>1. job.pc = "search" /\ InPatternRun
    BY WorkersSearch
<1>2. DOMAIN worker[t] = DOMAIN NewWorker /\ WorkerIs(t)
    BY <1>1 DEF FlowInv, ClaimsAre, WorkerIs
<1>3. CASE StartWorker(t)
    BY <1>3, WorkerGoesOn DEF StartWorker, enumerationVars
<1>4. CASE Claim(t)
    BY <1>4, ClaimKeeps
<1>5. CASE WorkerFails(t)
    BY <1>5, WorkerGoesOn DEF WorkerFails, enumerationVars
<1>6. CASE FindPattern(t)
    <2> DEFINE w == worker[t]
               before == w.found
               found(outcomes) ==
                  worker' = [worker EXCEPT ![t].pc = "claim", ![t].searched = Append(@, w.claim),
                      ![t].found = @ \o [k \in DOMAIN outcomes |->
                          Found(recolor_pattern(outcomes[k].pattern, job.color_map), outcomes[k].sources)]]
               one(o) == Found(recolor_pattern(o.pattern, job.color_map), o.sources)
    <2>1. worker[t].pc = "work" /\ job' = job /\ UNCHANGED <<session, store>>
        BY <1>6 DEF FindPattern, enumerationVars
    <2>2. AllFoundIn(before, job.names) /\ before \in Seq(ToSet(before))
        BY <1>1 DEF FlowInv, FindsAre, AllFoundIn
    <2>3. ASSUME NEW o, found(<<o>>), FoundIn(one(o), job.names), ToBeSearched(w.claim) PROVE FlowInv'
        <3>1. [k \in DOMAIN <<o>> |-> one(<<o>>[k])] = <<one(o)>>
            OBVIOUS
        <3>2. worker' = [worker EXCEPT ![t].pc = "claim", ![t].searched = Append(worker[t].searched, worker[t].claim),
                                       ![t].found = before \o <<one(o)>>]
            BY <2>3, <3>1, <1>2 DEF NewWorker
        <3>3. AllFoundIn(before \o <<one(o)>>, job.names)
            BY <2>2, <2>3, OneMoreFound
        <3> HIDE DEF one, before
        <3>4. QED BY <2>1, <2>3, <3>2, <3>3, SearchKeeps
    <2>4. ASSUME found(<<>>), ToBeSearched(w.claim) PROVE FlowInv'
        <3>1. before \o [k \in DOMAIN <<>> |-> one(<<>>[k])] = before
            <4>1. [k \in DOMAIN <<>> |-> one(<<>>[k])] = <<>>
                OBVIOUS
            <4> HIDE DEF one, before
            <4>2. QED BY <2>2, <4>1
        <3>2. worker' = [worker EXCEPT ![t].pc = "claim", ![t].searched = Append(worker[t].searched, worker[t].claim),
                                       ![t].found = before]
            BY <2>4, <3>1, <1>2 DEF NewWorker
        <3> HIDE DEF before
        <3>3. QED BY <2>1, <2>2, <2>4, <3>2, SearchKeeps
    <2>5. \/ Phase = "multi" /\ \E o \in multi_patterns(job.library) : found(<<o>>)
          \/ /\ Phase # "multi" /\ job.to_process[w.claim + 1]
             /\ \/ found(<<>>)
                \/ \E p \in PatternsOf(job.library[w.claim + 1]) : found(<<Found(p, {w.claim + 1})>>)
          \/ /\ Phase # "multi" /\ ~job.to_process[w.claim + 1]
             /\ worker' = [worker EXCEPT ![t].pc = "claim"]
        BY <1>6 DEF FindPattern
    <2> HIDE DEF found
    <2>6. CASE Phase = "multi" /\ \E o \in multi_patterns(job.library) : found(<<o>>)
        <3>1. PICK o \in multi_patterns(job.library) : found(<<o>>)
            BY <2>6
        <3>2. FoundIn(one(o), job.names)
            BY <1>1, MultiFinds
        <3>3. ToBeSearched(w.claim)
            BY <2>6 DEF ToBeSearched
        <3> HIDE DEF one, w
        <3>4. QED BY <2>3, <3>1, <3>2, <3>3
    <2>7. ASSUME Phase # "multi", job.to_process[w.claim + 1],
                 NEW p \in PatternsOf(job.library[w.claim + 1]), found(<<Found(p, {w.claim + 1})>>)
          PROVE  FlowInv'
        <3>1. w.claim + 1 \in DOMAIN job.names
            <4>1. w.claim \in 0 .. Claims - 1
                BY <1>2, <2>1 DEF WorkerIs
            <4>2. Claims = Len(job.names) /\ Len(job.names) \in Nat /\ DOMAIN job.names = 1 .. Len(job.names)
                BY <2>7, <1>1, ClaimsType DEF FlowInv
            <4>3. QED BY <4>1, <4>2
        <3>2. FoundIn(Found(recolor_pattern(p, job.color_map), {w.claim + 1}), job.names)
            BY <3>1, <1>1, SingleFinds
        <3>3. one(Found(p, {w.claim + 1})) = Found(recolor_pattern(p, job.color_map), {w.claim + 1})
            BY DEF Found
        <3>4. ToBeSearched(w.claim)
            BY <2>7 DEF ToBeSearched
        <3> HIDE DEF one, w
        <3>5. QED BY <2>3, <2>7, <3>2, <3>3, <3>4
    <2>8. CASE Phase # "multi" /\ job.to_process[w.claim + 1] /\ found(<<>>)
        BY <2>4, <2>8 DEF ToBeSearched
    <2>9. CASE /\ Phase # "multi" /\ ~job.to_process[w.claim + 1]
               /\ worker' = [worker EXCEPT ![t].pc = "claim"]
        BY <2>1, <2>9, WorkerGoesOn DEF ToBeSearched
    <2>10. QED BY <2>5, <2>6, <2>7, <2>8, <2>9
<1>7. QED BY <1>3, <1>4, <1>5, <1>6 DEF WorkerStep

-----------------------------------------------------------------------------
(* The other steps.                                                        *)

\* A function on the places of a sequence.
LEMMA PlacesAreKept ==
    ASSUME NEW n \in Nat, NEW s, NEW D, D = 1 .. n, s = [i \in D |-> s[i]]
    PROVE  DOMAIN s = 1 .. n /\ Len(s) = n /\ s \in Seq(ToSet(s))
<1>1. DOMAIN s = 1 .. n /\ Len(s) = n
    OBVIOUS
<1>2. s \in [1 .. n -> ToSet(s)]
    BY <1>1 DEF ToSet
<1>3. QED BY <1>1, <1>2

\* Commands are taken from the front.
LEMMA SessionGoesOn ==
    ASSUME JobIs, session' = session \/ (session # <<>> /\ session' = Tail(session))
    PROVE  session' \in Seq(AllCommands)
<1>1. session \in Seq(AllCommands)
    BY DEF JobIs
<1> HIDE DEF AllCommands
<1>2. QED BY <1>1

\* Nothing is searched, and the files stay.
LEMMA OutsideKeeps ==
    ASSUME FlowInv, session' = session \/ (session # <<>> /\ session' = Tail(session)),
           job'.pc \in {"idle", "filter"},
           job'.pc = "filter" => DOMAIN job' = {"pc", "command", "backgrounds", "cache"},
           worker' = <<>>, store' = store
    PROVE  FlowInv'
<1>1. JobIs'
    BY SessionGoesOn DEF FlowInv, JobIs, InPatternRun, AllCommands
<1>2. LibraryIs' /\ FindsAre' /\ ClaimsAre'
    BY DEF LibraryIs, FindsAre, ClaimsAre
<1>3. StoreIs'
    BY DEF FlowInv, StoreIs, EmptyStore
<1>4. QED BY <1>1, <1>2, <1>3 DEF FlowInv

\* The searches a command asks for.
LEMMA PhasesType == ASSUME NEW c PROVE phases(c) \in Seq({"multi", "single", "results"})
<1> DEFINE P == {"multi", "single", "results"}
           a == IF c.preprocess_multigraph > 0 THEN <<"multi">> ELSE <<>>
           b == IF c.preprocess_singlegraph # -1 THEN <<"single">> ELSE <<>>
           d == IF c.results_file THEN <<"results">> ELSE <<>>
<1>1. a \in Seq(P) /\ b \in Seq(P) /\ d \in Seq(P)
    OBVIOUS
<1>2. phases(c) = a \o b \o d
    BY DEF phases
<1> HIDE DEF a, b, d, P
<1>3. a \o b \o d \in Seq(P)
    BY <1>1
<1>4. QED BY <1>2, <1>3 DEF P

LEMMA StartKeeps ==
    ASSUME FlowInv, StartPatternRun
    PROVE  FlowInv'
<1> DEFINE c == Head(session)
<1>1. /\ job = NoJob /\ session # <<>> /\ session' = Tail(session) /\ c.run = "pattern_preprocess"
      /\ UNCHANGED <<worker, store>>
    BY DEF StartPatternRun
<1>2. PICK names \in SetToSeqs(DOMAIN Inputs[c.input]) :
         job' = [pc |-> "phase", command |-> c, phases |-> phases(c), names |-> names,
                 library |-> [i \in DOMAIN names |-> graph_of[names[i]]],
                 color_map |-> <<>>, to_process |-> <<>>, next |-> 0,
                 outputs |-> <<>>, written |-> 0]
    BY DEF StartPatternRun
<1>3. session \in Seq(AllCommands)
    BY DEF FlowInv, JobIs
<1>4. c \in AllCommands
    <2> HIDE DEF AllCommands
    <2>1. QED BY <1>1, <1>3
<1> HIDE DEF c
<1>5. c.input \in DOMAIN Inputs
    BY <1>1, <1>4, CommandIs
<1>6. names \in Seq(InputFiles)
    BY <1>5, ListingIs
<1> DEFINE l == [i \in DOMAIN names |-> graph_of[names[i]]]
           n == Len(names)
<1>7. n \in Nat /\ DOMAIN names = 1 .. n
    BY <1>6
<1>8. l = [i \in DOMAIN names |-> l[i]] /\ \A i \in DOMAIN names : l[i] = graph_of[names[i]]
    OBVIOUS
<1> HIDE DEF l, n
<1>9. DOMAIN l = 1 .. n /\ Len(l) = n /\ l \in Seq(ToSet(l))
    BY <1>7, <1>8, PlacesAreKept
<1>10. /\ DOMAIN job' = JobFields /\ job'.pc = "phase" /\ job'.command = c /\ job'.phases = phases(c)
       /\ job'.names = names /\ job'.library = l /\ job'.written = 0
    BY <1>2 DEF JobFields, l
<1>11. worker' = <<>>
    BY <1>1 DEF FlowInv, JobIs, NoJob
<1>12. session' \in Seq(AllCommands)
    BY <1>1, SessionGoesOn DEF FlowInv
<1>13. JobIs'
    BY <1>1, <1>4, <1>6, <1>7, <1>9, <1>10, <1>11, <1>12, PhasesType DEF JobIs, InPatternRun, JobFields, AllCommands, n
<1>14. LibraryIs'
    BY <1>8, <1>10 DEF LibraryIs
<1>15. FindsAre' /\ ClaimsAre'
    BY <1>10 DEF FindsAre, ClaimsAre
<1>16. StoreIs'
    BY <1>1 DEF FlowInv, StoreIs, EmptyStore
<1>17. QED BY <1>13, <1>14, <1>15, <1>16 DEF FlowInv

\* There is at least one thread for a search that has something to do.
LEMMA ThreadsForWork ==
    ASSUME FlowInv, job.pc = "phase", job.phases # <<>>, NEW to_process \in ToProcess
    PROVE  /\ thread_count(to_process) \in Nat
           /\ \A c \in 0 .. Claims - 1 :
                Phase = "multi" \/ to_process[c + 1] => thread_count(to_process) > 0
<1>1. InPatternRun /\ JobIs
    BY DEF FlowInv, InPatternRun
<1> DEFINE tasks == IF Phase = "multi" THEN job.command.preprocess_multigraph
                    ELSE Cardinality({i \in DOMAIN to_process : to_process[i]})
           n == thread_count(to_process)
<1>2. job.command.threads \in Nat \ {0} /\ job.command.preprocess_multigraph \in Nat
    BY <1>1, CommandIs DEF JobIs
<1>3. /\ Phase \in {"multi", "single", "results"}
      /\ Phase # "multi" => Claims = Len(job.names)
      /\ Len(job.names) \in Nat /\ DOMAIN job.names = 1 .. Len(job.names)
    <2>1. job.phases \in Seq({"multi", "single", "results"}) /\ Len(job.library) = Len(job.names)
          /\ job.names \in Seq(InputFiles)
        BY <1>1 DEF JobIs
    <2>2. Phase \in {"multi", "single", "results"}
        BY <2>1 DEF Phase
    <2>3. QED BY <2>1, <2>2 DEF Claims
<1>4. Phase # "multi" => DOMAIN to_process = DOMAIN job.names
    BY <1>3 DEF ToProcess, build_to_process
<1>5. /\ tasks \in Nat
      /\ \A c \in 0 .. Claims - 1 : Phase = "multi" \/ to_process[c + 1] => tasks > 0
    <2>1. CASE Phase = "multi"
        BY <2>1, <1>2 DEF Claims
    <2>2. CASE Phase # "multi"
        <3> DEFINE W == {i \in DOMAIN to_process : to_process[i]}
        <3>1. IsFiniteSet(W)
            <4>1. IsFiniteSet(1 .. Len(job.names))
                BY <1>3, FS_Interval
            <4>2. QED BY <4>1, <2>2, <1>3, <1>4, FS_Subset
        <3>2. Cardinality(W) \in Nat /\ (W # {} => Cardinality(W) # 0)
            BY <3>1, FS_CardinalityType, FS_EmptySet
        <3>3. \A c \in 0 .. Claims - 1 : to_process[c + 1] => c + 1 \in W
            BY <2>2, <1>3, <1>4
        <3> HIDE DEF W
        <3>4. \A c \in 0 .. Claims - 1 : to_process[c + 1] => Cardinality(W) > 0
            BY <3>2, <3>3
        <3>5. tasks = Cardinality(W)
            BY <2>2 DEF W
        <3> HIDE DEF tasks
        <3>6. QED BY <2>2, <3>2, <3>4, <3>5
    <2>3. QED BY <2>1, <2>2
<1>6. n = Min({job.command.threads, tasks})
    BY DEF thread_count
<1> HIDE DEF tasks, n
<1>7. n \in {job.command.threads, tasks}
    <2>1. \E x \in {job.command.threads, tasks} : \A y \in {job.command.threads, tasks} : x =< y
        BY <1>2, <1>5
    <2>2. QED BY <2>1, <1>6 DEF Min
<1>8. n \in Nat /\ \A c \in 0 .. Claims - 1 : Phase = "multi" \/ to_process[c + 1] => n > 0
    BY <1>2, <1>5, <1>7
<1>9. QED BY <1>8 DEF n

\* One sequence after another.
LEMMA JoinedIs ==
    ASSUME NEW T, NEW a \in Seq(T), NEW b \in Seq(T)
    PROVE  /\ Len(a \o b) = Len(a) + Len(b)
           /\ \A k \in 1 .. Len(a) : (a \o b)[k] = a[k]
           /\ \A k \in 1 .. Len(b) : (a \o b)[Len(a) + k] = b[k]
OBVIOUS

\* The colours of two sequences of graphs are known together.
LEMMA BothAreKnown ==
    ASSUME NEW T, NEW a \in Seq(T), NEW b \in Seq(T),
           \A k \in 1 .. Len(a) : IsGraph(a[k]), \A k \in 1 .. Len(b) : IsGraph(b[k])
    PROVE  /\ map_colors(a \o b) \in Seq(ToSet(map_colors(a \o b)))
           /\ \A k \in 1 .. Len(b) : \A v \in Vertices(b[k]) : b[k].color[v] \in ToSet(map_colors(a \o b))
<1> DEFINE graphs == a \o b
<1>1. /\ Len(graphs) = Len(a) + Len(b)
      /\ \A k \in 1 .. Len(a) : graphs[k] = a[k]
      /\ \A k \in 1 .. Len(b) : graphs[Len(a) + k] = b[k]
    BY JoinedIs
<1>2. Len(a) \in Nat /\ Len(b) \in Nat
    OBVIOUS
<1> HIDE DEF graphs
<1>3. ASSUME NEW k \in 1 .. Len(graphs) PROVE IsGraph(graphs[k])
    <2>1. CASE k \in 1 .. Len(a)
        BY <2>1, <1>1
    <2>2. CASE k \notin 1 .. Len(a)
        <3>1. k - Len(a) \in 1 .. Len(b) /\ Len(a) + (k - Len(a)) = k
            BY <2>2, <1>1, <1>2
        <3>2. graphs[k] = b[k - Len(a)]
            BY <3>1, <1>1
        <3>3. QED BY <3>1, <3>2
    <2>3. QED BY <2>1, <2>2
<1>4. Len(graphs) \in Nat
    BY <1>1, <1>2
<1> DEFINE color_map == map_colors(graphs)
<1>5. /\ color_map \in Seq(ToSet(color_map))
      /\ \A k \in 1 .. Len(graphs) : \A v \in Vertices(graphs[k]) : graphs[k].color[v] \in ToSet(color_map)
    BY <1>3, <1>4, MapKnows
<1> HIDE DEF color_map
<1>6. \A k \in 1 .. Len(b) : Len(a) + k \in 1 .. Len(graphs)
    BY <1>1, <1>2
<1>7. \A k \in 1 .. Len(b) : \A v \in Vertices(b[k]) : b[k].color[v] \in ToSet(color_map)
    BY <1>1, <1>5, <1>6
<1>8. QED BY <1>5, <1>7 DEF color_map, graphs

\* A search starts: the colours are consecutive, no claim is made and nothing found.
LEMMA CalculateKeeps ==
    ASSUME FlowInv, Calculate
    PROVE  FlowInv'
<1>1. job.pc = "phase" /\ job.phases # <<>> /\ UNCHANGED <<session, store>>
    BY DEF Calculate, enumerationVars
<1> DEFINE prefix == IF Phase = "multi" THEN <<>> ELSE <<graph_of[job.command.background]>>
           color_map == map_colors(prefix \o job.library)
           l == [i \in DOMAIN job.library |-> recolor_graph(job.library[i], color_map)]
           n == Len(job.names)
<1>2. PICK to_process \in ToProcess :
         /\ job' = [job EXCEPT !.pc = "search", !.next = 0, !.to_process = to_process,
                       !.color_map = color_map, !.library = l]
         /\ worker' = [t \in 1 .. thread_count(to_process) |-> NewWorker]
    BY DEF Calculate
<1> DEFINE m == thread_count(to_process)
<1>3. Phase = "multi" \/ job.command.background \in InputFiles
    BY DEF Calculate
<1>4. InPatternRun /\ JobIs /\ job.written = 0
    BY <1>1 DEF FlowInv, InPatternRun, FindsAre
<1>5. /\ DOMAIN job = JobFields
      /\ job.command \in AllCommands /\ job.command.run = "pattern_preprocess"
      /\ job.phases \in Seq({"multi", "single", "results"})
      /\ job.names \in Seq(InputFiles)
      /\ DOMAIN job.library = DOMAIN job.names /\ Len(job.library) = Len(job.names)
      /\ job.library \in Seq(ToSet(job.library))
      /\ session \in Seq(AllCommands)
    BY <1>4 DEF JobIs
<1>6. n \in Nat /\ DOMAIN job.names = 1 .. n
    BY <1>5
<1>7. \A i \in DOMAIN job.names : job.library[i] = graph_of[job.names[i]] /\ IsGraph(job.library[i])
    BY <1>1, <1>4, NamesAreGraphs DEF FlowInv, LibraryIs
<1>8. color_map \in Seq(ToSet(color_map))
      /\ \A i \in DOMAIN job.names : \A v \in Vertices(job.library[i]) :
             job.library[i].color[v] \in ToSet(color_map)
    <2> DEFINE T == ToSet(job.library) \cup ToSet(prefix)
    <2>1. /\ prefix \in Seq(ToSet(prefix)) /\ Len(prefix) \in Nat /\ DOMAIN prefix = 1 .. Len(prefix)
          /\ \A k \in 1 .. Len(prefix) : IsGraph(prefix[k])
        <3>1. CASE Phase = "multi"
            BY <3>1
        <3>2. CASE Phase # "multi"
            <4> DEFINE b == graph_of[job.command.background]
            <4>1. IsGraph(b)
                BY <3>2, <1>3, FilesHoldGraphs
            <4>2. prefix = <<b>>
                BY <3>2
            <4> HIDE DEF b, prefix
            <4>3. /\ Len(prefix) = 1 /\ DOMAIN prefix = 1 .. 1 /\ prefix[1] = b
                BY <4>2
            <4>4. b \in ToSet(prefix)
                BY <4>3 DEF ToSet
            <4>5. prefix \in Seq(ToSet(prefix))
                BY <4>2, <4>4
            <4>6. QED BY <4>1, <4>3, <4>5
        <3>3. QED BY <3>1, <3>2
    <2> HIDE DEF prefix, n
    <2>2. job.library \in Seq(T) /\ prefix \in Seq(T)
        <3>1. ToSet(job.library) \subseteq T /\ ToSet(prefix) \subseteq T
            OBVIOUS
        <3> HIDE DEF T
        <3>2. QED BY <3>1, <2>1, <1>5
    <2>3. \A i \in 1 .. n : IsGraph(job.library[i])
        BY <1>6, <1>7
    <2> HIDE DEF color_map, T
    <2>4. /\ color_map \in Seq(ToSet(color_map))
          /\ \A i \in 1 .. n : \A v \in Vertices(job.library[i]) : job.library[i].color[v] \in ToSet(color_map)
        BY <2>1, <2>2, <2>3, <1>5, BothAreKnown DEF color_map, n
    <2>5. QED BY <2>4, <1>6
<1> HIDE DEF prefix, color_map
<1>9. l = [i \in 1 .. n |-> l[i]] /\ \A i \in 1 .. n : l[i] = recolor_graph(job.library[i], color_map)
    BY <1>5, <1>6
<1> HIDE DEF l
<1>10. DOMAIN l = 1 .. n /\ Len(l) = n /\ l \in Seq(ToSet(l))
    BY <1>6, <1>9, PlacesAreKept
<1>11. /\ DOMAIN job' = JobFields /\ job'.pc = "search" /\ job'.next = 0
       /\ job'.to_process = to_process /\ job'.color_map = color_map /\ job'.library = l
       /\ job'.command = job.command /\ job'.phases = job.phases
       /\ job'.names = job.names /\ job'.written = job.written
    BY <1>2, <1>5 DEF JobFields
<1>12. /\ m \in Nat
       /\ \A c \in 0 .. Claims - 1 : Phase = "multi" \/ to_process[c + 1] => m > 0
    BY <1>1, ThreadsForWork
<1>13. worker' = [t \in 1 .. m |-> NewWorker]
    BY <1>2
<1> HIDE DEF m, n
<1>14. /\ DOMAIN worker' = 1 .. m /\ Len(worker') = m
       /\ \A t \in DOMAIN worker' : worker'[t] = NewWorker
    BY <1>12, <1>13
<1>15. JobIs'
    <2>1. session' \in Seq(AllCommands)
        BY <1>1, <1>5
    <2>2. QED BY <2>1, <1>1, <1>5, <1>6, <1>10, <1>11 DEF JobIs, InPatternRun, JobFields, AllCommands, n
<1>16. LibraryIs'
    BY <1>6, <1>7, <1>8, <1>9, <1>11 DEF LibraryIs, Knows
<1>17. FindsAre'
    <2>1. \A t \in DOMAIN worker' : AllFoundIn(worker'[t].found, job'.names)
        BY <1>14, NothingFound DEF NewWorker
    <2>2. QED BY <2>1, <1>4, <1>11 DEF FindsAre
<1>18. StoreIs'
    BY <1>1 DEF FlowInv, StoreIs, EmptyStore
<1>19. Phase' = Phase /\ Claims' = Claims
    <2>1. Phase' = Phase
        BY <1>11 DEF Phase
    <2>2. Len(job'.library) = Len(job.library)
        BY <1>5, <1>10, <1>11 DEF n
    <2>3. QED BY <2>1, <2>2, <1>11 DEF Claims
<1>20. ClaimsAre'
    <2>1. ASSUME NEW t \in DOMAIN worker' PROVE WorkerIs(t)'
        <3>1. worker'[t] = [pc |-> "start", claim |-> 0, found |-> <<>>, searched |-> <<>>]
            BY <1>14 DEF NewWorker
        <3>2. /\ DOMAIN worker'[t] = (DOMAIN NewWorker)'
              /\ worker'[t].pc = "start" /\ worker'[t].searched = <<>>
            BY <3>1 DEF NewWorker
        <3>3. worker'[t].searched \in Seq(Nat) /\ Len(worker'[t].searched) = 0
            BY <3>2
        <3>4. QED BY <3>2, <3>3, <1>11 DEF WorkerIs
    <2>2. \A t \in DOMAIN worker' : worker'[t].pc = "start" /\ Len(worker'[t].searched) = 0
        BY <1>14 DEF NewWorker
    <2>3. ClaimsDiffer'
        BY <2>2 DEF ClaimsDiffer
    <2>4. ClaimsAreKept'
        <3> SUFFICES ASSUME NEW c \in 0 .. Claims - 1, ToBeSearched(c)' PROVE DOMAIN worker' # {} /\ ~(c < job'.next)
            BY <1>19 DEF ClaimsAreKept
        <3>1. m > 0
            BY <1>11, <1>12, <1>19 DEF ToBeSearched
        <3>2. 1 \in DOMAIN worker'
            BY <3>1, <1>12, <1>14
        <3>3. Claims \in Nat
            BY <1>1, <1>4, ClaimsType
        <3>4. QED BY <3>2, <3>3, <1>11
    <2>5. QED BY <2>1, <2>3, <2>4, <1>11, <1>12, <1>14 DEF ClaimsAre
<1>21. QED BY <1>15, <1>16, <1>17, <1>18, <1>20 DEF FlowInv

\* The search ends: its results are what the workers found, and the colours are back.
LEMMA MergeKeeps ==
    ASSUME FlowInv, MergeResults
    PROVE  FlowInv'
<1> DEFINE finds == [t \in DOMAIN worker |-> worker[t].found]
           outputs == FlattenSeq(finds)
           l == [i \in DOMAIN job.library |-> restore_graph_colors(job.library[i], job.color_map)]
           n == Len(job.names)
<1>1. /\ job.pc = "search" /\ worker' = <<>> /\ UNCHANGED <<session, store>>
      /\ job' = [job EXCEPT !.pc = "write", !.outputs = outputs, !.library = l]
    BY DEF MergeResults, enumerationVars
<1>2. InPatternRun /\ JobIs /\ job.written = 0 /\ \A t \in DOMAIN worker : AllFoundIn(worker[t].found, job.names)
    BY <1>1 DEF FlowInv, InPatternRun, FindsAre
<1>3. /\ DOMAIN job = JobFields
      /\ job.command \in AllCommands /\ job.command.run = "pattern_preprocess"
      /\ job.phases \in Seq({"multi", "single", "results"}) /\ job.phases # <<>>
      /\ job.names \in Seq(InputFiles)
      /\ DOMAIN job.library = DOMAIN job.names
      /\ session \in Seq(AllCommands)
    BY <1>1, <1>2 DEF JobIs
<1>4. n \in Nat /\ DOMAIN job.names = 1 .. n
    BY <1>3
<1>5. AllFoundIn(outputs, job.names)
    <2>1. Len(worker) \in Nat /\ DOMAIN worker = 1 .. Len(worker)
        BY <1>1 DEF FlowInv, ClaimsAre
    <2>2. DOMAIN finds = DOMAIN worker /\ \A t \in DOMAIN worker : finds[t] = worker[t].found
        OBVIOUS
    <2>3. finds = [t \in 1 .. Len(worker) |-> worker[t].found]
        BY <2>1
    <2> HIDE DEF finds
    <2>4. Len(finds) = Len(worker)
        BY <2>1, <2>2
    <2>5. Len(finds) = 0 => finds = <<>>
        BY <2>1, <2>3, <2>4
    <2>6. \A k \in 1 .. Len(finds) : AllFoundIn(finds[k], job.names)
        BY <1>2, <2>1, <2>2, <2>4
    <2>7. QED BY <2>1, <2>2, <2>4, <2>5, <2>6, AllTheirFinds
<1> HIDE DEF outputs, finds
<1>6. l = [i \in 1 .. n |-> l[i]] /\ \A i \in 1 .. n : l[i] = restore_graph_colors(job.library[i], job.color_map)
    BY <1>3, <1>4
<1> HIDE DEF l
<1>7. DOMAIN l = 1 .. n /\ Len(l) = n /\ l \in Seq(ToSet(l))
    BY <1>4, <1>6, PlacesAreKept
<1>8. ASSUME NEW i \in 1 .. n PROVE l[i] = graph_of[job.names[i]]
    <2>1. /\ Knows(job.color_map, graph_of[job.names[i]])
          /\ job.library[i] = recolor_graph(graph_of[job.names[i]], job.color_map)
        BY <1>1, <1>4 DEF FlowInv, LibraryIs
    <2>2. IsGraph(graph_of[job.names[i]])
        BY <1>2, <1>4, NamesAreGraphs
    <2>3. QED BY <2>1, <2>2, <1>6, RestoredIs
<1>9. /\ DOMAIN job' = JobFields /\ job'.pc = "write" /\ job'.outputs = outputs /\ job'.library = l
      /\ job'.command = job.command /\ job'.phases = job.phases
      /\ job'.names = job.names /\ job'.written = 0
    BY <1>1, <1>2, <1>3 DEF JobFields
<1>10. JobIs'
    <2>1. session' \in Seq(AllCommands)
        BY <1>1, <1>3
    <2>2. QED BY <2>1, <1>1, <1>3, <1>4, <1>7, <1>9 DEF JobIs, InPatternRun, JobFields, AllCommands, n
<1>11. LibraryIs'
    BY <1>4, <1>8, <1>9 DEF LibraryIs
<1>12. FindsAre'
    <2>1. Len(outputs) \in Nat
        BY <1>5 DEF AllFoundIn
    <2>2. \A i \in 0 .. 0 - 1 : FALSE
        OBVIOUS
    <2>3. QED BY <2>1, <2>2, <1>5, <1>9 DEF FindsAre
<1>13. StoreIs' /\ ClaimsAre'
    BY <1>1, <1>9 DEF FlowInv, StoreIs, EmptyStore, ClaimsAre
<1>14. QED BY <1>10, <1>11, <1>12, <1>13 DEF FlowInv

\* What is stored has the fields of a store; no other index is touched by a new one.
LEMMA PutKeeps ==
    ASSUME StoreIs, NEW stored, DOMAIN stored = DOMAIN EmptyStore, TellsTheTruth(stored),
           store' = Put(store, Stamp, stored)
    PROVE  StoreIs'
<1>1. /\ DOMAIN store' = DOMAIN store \cup {Stamp}
      /\ \A s \in DOMAIN store' : store'[s] = IF s = Stamp THEN stored ELSE store[s]
    BY DEF Put
<1>2. ASSUME NEW s \in DOMAIN store' PROVE DOMAIN store'[s] = (DOMAIN EmptyStore)' /\ TellsTheTruth(store'[s])
    <2>1. DOMAIN EmptyStore = (DOMAIN EmptyStore)'
        BY DEF EmptyStore
    <2>2. CASE s = Stamp
        BY <2>1, <2>2, <1>1
    <2>3. CASE s # Stamp
        BY <2>1, <2>3, <1>1 DEF StoreIs
    <2>4. QED BY <2>2, <2>3
<1>3. QED BY <1>2 DEF StoreIs, TellsTheTruth

LEMMA StoredIs == ASSUME StoreIs PROVE DOMAIN Stored = DOMAIN EmptyStore
BY DEF StoreIs, Stored

\* A pattern file is written: an index that was there says no more.
LEMMA WritePatternKeeps ==
    ASSUME FlowInv, WritePattern
    PROVE  FlowInv'
<1> DEFINE i == job.written
           p == job.outputs[i + 1].pattern
           stored == [Stored EXCEPT !.whole = FALSE, !.patterns = Put(Stored.patterns, i, p)]
<1>1. /\ job.pc = "write" /\ i < Len(job.outputs)
      /\ job' = [job EXCEPT !.written = i + 1]
      /\ store' = Put(store, Stamp, stored)
      /\ UNCHANGED <<session, worker>>
    BY DEF WritePattern, enumerationVars
<1>2. InPatternRun /\ JobIs /\ DOMAIN job = JobFields
    BY <1>1 DEF FlowInv, JobIs, InPatternRun
<1>3. /\ DOMAIN job' = JobFields /\ job'.pc = job.pc /\ job'.outputs = job.outputs /\ job'.library = job.library
      /\ job'.command = job.command /\ job'.phases = job.phases
      /\ job'.names = job.names /\ job'.written = i + 1
    BY <1>1, <1>2 DEF JobFields
<1>4. DOMAIN Stored = {"patterns", "index", "library", "whole"}
    BY StoredIs DEF FlowInv, EmptyStore
<1>5. DOMAIN stored = DOMAIN EmptyStore /\ ~stored.whole /\ stored.patterns = Put(Stored.patterns, i, p)
    BY <1>4 DEF EmptyStore
<1> HIDE DEF stored
<1>6. TellsTheTruth(stored)
    BY <1>5 DEF TellsTheTruth
<1>7. StoreIs'
    BY <1>1, <1>5, <1>6, PutKeeps DEF FlowInv
<1>8. JobIs'
    BY <1>1, <1>2, <1>3 DEF JobIs, InPatternRun, JobFields, AllCommands
<1>9. LibraryIs' /\ ClaimsAre'
    BY <1>1, <1>3 DEF FlowInv, LibraryIs, ClaimsAre
<1>10. FindsAre'
    <2>1. /\ AllFoundIn(job.outputs, job.names) /\ i \in 0 .. Len(job.outputs) /\ Len(job.outputs) \in Nat
          /\ \A k \in 0 .. i - 1 :
                /\ Stamp \in DOMAIN store
                /\ k \in DOMAIN store[Stamp].patterns
                /\ store[Stamp].patterns[k] = job.outputs[k + 1].pattern
        BY <1>1 DEF FlowInv, FindsAre, AllFoundIn
    <2>2. Stamp' = Stamp
        BY <1>1, <1>3 DEF Stamp
    <2>3. Stamp \in DOMAIN store' /\ store'[Stamp].patterns = Put(Stored.patterns, i, p)
        BY <1>1, <1>5 DEF Put
    <2>4. ASSUME NEW k \in 0 .. i
          PROVE  k \in DOMAIN store'[Stamp].patterns /\ store'[Stamp].patterns[k] = job.outputs[k + 1].pattern
        <3>1. CASE k = i
            BY <3>1, <2>3 DEF Put
        <3>2. CASE k \in 0 .. i - 1
            <4>1. Stored = store[Stamp] /\ k # i
                BY <3>2, <2>1 DEF Stored
            <4>2. k \in DOMAIN Stored.patterns /\ Stored.patterns[k] = job.outputs[k + 1].pattern
                BY <3>2, <4>1, <2>1
            <4>3. QED BY <4>1, <4>2, <2>3 DEF Put
        <3>3. QED BY <3>1, <3>2, <2>1
    <2>5. i + 1 \in 0 .. Len(job.outputs) /\ 0 .. (i + 1) - 1 = 0 .. i
        BY <1>1, <2>1
    <2> HIDE DEF i, p
    <2>6. job'.written \in 0 .. Len(job'.outputs) /\ AllFoundIn(job'.outputs, job'.names)
        BY <2>1, <2>5, <1>3
    <2>7. \A k \in 0 .. job'.written - 1 :
              /\ Stamp' \in DOMAIN store'
              /\ k \in DOMAIN store'[Stamp'].patterns
              /\ store'[Stamp'].patterns[k] = job'.outputs[k + 1].pattern
        BY <2>2, <2>3, <2>4, <2>5, <1>3
    <2>8. QED BY <2>6, <2>7, <1>1, <1>3 DEF FindsAre
<1>11. QED BY <1>7, <1>8, <1>9, <1>10 DEF FlowInv

\* The index is written over pattern files that are all those of this search.
LEMMA WriteIndexKeeps ==
    ASSUME FlowInv, WriteIndex
    PROVE  FlowInv'
<1> DEFINE stored == [Stored EXCEPT !.whole = TRUE, !.index = index(job.outputs), !.library = job.names]
<1>1. /\ job.pc = "write" /\ job.written = Len(job.outputs)
      /\ job' = [job EXCEPT !.pc = "phase", !.phases = Tail(job.phases), !.outputs = <<>>, !.written = 0]
      /\ store' = Put(store, Stamp, stored)
      /\ UNCHANGED <<session, worker>>
    BY DEF WriteIndex, enumerationVars
<1>2. InPatternRun /\ JobIs /\ DOMAIN job = JobFields
    BY <1>1 DEF FlowInv, JobIs, InPatternRun
<1>3. /\ DOMAIN job' = JobFields /\ job'.pc = "phase" /\ job'.library = job.library
      /\ job'.command = job.command /\ job'.phases = Tail(job.phases)
      /\ job'.names = job.names /\ job'.written = 0
    BY <1>1, <1>2 DEF JobFields
<1>4. DOMAIN Stored = {"patterns", "index", "library", "whole"}
    BY StoredIs DEF FlowInv, EmptyStore
<1>5. /\ DOMAIN stored = DOMAIN EmptyStore /\ stored.patterns = Stored.patterns
      /\ stored.index = index(job.outputs) /\ stored.library = job.names
    BY <1>4 DEF EmptyStore
<1> HIDE DEF stored
<1>6. TellsTheTruth(stored)
    <2>1. /\ AllFoundIn(job.outputs, job.names) /\ Len(job.outputs) \in Nat
          /\ DOMAIN job.outputs = 1 .. Len(job.outputs)
          /\ \A k \in 0 .. Len(job.outputs) - 1 :
                /\ Stamp \in DOMAIN store
                /\ k \in DOMAIN store[Stamp].patterns
                /\ store[Stamp].patterns[k] = job.outputs[k + 1].pattern
        BY <1>1 DEF FlowInv, FindsAre, AllFoundIn
    <2>2. ASSUME NEW i \in DOMAIN index(job.outputs)
          PROVE  /\ i \in DOMAIN stored.patterns
                 /\ \A k \in index(job.outputs)[i] :
                        Embeddings(stored.patterns[i], graph_of[job.names[k]], FALSE) # {}
        <3>1. i \in 0 .. Len(job.outputs) - 1 /\ index(job.outputs)[i] = job.outputs[i + 1].sources
            BY <2>2 DEF index
        <3>2. i + 1 \in DOMAIN job.outputs
            BY <3>1, <2>1
        <3>3. FoundIn(job.outputs[i + 1], job.names)
            BY <3>2, <2>1 DEF AllFoundIn
        <3>4. i \in DOMAIN stored.patterns /\ stored.patterns[i] = job.outputs[i + 1].pattern
            BY <3>1, <2>1, <1>5 DEF Stored
        <3>5. QED BY <3>1, <3>3, <3>4 DEF FoundIn
    <2>3. QED BY <2>2, <1>5 DEF TellsTheTruth
<1>7. StoreIs'
    BY <1>1, <1>5, <1>6, PutKeeps DEF FlowInv
<1>8. JobIs'
    <2>1. Tail(job.phases) \in Seq({"multi", "single", "results"})
        <3>1. job.phases \in Seq({"multi", "single", "results"}) /\ job.phases # <<>>
            BY <1>1, <1>2 DEF JobIs
        <3>2. QED BY <3>1
    <2>2. QED BY <2>1, <1>1, <1>2, <1>3 DEF JobIs, InPatternRun, JobFields, AllCommands
<1>9. LibraryIs' /\ ClaimsAre' /\ FindsAre'
    BY <1>1, <1>3 DEF FlowInv, LibraryIs, ClaimsAre, FindsAre
<1>10. QED BY <1>7, <1>8, <1>9 DEF FlowInv

\* A step of a pattern run or of the filter.
LEMMA PatternKeeps ==
    ASSUME FlowInv, PatternNext
    PROVE  FlowInv'
<1>1. CASE StartPatternRun
    BY <1>1, StartKeeps
<1>2. CASE Calculate
    BY <1>2, CalculateKeeps
<1>3. CASE \E t \in DOMAIN worker : WorkerStep(t)
    BY <1>3, WorkerKeeps
<1>4. CASE MergeResults
    BY <1>4, MergeKeeps
<1>5. CASE Rethrow
    <2>1. session' = session /\ job' = NoJob /\ worker' = <<>> /\ store' = store
        BY <1>5 DEF Rethrow, enumerationVars
    <2>2. job'.pc = "idle"
        BY <2>1 DEF NoJob
    <2>3. QED BY <2>1, <2>2, OutsideKeeps
<1>6. CASE WritePattern
    BY <1>6, WritePatternKeeps
<1>7. CASE WriteIndex
    BY <1>7, WriteIndexKeeps
<1>8. CASE StartPatternFilter
    <2>1. job = NoJob /\ session # <<>> /\ session' = Tail(session) /\ worker' = worker /\ store' = store
        BY <1>8 DEF StartPatternFilter
    <2>2. worker' = <<>>
        BY <2>1 DEF FlowInv, JobIs, NoJob
    <2>3. job'.pc = "filter" /\ DOMAIN job' = {"pc", "command", "backgrounds", "cache"}
        BY <1>8 DEF StartPatternFilter
    <2>4. QED BY <2>1, <2>2, <2>3, OutsideKeeps
<1>9. CASE NoIndex
    <2>1. job = NoJob /\ session # <<>> /\ session' = Tail(session) /\ worker' = worker /\ store' = store /\ job' = job
        BY <1>9 DEF NoIndex
    <2>2. worker' = <<>> /\ job'.pc = "idle"
        BY <2>1 DEF FlowInv, JobIs, NoJob
    <2>3. QED BY <2>1, <2>2, OutsideKeeps
<1>10. CASE FilterBackground
    <2>1. job.pc = "filter" /\ session' = session /\ worker' = worker /\ store' = store
          /\ job' = [job EXCEPT !.backgrounds = Tail(@)]
        BY <1>10 DEF FilterBackground, enumerationVars
    <2>2. worker = <<>> /\ DOMAIN job = {"pc", "command", "backgrounds", "cache"}
        BY <2>1 DEF FlowInv, JobIs
    <2>3. job'.pc = "filter" /\ DOMAIN job' = {"pc", "command", "backgrounds", "cache"}
        BY <2>1, <2>2
    <2>4. QED BY <2>1, <2>2, <2>3, OutsideKeeps
<1>11. CASE FinishPatternRun
    <2>1. job.pc \in {"phase", "filter"} /\ session' = session /\ job' = NoJob /\ worker' = worker /\ store' = store
        BY <1>11 DEF FinishPatternRun, enumerationVars
    <2>2. worker' = <<>> /\ job'.pc = "idle"
        BY <2>1 DEF FlowInv, JobIs, NoJob
    <2>3. QED BY <2>1, <2>2, OutsideKeeps
<1>12. CASE AbortPatternRun
    <2>1. session' = session /\ job' = NoJob /\ worker' = <<>> /\ store' = store
        BY <1>12 DEF AbortPatternRun, enumerationVars
    <2>2. job'.pc = "idle"
        BY <2>1 DEF NoJob
    <2>3. QED BY <2>1, <2>2, OutsideKeeps
<1>13. QED BY <1>1, <1>2, <1>3, <1>4, <1>5, <1>6, <1>7, <1>8, <1>9, <1>10, <1>11, <1>12 DEF PatternNext

-----------------------------------------------------------------------------
(* The pipeline.                                                           *)

\* Runs over enumerations and loads of GraphML libraries take commands, and that is
\* all of a pattern run's state they touch.
LEMMA RunsTakeCommands ==
    ASSUME EnumerationNext
    PROVE  session' = session \/ (session # <<>> /\ session' = Tail(session))
<1>1. CASE StartRun
    BY <1>1 DEF StartRun
<1>2. CASE RunStep
    <2>1. CASE CacheHit
        BY <2>1 DEF CacheHit
    <2>2. CASE Compute
        BY <2>2 DEF Compute
    <2>3. CASE WriteCache
        BY <2>3, Zenon DEF WriteCache
    <2>4. CASE WriteBreaks
        BY <2>4, Zenon DEF WriteBreaks
    <2>5. CASE LoadEnumeration
        BY <2>5 DEF LoadEnumeration
    <2>6. CASE EnumerationDone
        BY <2>6 DEF EnumerationDone
    <2>7. CASE FilterStage
        BY <2>7, Zenon DEF FilterStage
    <2>8. CASE Finish
        BY <2>8 DEF Finish
    <2>9. CASE Abort
        BY <2>9 DEF Abort
    <2>10. QED BY <1>2, <2>1, <2>2, <2>3, <2>4, <2>5, <2>6, <2>7, <2>8, <2>9 DEF RunStep
<1>3. QED BY <1>1, <1>2 DEF EnumerationNext

LEMMA LoadsTakeCommands ==
    ASSUME LibraryNext
    PROVE  session' = session \/ (session # <<>> /\ session' = Tail(session))
<1>1. CASE StartLoad
    BY <1>1 DEF StartLoad
<1>2. CASE LoadRefused
    BY <1>2 DEF LoadRefused
<1>3. CASE ReadGraph
    BY <1>3 DEF ReadGraph
<1>4. CASE ReadFails
    BY <1>4 DEF ReadFails
<1>5. CASE EndLoad
    BY <1>5 DEF EndLoad
<1>6. CASE SaveMap
    BY <1>6 DEF SaveMap
<1>7. CASE SaveBreaks
    BY <1>7 DEF SaveBreaks
<1>8. CASE AbortLoad
    BY <1>8 DEF AbortLoad
<1>9. QED BY <1>1, <1>2, <1>3, <1>4, <1>5, <1>6, <1>7, <1>8 DEF LibraryNext

LEMMA OthersKeep ==
    ASSUME FlowInv, job = NoJob, UNCHANGED patternVars,
           session' = session \/ (session # <<>> /\ session' = Tail(session))
    PROVE  FlowInv'
<1>1. job' = NoJob /\ worker' = worker /\ store' = store
    BY DEF patternVars
<1>2. worker' = <<>> /\ job'.pc = "idle"
    BY <1>1 DEF FlowInv, JobIs, NoJob
<1>3. QED BY <1>1, <1>2, OutsideKeeps

LEMMA FlowInitially == Init => FlowInv
<1> SUFFICES ASSUME Init PROVE FlowInv
    OBVIOUS
<1>1. job = NoJob /\ worker = <<>> /\ store = <<>> /\ session \in Sessions
    BY DEF Init, PatternInit, LibraryInit
<1>2. job.pc = "idle"
    BY <1>1 DEF NoJob
<1>3. session \in Seq(AllCommands)
    <2>1. session \in Seq(Commands(session))
        BY <1>1, SessionsAssumption
    <2>2. Commands(session) \subseteq AllCommands
        BY <1>1 DEF AllCommands
    <2> HIDE DEF AllCommands
    <2>3. QED BY <2>1, <2>2
<1>4. JobIs
    BY <1>1, <1>2, <1>3 DEF JobIs, InPatternRun
<1>5. LibraryIs /\ FindsAre /\ ClaimsAre
    BY <1>2 DEF LibraryIs, FindsAre, ClaimsAre
<1>6. StoreIs
    BY <1>1 DEF StoreIs
<1>7. QED BY <1>4, <1>5, <1>6 DEF FlowInv

LEMMA FlowKept == FlowInv /\ [Next]_vars => FlowInv'
<1> SUFFICES ASSUME FlowInv, [Next]_vars PROVE FlowInv'
    OBVIOUS
<1>1. CASE job = NoJob /\ EnumerationNext /\ UNCHANGED patternVars
    BY <1>1, RunsTakeCommands, OthersKeep
<1>2. CASE PatternNext
    BY <1>2, PatternKeeps
<1>3. CASE job = NoJob /\ LibraryNext /\ UNCHANGED patternVars
    BY <1>3, LoadsTakeCommands, OthersKeep
<1>4. CASE UNCHANGED vars
    <2>1. UNCHANGED <<session, job, worker, store>>
        BY <1>4 DEF vars, enumerationVars, patternVars
    <2>2. JobIs'
        BY <2>1 DEF FlowInv, JobIs, InPatternRun
    <2>3. LibraryIs'
        BY <2>1 DEF FlowInv, LibraryIs
    <2>4. FindsAre' /\ StoreIs'
        BY <2>1 DEF FlowInv, FindsAre, StoreIs, Stamp, EmptyStore
    <2>5. ClaimsAre'
        BY <2>1 DEF FlowInv, ClaimsAre, WorkerIs, ClaimsDiffer, ClaimsAreKept, SearchedBy, ToBeSearched,
                    Claims, Phase, NewWorker
    <2>6. QED BY <2>2, <2>3, <2>4, <2>5 DEF FlowInv
<1>5. QED BY <1>1, <1>2, <1>3, <1>4 DEF Next

\* Whatever runs follow one another, and wherever they stop, the invariant holds.
THEOREM FlowInvariant == Spec => []FlowInv
<1>1. QED BY FlowInitially, FlowKept, PTL DEF Spec

\* When the workers of a search have ended and none has failed, every claim was
\* searched: once, and by one of them, if it was to be searched, and else by none.
LEMMA SearchesAreOnce == FlowInv => SearchedOnce
<1> SUFFICES ASSUME FlowInv, job.pc = "search", AllJoined, NoneFailed, NEW c \in 0 .. Claims - 1
             PROVE  Cardinality({turn \in (DOMAIN worker) \X (1 .. Claims) :
                            /\ turn[2] \in DOMAIN worker[turn[1]].searched
                            /\ worker[turn[1]].searched[turn[2]] = c})
                      = IF Phase = "multi" \/ job.to_process[c + 1] THEN 1 ELSE 0
    BY DEF SearchedOnce
<1> DEFINE turns == {turn \in (DOMAIN worker) \X (1 .. Claims) :
                        /\ turn[2] \in DOMAIN worker[turn[1]].searched
                        /\ worker[turn[1]].searched[turn[2]] = c}
<1>1. Claims \in Nat
    BY ClaimsType DEF FlowInv, InPatternRun
<1>2. /\ job.next \in Nat /\ DOMAIN worker = 1 .. Len(worker) /\ Len(worker) \in Nat
      /\ \A t \in DOMAIN worker : WorkerIs(t)
      /\ ClaimsDiffer
      /\ ClaimsAreKept
    BY DEF FlowInv, ClaimsAre
<1>3. \A t \in DOMAIN worker :
          /\ DOMAIN worker[t].searched = 1 .. Len(worker[t].searched)
          /\ \A k \in 1 .. Len(worker[t].searched) :
                k \in 1 .. Claims /\ (worker[t].searched[k] = c => ToBeSearched(c))
    <2> SUFFICES ASSUME NEW t \in DOMAIN worker
                 PROVE  /\ DOMAIN worker[t].searched = 1 .. Len(worker[t].searched)
                        /\ \A k \in 1 .. Len(worker[t].searched) :
                              k \in 1 .. Claims /\ (worker[t].searched[k] = c => ToBeSearched(c))
        OBVIOUS
    <2>1. /\ worker[t].searched \in Seq(Nat)
          /\ \A k \in 1 .. Len(worker[t].searched) :
               /\ k - 1 <= worker[t].searched[k]
               /\ worker[t].searched[k] < Claims
               /\ ToBeSearched(worker[t].searched[k])
        BY <1>2 DEF WorkerIs
    <2>2. DOMAIN worker[t].searched = 1 .. Len(worker[t].searched) /\ Len(worker[t].searched) \in Nat
          /\ \A k \in 1 .. Len(worker[t].searched) : worker[t].searched[k] \in Nat
        BY <2>1
    <2>3. \A k \in 1 .. Len(worker[t].searched) : k \in 1 .. Claims
        BY <2>1, <2>2, <1>1
    <2>4. QED BY <2>1, <2>2, <2>3
<1>4. CASE ToBeSearched(c)
    <2>1. DOMAIN worker # {}
        BY <1>2, <1>4 DEF ClaimsAreKept
    <2>2. PICK t \in DOMAIN worker : TRUE
        BY <2>1
    <2>3. worker[t].pc = "done"
        BY <2>2 DEF AllJoined, NoneFailed
    <2>4. c < job.next
        BY <2>2, <2>3, <1>1, <1>2 DEF WorkerIs
    <2>5. PICK s \in DOMAIN worker : SearchedBy(s, c)
        BY <2>4, <1>2, <1>4 DEF ClaimsAreKept, AllJoined, NoneFailed
    <2>6. PICK k \in 1 .. Len(worker[s].searched) : worker[s].searched[k] = c
        BY <2>5 DEF SearchedBy
    <2>7. <<s, k>> \in turns
        BY <2>6, <1>3
    <2>8. ASSUME NEW turn \in turns PROVE turn = <<s, k>>
        <3>1. PICK r \in DOMAIN worker, j \in 1 .. Claims : turn = <<r, j>>
            OBVIOUS
        <3>2. j \in 1 .. Len(worker[r].searched) /\ worker[r].searched[j] = c
            BY <3>1, <1>3
        <3>3. r = s /\ j = k
            <4>1. worker[r].searched[j] = worker[s].searched[k]
                BY <3>2, <2>6
            <4>2. QED BY <4>1, <3>1, <3>2, <2>5, <2>6, <1>2 DEF ClaimsDiffer
        <3>4. QED BY <3>1, <3>3
    <2> HIDE DEF turns
    <2>9. turns = {<<s, k>>}
        BY <2>7, <2>8
    <2>10. Cardinality(turns) = 1
        BY <2>9, FS_Singleton
    <2>11. QED BY <2>10, <1>4 DEF turns, ToBeSearched
<1>5. CASE ~ToBeSearched(c)
    <2>1. turns = {}
        <3>1. ASSUME NEW turn \in turns PROVE FALSE
            <4>1. PICK r \in DOMAIN worker, j \in 1 .. Claims : turn = <<r, j>>
                OBVIOUS
            <4>2. j \in 1 .. Len(worker[r].searched) /\ worker[r].searched[j] = c
                BY <4>1, <1>3
            <4>3. QED BY <4>2, <1>3, <1>5
        <3> HIDE DEF turns
        <3>2. QED BY <3>1
    <2> HIDE DEF turns
    <2>2. Cardinality(turns) = 0
        BY <2>1, FS_EmptySet
    <2>3. QED BY <2>2, <1>5 DEF turns, ToBeSearched
<1>6. QED BY <1>4, <1>5

\* Whatever the interleaving of the threads that take claims from one counter, and
\* however many there are, no search is left out and none is made twice.
THEOREM SearchesAreMadeOnce == Spec => []SearchedOnce
<1>1. QED BY FlowInvariant, SearchesAreOnce, PTL

\* A search that ends well leaves the library as it was read, so that the next one of
\* the run starts from the same graphs: ColorRemapper's two passes are inverse.
THEOREM ColorsAreRestored == Spec => []LibraryIsRestored
<1>1. FlowInv => LibraryIsRestored
    BY DEF FlowInv, LibraryIs, LibraryIsRestored
<1>2. QED BY <1>1, FlowInvariant, PTL

\* Whatever runs wrote over one another's files or were stopped while writing, an index
\* that is whole has a pattern file for every row, and the pattern of it occurs, in the
\* colours of the files, in every graph of its row.
THEOREM IndexTellsTheTruth == Spec => []IndexIsTrue
<1>1. FlowInv => IndexIsTrue
    BY DEF FlowInv, StoreIs, TellsTheTruth, IndexIsTrue
<1>2. QED BY <1>1, FlowInvariant, PTL

-----------------------------------------------------------------------------
(* Runs over enumerations: the invariant.                                  *)

Kinds == {"path_cache", "motif_cache"}

StageLists == {<<>>, <<"path_cache">>, <<"motif_cache">>, <<"path_cache", "motif_cache">>}

RunFields == {"pc", "command", "stages", "names", "library", "enumeration", "pending"}

InRun == run.pc \in {"graphs", "write", "filter"}

Counted == CountedFiles(Sessions)

\* The file is named after a graph, and has its counts if it was written to its end.
IsCacheOf(f, kind, g) ==
    /\ f.name = per_graph_cache_name(kind, g)
    /\ files[f].state = "whole" => files[f].counts = preprocess_graph[kind][g]

FilesAre ==
    /\ IsFiniteSet(DOMAIN files)
    /\ \A f \in DOMAIN files : \E kind \in Kinds, g \in Counted : IsCacheOf(f, kind, g)

\* A kind that is computed is computed for the graphs under their own names.
NamesAreTheirs ==
    \A kind \in ToSet(run.stages) : load_dir(Command, kind) = NoDir =>
        run.names = run.library /\ run.library \in Seq(Counted)

\* The enumeration that waits to be written is that of the next graph, which has no file.
WaitingIs ==
    /\ load_dir(Command, Kind) = NoDir /\ write_dir(Command) # NoDir
    /\ NextGraph \in DOMAIN run.library
    /\ CacheFile(NextGraph) \notin DOMAIN files
    /\ run.pending = preprocess_graph[Kind][run.library[NextGraph]]

\* A run that caches has left a file for every graph it went past.
NoneLeftOut ==
    run.stages # <<>> /\ load_dir(Command, Kind) = NoDir /\ write_dir(Command) # NoDir =>
        \A i \in DOMAIN run.enumeration : CacheFile(i) \in DOMAIN files

RunIs ==
    /\ run = IdleRun \/ InRun
    /\ InRun =>
         /\ DOMAIN run = RunFields
         /\ Command \in AllCommands
         /\ Command.run \in {"preprocess", "filter"}
         /\ run.stages \in StageLists
         /\ run.stages = <<"path_cache", "motif_cache">> => stages(Command) = run.stages
         /\ ToSet(run.stages) \subseteq ToSet(stages(Command))
         /\ run.pc # "graphs" => run.stages # <<>>
         /\ run.enumeration \in Seq(ToSet(run.enumeration))
         /\ ~MixesKinds(Command) => NamesAreTheirs
         /\ NoneLeftOut
         /\ run.pc = "write" => WaitingIs

EnumerationInv == FilesAre /\ RunIs

\* In the files fs none of this graph was left incomplete.
IntactIn(fs, stem, kind) == \A f \in DOMAIN fs : f.name = <<kind>> \o stem => fs[f].state = "whole"

\* Unless one was, these are its counts.
AreCountsOf(fs, counts, stem, kind) ==
    IntactIn(fs, stem, kind) => counts = preprocess_graph[kind][FileNamed(stem)]

EnumerationIs ==
    InRun /\ run.stages # <<>> =>
        \A i \in DOMAIN run.enumeration : AreCountsOf(files, run.enumeration[i], run.names[i].stem, Kind)

\* post_process of a command.
PostProcessed(c, kind, counts) ==
    IF kind = "motif_cache" /\ c.non_induced THEN expand(counts, c.is_directed) ELSE counts

\* The verdict on a library graph is the one that the enumerations of both give.
IsVerdict(fs, c, r, l, verdict) ==
    IntactIn(fs, r[1], r[2]) /\ IntactIn(fs, l, r[2]) =>
        verdict = can_be_filtered(PostProcessed(c, r[2], preprocess_graph[r[2]][FileNamed(r[1])]),
                                  preprocess_graph[r[2]][FileNamed(l)])

\* What CachingIsTransparent says of a run.
ResultsAre ==
    InRun => \A r \in DOMAIN results : \A l \in DOMAIN results[r] :
                IsVerdict(files, Command, r, l, results[r][l])

-----------------------------------------------------------------------------
(* Names of cache files.                                                   *)

\* A name is a kind and a stem, which can be told from it.
LEMMA NameParts ==
    ASSUME NEW T, NEW kind \in T, NEW stem \in Seq(T)
    PROVE  LET name == <<kind>> \o stem IN
           /\ name \in Seq(T) /\ Len(name) = Len(stem) + 1
           /\ Head(name) = kind /\ Tail(name) = stem
           /\ SubSeq(name, 2, Len(name)) = stem
           /\ name[1] = kind /\ \A i \in 1 .. Len(stem) : name[i + 1] = stem[i]
<1> DEFINE name == <<kind>> \o stem
<1>2. Len(stem) \in Nat /\ DOMAIN stem = 1 .. Len(stem)
    OBVIOUS
<1>1. /\ name \in Seq(T) /\ Len(name) = Len(stem) + 1
      /\ name[1] = kind /\ \A i \in 1 .. Len(stem) : name[i + 1] = stem[i]
    <2>1. <<kind>> \in Seq(T) /\ Len(<<kind>>) = 1 /\ <<kind>>[1] = kind
        OBVIOUS
    <2>2. /\ name \in Seq(T) /\ Len(name) = Len(stem) + 1
          /\ \A i \in 1 .. Len(stem) + 1 : name[i] = IF i <= 1 THEN <<kind>>[i] ELSE stem[i - 1]
        BY <2>1, <1>2, ConcatProperties
    <2> HIDE DEF name
    <2>3. name[1] = kind
        BY <2>1, <2>2, <1>2
    <2>4. ASSUME NEW i \in 1 .. Len(stem) PROVE name[i + 1] = stem[i]
        <3>1. i + 1 \in 1 .. Len(stem) + 1 /\ ~(i + 1 <= 1) /\ (i + 1) - 1 = i
            BY <1>2
        <3>2. QED BY <3>1, <2>2
    <2>5. QED BY <2>2, <2>3, <2>4
<1> HIDE DEF name
<1>20. name # <<>>
    BY <1>1, <1>2
<1>3. Head(name) = kind
    BY <1>1, <1>20
<1>4. Tail(name) = stem
    <2>1. Tail(name) \in Seq(T) /\ Len(Tail(name)) = Len(stem)
          /\ \A i \in 1 .. Len(stem) : Tail(name)[i] = stem[i]
        BY <1>1, <1>2, <1>20, HeadTailProperties
    <2>2. QED BY <2>1, SeqEqual
<1>5. SubSeq(name, 2, Len(name)) = stem
    <2> DEFINE sub == SubSeq(name, 2, Len(name))
    <2>1. sub \in Seq(T) /\ Len(sub) = Len(stem)
        BY <1>1, <1>2
    <2>2. \A i \in 1 .. Len(stem) : sub[i] = stem[i]
        BY <1>1, <1>2
    <2> HIDE DEF sub
    <2>3. sub = stem
        BY <2>1, <2>2, <1>2
    <2>4. QED BY <2>3 DEF sub
<1>6. QED BY <1>1, <1>3, <1>4, <1>5 DEF name

\* A name that goes on where another ends is of the same kind, and so do their stems.
LEMMA NamePrefixes ==
    ASSUME NEW T, NEW k \in T, NEW j \in T, NEW s \in Seq(T), NEW t \in Seq(T)
    PROVE  /\ IsPrefix(<<k>> \o s, <<j>> \o t) => k = j /\ IsPrefix(s, t)
           /\ IsPrefix(<<k>>, <<j>> \o t) => k = j
           /\ <<k>> \o s = <<j>> \o t => k = j /\ s = t
<1> DEFINE a == <<k>> \o s
           b == <<j>> \o t
<1>1. /\ a \in Seq(T) /\ Len(a) = Len(s) + 1 /\ Tail(a) = s
      /\ a[1] = k /\ \A i \in 1 .. Len(s) : a[i + 1] = s[i]
    BY NameParts
<1>2. /\ b \in Seq(T) /\ Len(b) = Len(t) + 1 /\ Tail(b) = t
      /\ b[1] = j /\ \A i \in 1 .. Len(t) : b[i + 1] = t[i]
    BY NameParts
<1>3. Len(s) \in Nat /\ Len(t) \in Nat
    OBVIOUS
<1> HIDE DEF a, b
<1>4. ASSUME IsPrefix(a, b) PROVE k = j /\ IsPrefix(s, t)
    <2>1. Len(s) <= Len(t) /\ SubSeq(a, 1, Len(a)) = SubSeq(b, 1, Len(a))
        BY <1>1, <1>2, <1>3, <1>4 DEF IsPrefix
    <2>2. \A i \in 1 .. Len(a) : SubSeq(a, 1, Len(a))[i] = a[i] /\ SubSeq(b, 1, Len(a))[i] = b[i]
        BY <2>1, <1>1, <1>2, <1>3
    <2>3. \A i \in 1 .. Len(a) : a[i] = b[i]
        BY <2>1, <2>2
    <2>4. k = j
        <3>1. 1 \in 1 .. Len(a)
            BY <1>1, <1>3
        <3>2. QED BY <3>1, <2>3, <1>1, <1>2
    <2>5. \A i \in 1 .. Len(s) : s[i] = t[i]
        <3> SUFFICES ASSUME NEW i \in 1 .. Len(s) PROVE s[i] = t[i]
            OBVIOUS
        <3>1. i + 1 \in 1 .. Len(a) /\ i \in 1 .. Len(t)
            BY <2>1, <1>1, <1>3
        <3>2. QED BY <3>1, <2>3, <1>1, <1>2
    <2>6. SubSeq(s, 1, Len(s)) = SubSeq(t, 1, Len(s))
        BY <2>1, <2>5, <1>3
    <2>7. QED BY <2>1, <2>4, <2>6 DEF IsPrefix
<1>5. ASSUME IsPrefix(<<k>>, b) PROVE k = j
    <2>1. SubSeq(<<k>>, 1, 1) = SubSeq(b, 1, 1) /\ 1 <= Len(b)
        BY <1>5, <1>2 DEF IsPrefix
    <2>2. SubSeq(<<k>>, 1, 1)[1] = k
        OBVIOUS
    <2>20. SubSeq(b, 1, 1)[1] = b[1]
        BY <2>1, <1>2, <1>3
    <2>3. QED BY <2>1, <2>2, <2>20, <1>2
<1>6. a = b => k = j /\ s = t
    BY <1>1, <1>2
<1>7. QED BY <1>4, <1>5, <1>6 DEF a, b

\* What names of cache files are made of.
Words == Kinds \cup STRING

LEMMA KindsAreWords == Kinds \subseteq Words
BY DEF Words

\* Names of files that were counted.
LEMMA CountedIs ==
    ASSUME NEW g \in Counted
    PROVE  g \in InputFiles /\ g.stem \in Seq(Words) /\ g.stem # <<>>
<1>1. PICK c \in UNION {Commands(s) : s \in Sessions} :
          c.run \in {"preprocess", "filter"} /\ NeedsLibrary(c) /\ g \in DOMAIN Inputs[c.input]
    BY DEF Counted, CountedFiles
<1>2. c.input \in DOMAIN Inputs
    BY <1>1, EnumerationsAssumption
<1>3. g \in InputFiles
    BY <1>1, <1>2 DEF InputFiles
<1>4. g.stem \in Seq(STRING) /\ g.stem # <<>>
    BY <1>3, StemsAssumption
<1>5. STRING \subseteq Words
    BY DEF Words
<1>6. g.stem \in Seq(Words)
    BY <1>4, <1>5, SeqMonotonic
<1>7. QED BY <1>3, <1>4, <1>6

\* The stem of a graph that was counted names it and no other.
LEMMA StemIsOf ==
    ASSUME StemsDiffer(Sessions), NEW g \in Counted
    PROVE  FileNamed(g.stem) = g
<1>1. g \in InputFiles /\ \A f \in InputFiles : g.stem = f.stem => g = f
    BY CountedIs DEF StemsDiffer, Counted
<1>2. QED BY <1>1 DEF FileNamed

\* A complete file has the counts of the graph that its name tells.
LEMMA FileTells ==
    ASSUME FilesAre, StemsDiffer(Sessions), NEW f \in DOMAIN files
    PROVE  /\ Head(f.name) \in Kinds
           /\ f.name = <<Head(f.name)>> \o Tail(f.name)
           /\ files[f].state = "whole" => files[f].counts = preprocess_graph[Head(f.name)][FileNamed(Tail(f.name))]
<1>1. PICK kind \in Kinds, g \in Counted : IsCacheOf(f, kind, g)
    BY DEF FilesAre
<1>2. f.name = <<kind>> \o g.stem
    BY <1>1 DEF IsCacheOf, per_graph_cache_name
<1>3. Head(f.name) = kind /\ Tail(f.name) = g.stem
    BY <1>2, CountedIs, NameParts, KindsAreWords
<1>4. FileNamed(g.stem) = g
    BY StemIsOf
<1>5. QED BY <1>1, <1>2, <1>3, <1>4 DEF IsCacheOf

\* The name of a cache of a kind goes on with the stem of its graph.
LEMMA NamedByStem ==
    ASSUME NEW kind \in Kinds, NEW file, IsPrefix(<<kind>>, file.name),
           NEW k \in Kinds, NEW g \in Counted, file.name = per_graph_cache_name(k, g)
    PROVE  k = kind /\ graph_name(file, <<kind>>) = g.stem
<1>1. file.name = <<k>> \o g.stem /\ g.stem \in Seq(Words) /\ g.stem # <<>>
    BY CountedIs DEF per_graph_cache_name
<1>2. k \in Words /\ kind \in Words
    BY KindsAreWords
<1>3. k = kind
    <2> DEFINE s == g.stem
    <2>1. s \in Seq(Words) /\ IsPrefix(<<kind>>, <<k>> \o s)
        BY <1>1
    <2> HIDE DEF s
    <2>2. QED BY <2>1, <1>2, NamePrefixes
<1>4. Len(<<kind>>) = 1
    OBVIOUS
<1>5. Len(file.name) = Len(g.stem) + 1 /\ SubSeq(file.name, 2, Len(file.name)) = g.stem
    BY <1>1, NameParts, KindsAreWords
<1>6. file.name # <<kind>>
    <2>1. Len(g.stem) \in Nat /\ Len(g.stem) # 0
        BY <1>1
    <2>2. Len(file.name) # 1
        BY <2>1, <1>5
    <2>3. QED BY <2>2, <1>4
<1>7. graph_name(file, <<kind>>) = SubSeq(file.name, Len(<<kind>>) + 1, Len(file.name))
    BY <1>6 DEF graph_name
<1>8. Len(<<kind>>) + 1 = 2
    BY <1>4
<1>9. QED BY <1>3, <1>5, <1>7, <1>8

\* Of complete caches that answer, each has the counts of the graph it goes by.
LEMMA ReadIs ==
    ASSUME FilesAre, StemsDiffer(Sessions), NEW kind \in Kinds, NEW dir, NEW format,
           NEW n \in DOMAIN read(dir, <<kind>>, format)
    PROVE  AreCountsOf(files, read(dir, <<kind>>, format)[n], n, kind)
<1> DEFINE matching == MatchingFiles(dir, <<kind>>, format)
           r == read(dir, <<kind>>, format)
           file == CHOOSE f \in matching : graph_name(f, <<kind>>) = n
<1>1. r = [m \in {graph_name(f, <<kind>>) : f \in matching} |->
              files[CHOOSE f \in matching : graph_name(f, <<kind>>) = m].counts]
    BY DEF read
<1>2. \E f \in matching : graph_name(f, <<kind>>) = n
    BY <1>1
<1>3. r[n] = files[file].counts
    BY <1>1, <1>2
<1>4. file \in matching /\ graph_name(file, <<kind>>) = n
    BY <1>2
<1> HIDE DEF r, file
<1>5. file \in DOMAIN files /\ IsPrefix(<<kind>>, file.name)
    BY <1>4 DEF MatchingFiles
<1>6. PICK k \in Kinds, g \in Counted : IsCacheOf(file, k, g)
    BY <1>5 DEF FilesAre
<1>7. file.name = per_graph_cache_name(k, g)
    BY <1>6 DEF IsCacheOf
<1>8. k = kind /\ n = g.stem
    BY <1>4, <1>5, <1>7, NamedByStem
<1>9. FileNamed(n) = g
    BY <1>8, StemIsOf
<1>10. IntactIn(files, n, kind) => files[file].state = "whole"
    BY <1>5, <1>7, <1>8 DEF IntactIn, per_graph_cache_name
<1>11. QED BY <1>3, <1>6, <1>8, <1>9, <1>10 DEF AreCountsOf, IsCacheOf, r

\* A graph is named by the files that go by its name, if no other name goes on after it.
LEMMA HitIs ==
    ASSUME FilesAre, StemsDiffer(Sessions), StemsAreNoPrefixes(Sessions),
           NEW kind \in Kinds, NEW g \in Counted, NEW dir, NEW format,
           NEW f \in MatchingFiles(dir, per_graph_cache_name(kind, g), format)
    PROVE  AreCountsOf(files, files[f].counts, g.stem, kind)
<1>1. f \in DOMAIN files /\ IsPrefix(<<kind>> \o g.stem, f.name)
    BY DEF MatchingFiles, per_graph_cache_name
<1>2. PICK k \in Kinds, h \in Counted : IsCacheOf(f, k, h)
    BY <1>1 DEF FilesAre
<1>3. f.name = <<k>> \o h.stem
    BY <1>2 DEF IsCacheOf, per_graph_cache_name
<1>4. k = kind /\ IsPrefix(g.stem, h.stem)
    <2>1. k \in Words /\ kind \in Words
        BY KindsAreWords
    <2>2. g.stem \in Seq(Words) /\ h.stem \in Seq(Words)
        BY CountedIs
    <2>3. IsPrefix(<<kind>> \o g.stem, <<k>> \o h.stem)
        BY <1>1, <1>3
    <2>4. QED BY <2>1, <2>2, <2>3, NamePrefixes
<1>5. g = h
    BY <1>4 DEF StemsAreNoPrefixes, Counted
<1>6. IntactIn(files, g.stem, kind) => files[f].state = "whole"
    BY <1>1, <1>3, <1>4, <1>5 DEF IntactIn
<1>7. FileNamed(g.stem) = g
    BY StemIsOf
<1>8. QED BY <1>2, <1>4, <1>5, <1>6, <1>7 DEF AreCountsOf, IsCacheOf

-----------------------------------------------------------------------------
(* Runs over enumerations: the steps.                                      *)

LEMMA PairIs == ASSUME NEW T, NEW x \in T, NEW y \in T PROVE <<x>> \o <<y>> = <<x, y>>
<1>1. <<x>> \in Seq(T) /\ <<y>> \in Seq(T) /\ Len(<<x>>) = 1 /\ Len(<<y>>) = 1 /\ <<x>>[1] = x /\ <<y>>[1] = y
    OBVIOUS
<1>2. /\ <<x>> \o <<y>> \in Seq(T) /\ Len(<<x>> \o <<y>>) = 2
      /\ \A i \in 1 .. 2 : (<<x>> \o <<y>>)[i] = IF i <= 1 THEN <<x>>[i] ELSE <<y>>[i - 1]
    BY <1>1, ConcatProperties
<1>3. (<<x>> \o <<y>>)[1] = x /\ (<<x>> \o <<y>>)[2] = y
    BY <1>1, <1>2
<1>4. <<x, y>> \in Seq(T) /\ Len(<<x, y>>) = 2 /\ <<x, y>>[1] = x /\ <<x, y>>[2] = y
    OBVIOUS
<1>5. \A i \in 1 .. 2 : (<<x>> \o <<y>>)[i] = <<x, y>>[i]
    BY <1>3, <1>4
<1>6. QED BY <1>2, <1>4, <1>5, SeqEqual

\* The kinds of enumeration a run has to do.
LEMMA StagesAre == ASSUME NEW c PROVE stages(c) \in StageLists
<1> DEFINE a == IF c.paths THEN <<"path_cache">> ELSE <<>>
           b == IF c.motifs THEN <<"motif_cache">> ELSE <<>>
<1>1. stages(c) = a \o b
    BY DEF stages
<1>2. (a = <<"path_cache">> \/ a = <<>>) /\ (b = <<"motif_cache">> \/ b = <<>>)
    OBVIOUS
<1> HIDE DEF a, b
<1>3. /\ <<"path_cache">> \o <<"motif_cache">> = <<"path_cache", "motif_cache">>
      /\ <<"path_cache">> \o <<>> = <<"path_cache">> /\ <<>> \o <<"motif_cache">> = <<"motif_cache">>
      /\ <<>> \o <<>> = <<>>
    <2>1. "path_cache" \in Kinds /\ "motif_cache" \in Kinds
        BY DEF Kinds
    <2>2. <<"path_cache">> \in Seq(Kinds) /\ <<"motif_cache">> \in Seq(Kinds) /\ <<>> \in Seq(Kinds)
        BY <2>1
    <2>3. QED BY <2>1, <2>2, PairIs, ConcatEmptySeq
<1>4. a \o b \in StageLists
    BY <1>2, <1>3 DEF StageLists
<1>5. QED BY <1>1, <1>4

LEMMA StageParts ==
    ASSUME NEW s \in StageLists, s # <<>>
    PROVE  /\ Head(s) \in Kinds /\ Head(s) \in ToSet(s)
           /\ Tail(s) \in StageLists /\ Tail(s) # <<"path_cache", "motif_cache">>
           /\ ToSet(Tail(s)) \subseteq ToSet(s)
<1>1. CASE s = <<"path_cache">>
    <2>1. Head(s) = "path_cache" /\ Tail(s) = <<>> /\ ToSet(s) = {"path_cache"} /\ ToSet(Tail(s)) = {}
        BY <1>1 DEF ToSet
    <2>2. QED BY <2>1 DEF StageLists, Kinds
<1>2. CASE s = <<"motif_cache">>
    <2>1. Head(s) = "motif_cache" /\ Tail(s) = <<>> /\ ToSet(s) = {"motif_cache"} /\ ToSet(Tail(s)) = {}
        BY <1>2 DEF ToSet
    <2>2. QED BY <2>1 DEF StageLists, Kinds
<1>3. CASE s = <<"path_cache", "motif_cache">>
    <2>1. Head(s) = "path_cache" /\ Tail(s) = <<"motif_cache">>
        BY <1>3
    <2>2. ToSet(s) = {"path_cache", "motif_cache"} /\ ToSet(Tail(s)) = {"motif_cache"}
        BY <1>3, <2>1 DEF ToSet
    <2>3. QED BY <2>1, <2>2 DEF StageLists, Kinds
<1>4. QED BY <1>1, <1>2, <1>3 DEF StageLists

\* What the front ends warrant of a command.
LEMMA CachingIs ==
    ASSUME NEW c \in AllCommands, c.run \in {"preprocess", "filter"}
    PROVE  /\ NeedsLibrary(c) => c.input \in DOMAIN Inputs /\ DOMAIN Inputs[c.input] \subseteq Counted
           /\ write_dir(c) # NoDir => ~MixesKinds(c)
<1>1. PICK s \in Sessions : c \in Commands(s)
    BY DEF AllCommands
<1>2. ASSUME NeedsLibrary(c) PROVE c.input \in DOMAIN Inputs /\ DOMAIN Inputs[c.input] \subseteq Counted
    BY <1>1, <1>2, EnumerationsAssumption DEF Counted, CountedFiles
<1>3. ASSUME write_dir(c) # NoDir PROVE ~MixesKinds(c)
    <2>1. \A kind \in ToSet(stages(c)) : load_dir(c, kind) = NoDir
        BY <1>1, <1>3, EnumerationsAssumption
    <2>2. ASSUME MixesKinds(c) PROVE FALSE
        <3>1. stages(c) \in StageLists /\ stages(c) # <<>> /\ Head(stages(c)) = "path_cache"
            BY <2>2, StagesAre DEF MixesKinds
        <3>2. "path_cache" \in ToSet(stages(c))
            BY <3>1, StageParts
        <3>3. QED BY <3>2, <2>1, <2>2 DEF MixesKinds
    <2>3. QED BY <2>2
<1>4. QED BY <1>2, <1>3

\* The graphs of a library, in the order of the directory.
LEMMA LibraryListing ==
    ASSUME NEW c \in AllCommands, c.run \in {"preprocess", "filter"}, NeedsLibrary(c), NEW names \in load_library(c)
    PROVE  names \in Seq(Counted)
<1>1. c.input \in DOMAIN Inputs /\ DOMAIN Inputs[c.input] \subseteq Counted
    BY CachingIs
<1>2. names \in SetToSeqs(DOMAIN Inputs[c.input])
    BY DEF load_library
<1>3. Cardinality(DOMAIN Inputs[c.input]) \in Nat
    BY <1>1, InputsAssumption, FS_CardinalityType
<1>4. names \in [1 .. Cardinality(DOMAIN Inputs[c.input]) -> DOMAIN Inputs[c.input]]
    BY <1>2 DEF SetToSeqs
<1>5. names \in [1 .. Cardinality(DOMAIN Inputs[c.input]) -> Counted]
    BY <1>1, <1>4
<1>6. QED BY <1>3, <1>5

LEMMA SameNames ==
    ASSUME run'.command = run.command, run'.stages = run.stages, run'.names = run.names
    PROVE  Command' = Command /\ Kind' = Kind /\ \A i : CacheFile(i)' = CacheFile(i)
BY DEF Command, Kind, CacheFile, File

LEMMA StoppedRunIs == ASSUME run' = IdleRun PROVE RunIs' /\ ~InRun'
BY DEF RunIs, InRun, IdleRun

\* A run that still computes a kind, and caches, does so for its graphs under their names.
LEMMA NamesOfComputed ==
    ASSUME RunIs, InRun, run.stages # <<>>, load_dir(Command, Kind) = NoDir, ~MixesKinds(Command)
    PROVE  /\ Kind \in Kinds
           /\ run.names = run.library /\ run.library \in Seq(Counted)
<1>1. Kind \in Kinds /\ Kind \in ToSet(run.stages)
    BY StageParts DEF RunIs, Kind
<1>2. QED BY <1>1 DEF RunIs, NamesAreTheirs

\* What a graph adds to a run.
LEMMA EnumeratedIs ==
    ASSUME RunIs, InRun, NEW counts, run' = Enumerated(counts)
    PROVE  /\ InRun' /\ DOMAIN run' = RunFields /\ run'.pc = "graphs"
           /\ run'.command = run.command /\ run'.stages = run.stages /\ run'.names = run.names
           /\ run'.library = run.library
           /\ Len(run.enumeration) \in Nat /\ DOMAIN run.enumeration = 1 .. Len(run.enumeration)
           /\ run'.enumeration \in Seq(ToSet(run'.enumeration))
           /\ DOMAIN run'.enumeration = 1 .. NextGraph
           /\ run'.enumeration[NextGraph] = counts
           /\ \A i \in DOMAIN run.enumeration : run'.enumeration[i] = run.enumeration[i]
<1>1. DOMAIN run = RunFields /\ run.enumeration \in Seq(ToSet(run.enumeration))
    BY DEF RunIs
<1>2. run' = [run EXCEPT !.pc = "graphs", !.enumeration = Append(run.enumeration, counts)]
    BY DEF Enumerated
<1>3. /\ DOMAIN run' = RunFields /\ run'.pc = "graphs"
      /\ run'.command = run.command /\ run'.stages = run.stages /\ run'.names = run.names
      /\ run'.library = run.library /\ run'.enumeration = Append(run.enumeration, counts)
    BY <1>1, <1>2 DEF RunFields
<1> DEFINE T == ToSet(run.enumeration) \cup {counts}
           e == run.enumeration
<1>4. e \in Seq(T) /\ counts \in T /\ Len(e) \in Nat /\ DOMAIN e = 1 .. Len(e)
    BY <1>1
<1> HIDE DEF T, e
<1>5. /\ Append(e, counts) \in Seq(T) /\ Len(Append(e, counts)) = Len(e) + 1
      /\ Append(e, counts)[Len(e) + 1] = counts
      /\ \A i \in 1 .. Len(e) : Append(e, counts)[i] = e[i]
    BY <1>4
<1>6. ToSet(Append(e, counts)) = ToSet(e) \cup {counts}
    BY <1>4, AppendedIn
<1>7. ToSet(Append(e, counts)) = T
    BY <1>6 DEF T, e
<1>8. DOMAIN Append(e, counts) = 1 .. Len(e) + 1
    BY <1>5
<1>9. QED BY <1>3, <1>4, <1>5, <1>7, <1>8 DEF InRun, NextGraph, e

\* It leaves a file for the graph, if the run caches.
LEMMA EnumeratedKeeps ==
    ASSUME RunIs, InRun, run.stages # <<>>, NEW counts, run' = Enumerated(counts),
           DOMAIN files \subseteq DOMAIN files',
           write_dir(Command) # NoDir => CacheFile(NextGraph) \in DOMAIN files'
    PROVE  RunIs'
<1>1. /\ InRun' /\ DOMAIN run' = RunFields /\ run'.pc = "graphs"
      /\ run'.command = run.command /\ run'.stages = run.stages /\ run'.names = run.names
      /\ run'.library = run.library
      /\ Len(run.enumeration) \in Nat /\ DOMAIN run.enumeration = 1 .. Len(run.enumeration)
      /\ run'.enumeration \in Seq(ToSet(run'.enumeration))
      /\ DOMAIN run'.enumeration = 1 .. NextGraph
    BY EnumeratedIs
<1>2. Command' = Command /\ Kind' = Kind /\ \A i : CacheFile(i)' = CacheFile(i)
    BY <1>1, SameNames
<1>3. ~MixesKinds(Command') => NamesAreTheirs'
    BY <1>1, <1>2 DEF RunIs, NamesAreTheirs
<1>4. NoneLeftOut'
    <2> SUFFICES ASSUME load_dir(Command, Kind) = NoDir, write_dir(Command) # NoDir, NEW i \in 1 .. NextGraph
                 PROVE  CacheFile(i) \in DOMAIN files'
        BY <1>1, <1>2 DEF NoneLeftOut
    <2>1. CASE i = NextGraph
        BY <2>1
    <2>2. CASE i \in DOMAIN run.enumeration
        BY <2>2 DEF RunIs, NoneLeftOut
    <2>3. i = NextGraph \/ i \in DOMAIN run.enumeration
        BY <1>1 DEF NextGraph
    <2>4. QED BY <2>1, <2>2, <2>3
<1>5. /\ Command' \in AllCommands /\ Command'.run \in {"preprocess", "filter"}
      /\ run'.stages \in StageLists
      /\ run'.stages = <<"path_cache", "motif_cache">> => stages(Command') = run'.stages
      /\ ToSet(run'.stages) \subseteq ToSet(stages(Command'))
    BY <1>1, <1>2 DEF RunIs
<1> HIDE DEF AllCommands, StageLists, RunFields
<1>6. QED BY <1>1, <1>3, <1>4, <1>5 DEF RunIs, AllCommands, StageLists, RunFields

\* A file that was left incomplete says so.
LEMMA BrokenIs == ASSUME NEW counts, NEW format, NEW content \in Broken(counts, format) PROVE content.state # "whole"
<1> DEFINE rows == {[counts |-> Restrict(counts, S), state |-> "broken"] : S \in (SUBSET DOMAIN counts) \ {DOMAIN counts}}
           cut(S, k, n) == [counts |-> [id \in S \cup {k} |-> IF id = k THEN n ELSE counts[id]], state |-> "broken"]
           starts(n) == {n \div tens : tens \in PowersOfTen} \ {0}
           others(k) == SUBSET (DOMAIN counts \ {k})
           cutsOf(k) == UNION {{cut(S, k, n) : S \in others(k)} : n \in starts(counts[k])}
           cuts == UNION {cutsOf(k) : k \in DOMAIN counts}
<1>1. Broken(counts, format) = {[counts |-> <<>>, state |-> "unreadable"]}
                                   \cup IF format = "csv" THEN rows \cup cuts ELSE {}
    BY Zenon DEF Broken
<1>2. ASSUME content \in rows PROVE content.state = "broken"
    BY <1>2
<1>3. ASSUME content \in cuts PROVE content.state = "broken"
    <2>1. PICK d \in DOMAIN counts : content \in cutsOf(d)
        BY <1>3
    <2> DEFINE N == starts(counts[d])
    <2>2. \E n \in N : content \in {cut(S, d, n) : S \in others(d)}
        <3> HIDE DEF N
        <3>1. content \in UNION {{cut(S, d, n) : S \in others(d)} : n \in N}
            BY <2>1 DEF N
        <3>2. QED BY <3>1
    <2> HIDE DEF N
    <2>3. PICK n \in N : content \in {cut(S, d, n) : S \in others(d)}
        BY <2>2
    <2> HIDE DEF others
    <2>4. PICK S \in others(d) : content = cut(S, d, n)
        BY <2>3
    <2>5. QED BY <2>4
<1> HIDE DEF rows, cuts
<1>4. content = [counts |-> <<>>, state |-> "unreadable"] \/ content \in rows \/ content \in cuts
    BY <1>1
<1>5. QED BY <1>2, <1>3, <1>4

LEMMA PutFileKeeps ==
    ASSUME FilesAre, NEW x, NEW content, files' = Put(files, x, content),
           NEW kind \in Kinds, NEW g \in Counted, x.name = per_graph_cache_name(kind, g),
           content.state = "whole" => content.counts = preprocess_graph[kind][g]
    PROVE  FilesAre'
<1>1. /\ DOMAIN files' = DOMAIN files \cup {x}
      /\ files'[x] = content
      /\ \A f \in DOMAIN files \ {x} : files'[f] = files[f]
    BY DEF Put
<1>2. IsFiniteSet(DOMAIN files')
    BY <1>1, FS_AddElement DEF FilesAre
<1>3. ASSUME NEW f \in DOMAIN files' PROVE \E k \in Kinds, h \in Counted : IsCacheOf(f, k, h)'
    <2>1. CASE f = x
        BY <2>1, <1>1 DEF IsCacheOf, per_graph_cache_name
    <2>2. CASE f # x
        <3>1. f \in DOMAIN files /\ files'[f] = files[f]
            BY <2>2, <1>1
        <3>2. PICK k \in Kinds, h \in Counted : IsCacheOf(f, k, h)
            BY <3>1 DEF FilesAre
        <3>3. IsCacheOf(f, k, h)'
            BY <3>1, <3>2 DEF IsCacheOf, per_graph_cache_name
        <3>4. QED BY <3>3
    <2>3. QED BY <2>1, <2>2
<1>4. QED BY <1>2, <1>3 DEF FilesAre

LEMMA FilesStay == ASSUME FilesAre, files' = files PROVE FilesAre'
BY DEF FilesAre, IsCacheOf, per_graph_cache_name

LEMMA StartRunKeeps ==
    ASSUME session \in Seq(AllCommands), FilesAre, StartRun
    PROVE  FilesAre' /\ RunIs'
<1> DEFINE c == Head(session)
<1>1. session # <<>> /\ c.run \in {"preprocess", "filter"} /\ files' = files
    BY DEF StartRun
<1>2. c \in AllCommands
    <2> HIDE DEF AllCommands
    <2>1. QED BY <1>1
<1>3. PICK names \in load_library(c) :
          run' = [pc |-> "graphs", command |-> c, stages |-> stages(c), names |-> names, library |-> names,
                  enumeration |-> <<>>, pending |-> <<>>]
    BY DEF StartRun
<1> HIDE DEF c
<1>4. /\ InRun' /\ DOMAIN run' = RunFields /\ run'.pc = "graphs" /\ Command' = c /\ run'.stages = stages(c)
      /\ run'.names = names /\ run'.library = names /\ run'.enumeration = <<>>
    BY <1>3 DEF InRun, RunFields, Command
<1>5. NamesAreTheirs'
    <2> SUFFICES ASSUME NEW kind \in ToSet(stages(c)), load_dir(c, kind) = NoDir PROVE names \in Seq(Counted)
        BY <1>4 DEF NamesAreTheirs
    <2>1. NeedsLibrary(c)
        BY DEF NeedsLibrary
    <2>2. QED BY <2>1, <1>1, <1>2, LibraryListing
<1>6. NoneLeftOut'
    BY <1>4 DEF NoneLeftOut
<1>7. run'.enumeration \in Seq(ToSet(run'.enumeration))
    BY <1>4
<1>8. stages(c) \in StageLists
    BY StagesAre
<1> HIDE DEF AllCommands, StageLists
<1>9. RunIs'
    BY <1>1, <1>2, <1>4, <1>5, <1>6, <1>7, <1>8 DEF RunIs, AllCommands, StageLists, RunFields
<1>10. QED BY <1>1, <1>9, FilesStay

\* Where a run that computes its graphs is.
LEMMA ComputingIs ==
    ASSUME RunIs, Computing
    PROVE  InRun /\ run.stages # <<>> /\ load_dir(Command, Kind) = NoDir /\ run.pc = "graphs" /\ Kind \in Kinds
<1>1. InRun /\ run.stages # <<>> /\ load_dir(Command, Kind) = NoDir /\ run.pc = "graphs"
    BY DEF Computing, InRun
<1>2. QED BY <1>1, StageParts DEF RunIs, Kind

LEMMA CacheHitKeeps ==
    ASSUME FilesAre, RunIs, CacheHit
    PROVE  FilesAre' /\ RunIs'
<1>1. Computing /\ files' = files /\ CacheFile(NextGraph) \in DOMAIN files
    BY DEF CacheHit
<1>2. PICK f : run' = Enumerated(files[f].counts)
    BY DEF CacheHit
<1>3. InRun /\ run.stages # <<>>
    BY <1>1, ComputingIs
<1>4. RunIs'
    BY <1>1, <1>2, <1>3, EnumeratedKeeps
<1>5. QED BY <1>1, <1>4, FilesStay

\* A graph whose enumeration is to be written has no file yet.
LEMMA WaitKeeps ==
    ASSUME RunIs, Computing, NextGraph \in DOMAIN run.library, write_dir(Command) # NoDir,
           CacheFile(NextGraph) \notin DOMAIN files, files' = files,
           run' = [run EXCEPT !.pc = "write", !.pending = preprocess_graph[Kind][run.library[NextGraph]]]
    PROVE  RunIs' /\ InRun' /\ run'.command = run.command /\ run'.stages = run.stages /\ run'.names = run.names
           /\ run'.enumeration = run.enumeration
<1>1. InRun /\ run.stages # <<>> /\ load_dir(Command, Kind) = NoDir
    BY ComputingIs
<1>2. DOMAIN run = RunFields
    BY <1>1 DEF RunIs
<1>3. /\ InRun' /\ DOMAIN run' = RunFields /\ run'.pc = "write"
      /\ run'.command = run.command /\ run'.stages = run.stages /\ run'.names = run.names
      /\ run'.library = run.library /\ run'.enumeration = run.enumeration
      /\ run'.pending = preprocess_graph[Kind][run.library[NextGraph]]
    BY <1>2 DEF RunFields, InRun
<1>4. Command' = Command /\ Kind' = Kind /\ (\A i : CacheFile(i)' = CacheFile(i)) /\ NextGraph' = NextGraph
    BY <1>3, SameNames DEF NextGraph
<1>5. WaitingIs'
    <2>1. CacheFile(NextGraph)' = CacheFile(NextGraph)
        BY <1>3 DEF CacheFile, File, Command, Kind, NextGraph
    <2>2. preprocess_graph' = preprocess_graph
        BY DEF preprocess_graph
    <2>3. QED BY <1>1, <1>3, <1>4, <2>1 DEF WaitingIs
<1>6. (~MixesKinds(Command) => NamesAreTheirs)' /\ NoneLeftOut'
    BY <1>1, <1>3, <1>4 DEF RunIs, NamesAreTheirs, NoneLeftOut
<1>7. /\ Command' \in AllCommands /\ Command'.run \in {"preprocess", "filter"}
      /\ run'.stages \in StageLists
      /\ run'.stages = <<"path_cache", "motif_cache">> => stages(Command') = run'.stages
      /\ ToSet(run'.stages) \subseteq ToSet(stages(Command'))
      /\ run'.stages # <<>>
      /\ run'.enumeration \in Seq(ToSet(run'.enumeration))
    BY <1>1, <1>3, <1>4 DEF RunIs
<1> HIDE DEF AllCommands, StageLists, RunFields
<1>8. RunIs'
    BY <1>3, <1>5, <1>6, <1>7 DEF RunIs, AllCommands, StageLists, RunFields
<1>9. QED BY <1>3, <1>8

LEMMA ComputeKeeps ==
    ASSUME FilesAre, RunIs, Compute
    PROVE  FilesAre' /\ RunIs'
<1> DEFINE counts == preprocess_graph[Kind][run.library[NextGraph]]
<1>1. /\ Computing /\ files' = files /\ NextGraph \in DOMAIN run.library
      /\ write_dir(Command) = NoDir \/ CacheFile(NextGraph) \notin DOMAIN files
      /\ run' = IF write_dir(Command) = NoDir THEN Enumerated(counts)
                ELSE [run EXCEPT !.pc = "write", !.pending = counts]
    BY DEF Compute
<1>2. InRun /\ run.stages # <<>>
    BY <1>1, ComputingIs
<1>3. CASE write_dir(Command) = NoDir
    BY <1>1, <1>2, <1>3, EnumeratedKeeps, FilesStay
<1>4. CASE write_dir(Command) # NoDir
    BY <1>1, <1>4, WaitKeeps, FilesStay
<1>5. QED BY <1>3, <1>4

\* What waits to be written goes into a file of its graph.
LEMMA WaitingFor ==
    ASSUME RunIs, run.pc = "write"
    PROVE  /\ InRun /\ run.stages # <<>> /\ WaitingIs /\ Kind \in Kinds
           /\ run.names = run.library
           /\ run.library[NextGraph] \in Counted
           /\ CacheFile(NextGraph).name = per_graph_cache_name(Kind, run.library[NextGraph])
<1>1. InRun /\ run.stages # <<>> /\ WaitingIs
    BY DEF RunIs, InRun
<1>2. load_dir(Command, Kind) = NoDir /\ write_dir(Command) # NoDir /\ NextGraph \in DOMAIN run.library
    BY <1>1 DEF WaitingIs
<1>3. ~MixesKinds(Command)
    BY <1>1, <1>2, CachingIs DEF RunIs
<1>4. Kind \in Kinds /\ run.names = run.library /\ run.library \in Seq(Counted)
    BY <1>1, <1>2, <1>3, NamesOfComputed
<1>5. run.library[NextGraph] \in Counted
    BY <1>2, <1>4
<1>6. CacheFile(NextGraph).name = per_graph_cache_name(Kind, run.library[NextGraph])
    BY <1>4 DEF CacheFile, File
<1>7. QED BY <1>1, <1>4, <1>5, <1>6

LEMMA WriteKeeps ==
    ASSUME FilesAre, RunIs, run.pc = "write", NEW content, files' = Put(files, CacheFile(NextGraph), content),
           content.state = "whole" => content.counts = run.pending,
           run' = IdleRun \/ run' = Enumerated(run.pending)
    PROVE  FilesAre' /\ RunIs'
<1>1. /\ InRun /\ run.stages # <<>> /\ WaitingIs /\ Kind \in Kinds
      /\ run.library[NextGraph] \in Counted
      /\ CacheFile(NextGraph).name = per_graph_cache_name(Kind, run.library[NextGraph])
    BY WaitingFor
<1>2. content.state = "whole" => content.counts = preprocess_graph[Kind][run.library[NextGraph]]
    BY <1>1 DEF WaitingIs
<1>3. FilesAre'
    BY <1>1, <1>2, PutFileKeeps
<1>4. DOMAIN files' = DOMAIN files \cup {CacheFile(NextGraph)}
    BY DEF Put
<1>5. CASE run' = IdleRun
    BY <1>3, <1>5, StoppedRunIs
<1>6. CASE run' = Enumerated(run.pending)
    BY <1>1, <1>3, <1>4, <1>6, EnumeratedKeeps
<1>7. QED BY <1>5, <1>6

\* There are finitely many caches to load.
LEMMA ReadsFinitelyMany ==
    ASSUME FilesAre, NEW dir, NEW name, NEW format
    PROVE  IsFiniteSet(DOMAIN read(dir, name, format))
<1> DEFINE matching == MatchingFiles(dir, name, format)
           names == [f \in matching |-> graph_name(f, name)]
<1>1. IsFiniteSet(matching)
    BY FS_Subset DEF FilesAre, MatchingFiles
<1>2. DOMAIN read(dir, name, format) = {names[f] : f \in matching}
    BY DEF read
<1> HIDE DEF names, matching
<1>3. QED BY <1>1, <1>2, FiniteImage

\* Where the caches are loaded from, and in which order.
LEMMA LoadingIs ==
    ASSUME FilesAre, RunIs, LoadEnumeration
    PROVE  LET dir    == load_dir(Command, Kind)
               loaded == read(dir, <<Kind>>, Command.format) IN
           /\ InRun /\ run.stages # <<>> /\ dir # NoDir /\ Kind \in Kinds
           /\ InRun' /\ DOMAIN run' = RunFields /\ run'.pc = "filter"
           /\ run'.command = run.command /\ run'.stages = run.stages /\ run'.library = run.library
           /\ run'.enumeration \in Seq(ToSet(run'.enumeration))
           /\ \A i \in DOMAIN run'.enumeration :
                /\ run'.names[i].stem \in DOMAIN loaded
                /\ run'.enumeration[i] = loaded[run'.names[i].stem]
<1> DEFINE dir    == load_dir(Command, Kind)
           loaded == read(dir, <<Kind>>, Command.format)
           n      == Cardinality(DOMAIN loaded)
<1>1. InRun /\ run.stages # <<>> /\ dir # NoDir
    BY DEF LoadEnumeration, InRun
<1>2. PICK order \in SetToSeqs(DOMAIN loaded) :
         run' = [run EXCEPT !.pc = "filter",
                    !.names = [i \in DOMAIN order |-> [stem |-> order[i], ext |-> ""]],
                    !.enumeration = [i \in DOMAIN order |-> loaded[order[i]]]]
    BY DEF LoadEnumeration
<1>3. Kind \in Kinds /\ DOMAIN run = RunFields
    BY <1>1, StageParts DEF RunIs, Kind
<1>4. n \in Nat
    BY ReadsFinitelyMany, FS_CardinalityType
<1>5. order \in [1 .. n -> DOMAIN loaded]
    BY DEF SetToSeqs
<1> HIDE DEF loaded, dir, n
<1> DEFINE names == [i \in DOMAIN order |-> [stem |-> order[i], ext |-> ""]]
           e     == [i \in DOMAIN order |-> loaded[order[i]]]
<1>6. /\ \A i \in 1 .. n : names[i].stem = order[i] /\ e[i] = loaded[order[i]]
      /\ e = [i \in 1 .. n |-> e[i]]
    BY <1>5
<1> HIDE DEF names, e
<1>7. /\ InRun' /\ DOMAIN run' = RunFields /\ run'.pc = "filter"
      /\ run'.command = run.command /\ run'.stages = run.stages /\ run'.library = run.library
      /\ run'.names = names /\ run'.enumeration = e
    BY <1>2, <1>3 DEF RunFields, InRun, names, e
<1>8. DOMAIN e = 1 .. n /\ e \in Seq(ToSet(e))
    BY <1>4, <1>6, PlacesAreKept
<1>9. \A i \in DOMAIN e : names[i].stem \in DOMAIN loaded /\ e[i] = loaded[names[i].stem]
    BY <1>5, <1>6, <1>8
<1>10. QED BY <1>1, <1>3, <1>7, <1>8, <1>9 DEF loaded, dir

LEMMA LoadKeeps ==
    ASSUME FilesAre, RunIs, LoadEnumeration
    PROVE  FilesAre' /\ RunIs'
<1>1. /\ InRun /\ run.stages # <<>> /\ load_dir(Command, Kind) # NoDir /\ Kind \in Kinds
      /\ InRun' /\ DOMAIN run' = RunFields /\ run'.pc = "filter"
      /\ run'.command = run.command /\ run'.stages = run.stages
      /\ run'.enumeration \in Seq(ToSet(run'.enumeration))
    BY LoadingIs
<1>2. Command' = Command /\ Kind' = Kind
    BY <1>1 DEF Command, Kind
<1>3. /\ Command \in AllCommands /\ Command.run \in {"preprocess", "filter"}
      /\ run.stages \in StageLists
      /\ run.stages = <<"path_cache", "motif_cache">> => stages(Command) = run.stages
      /\ ToSet(run.stages) \subseteq ToSet(stages(Command))
    BY <1>1 DEF RunIs
<1>4. NoneLeftOut'
    BY <1>1, <1>2 DEF NoneLeftOut
<1>5. ASSUME ~MixesKinds(Command), NEW kind \in ToSet(run.stages) PROVE load_dir(Command, kind) # NoDir
    <2>1. CASE run.stages = <<"path_cache", "motif_cache">>
        <3>1. Kind = "path_cache" /\ kind \in {"path_cache", "motif_cache"}
            BY <2>1 DEF Kind, ToSet
        <3>2. Command.run = "filter"
            BY <1>1, <1>3 DEF load_dir
        <3>3. QED BY <3>1, <3>2, <2>1, <1>1, <1>3, <1>5 DEF MixesKinds
    <2>2. CASE run.stages = <<"path_cache">> \/ run.stages = <<"motif_cache">>
        <3>1. kind = Kind
            BY <2>2 DEF Kind, ToSet
        <3>2. QED BY <3>1, <1>1
    <2>3. QED BY <2>1, <2>2, <1>1, <1>3 DEF StageLists
<1>6. (~MixesKinds(Command) => NamesAreTheirs)'
    BY <1>1, <1>2, <1>5 DEF NamesAreTheirs
<1> HIDE DEF AllCommands, StageLists, RunFields
<1>7. RunIs'
    BY <1>1, <1>2, <1>3, <1>4, <1>6 DEF RunIs, AllCommands, StageLists, RunFields
<1>8. files' = files
    BY DEF LoadEnumeration
<1>9. QED BY <1>7, <1>8, FilesStay

\* A run goes on to the next kind with nothing enumerated.
LEMMA NextStageKeeps ==
    ASSUME RunIs, InRun, run.stages # <<>>,
           \/ run' = [run EXCEPT !.stages = Tail(@), !.enumeration = <<>>] /\ run.pc = "graphs"
           \/ run' = [run EXCEPT !.pc = "graphs", !.stages = Tail(@), !.enumeration = <<>>]
    PROVE  RunIs' /\ InRun' /\ run'.command = run.command /\ run'.enumeration = <<>>
<1>1. DOMAIN run = RunFields
    BY DEF RunIs
<1>2. /\ InRun' /\ DOMAIN run' = RunFields /\ run'.pc = "graphs"
      /\ run'.command = run.command /\ run'.stages = Tail(run.stages) /\ run'.names = run.names
      /\ run'.library = run.library /\ run'.enumeration = <<>>
    BY <1>1 DEF RunFields, InRun
<1>3. Command' = Command
    BY <1>2 DEF Command
<1>4. /\ Command \in AllCommands /\ Command.run \in {"preprocess", "filter"}
      /\ run.stages \in StageLists
      /\ ToSet(run.stages) \subseteq ToSet(stages(Command))
    BY DEF RunIs
<1>5. /\ Tail(run.stages) \in StageLists /\ Tail(run.stages) # <<"path_cache", "motif_cache">>
      /\ ToSet(Tail(run.stages)) \subseteq ToSet(run.stages)
    BY <1>4, StageParts
<1>6. NoneLeftOut' /\ run'.enumeration \in Seq(ToSet(run'.enumeration))
    BY <1>2 DEF NoneLeftOut
<1>7. (~MixesKinds(Command) => NamesAreTheirs)'
    BY <1>2, <1>3, <1>5 DEF RunIs, NamesAreTheirs
<1> HIDE DEF AllCommands, StageLists, RunFields
<1>8. RunIs'
    BY <1>2, <1>3, <1>4, <1>5, <1>6, <1>7 DEF RunIs, AllCommands, StageLists, RunFields
<1>9. QED BY <1>2, <1>8

\* The enumerations of a query are all there, and are compared next.
LEMMA FilterNextKeeps ==
    ASSUME RunIs, InRun, run.stages # <<>>, files' = files, run' = [run EXCEPT !.pc = "filter"]
    PROVE  /\ RunIs' /\ InRun' /\ run'.command = run.command /\ run'.stages = run.stages
           /\ run'.names = run.names /\ run'.enumeration = run.enumeration
<1>1. DOMAIN run = RunFields
    BY DEF RunIs
<1>2. /\ InRun' /\ DOMAIN run' = RunFields /\ run'.pc = "filter"
      /\ run'.command = run.command /\ run'.stages = run.stages /\ run'.names = run.names
      /\ run'.library = run.library /\ run'.enumeration = run.enumeration
    BY <1>1 DEF RunFields, InRun
<1>3. Command' = Command /\ Kind' = Kind /\ \A i : CacheFile(i)' = CacheFile(i)
    BY <1>2, SameNames
<1>4. (~MixesKinds(Command) => NamesAreTheirs)' /\ NoneLeftOut'
    BY <1>2, <1>3 DEF RunIs, NamesAreTheirs, NoneLeftOut
<1>5. /\ Command \in AllCommands /\ Command.run \in {"preprocess", "filter"}
      /\ run.stages \in StageLists
      /\ run.stages = <<"path_cache", "motif_cache">> => stages(Command) = run.stages
      /\ ToSet(run.stages) \subseteq ToSet(stages(Command))
      /\ run.enumeration \in Seq(ToSet(run.enumeration))
    BY DEF RunIs
<1> HIDE DEF AllCommands, StageLists, RunFields
<1>6. RunIs'
    BY <1>2, <1>3, <1>4, <1>5 DEF RunIs, AllCommands, StageLists, RunFields
<1>7. QED BY <1>2, <1>6

LEMMA DoneKeeps ==
    ASSUME FilesAre, RunIs, EnumerationDone
    PROVE  FilesAre' /\ RunIs'
<1>1. InRun /\ run.stages # <<>> /\ run.pc = "graphs" /\ files' = files
    BY DEF EnumerationDone, InRun
<1>2. \/ run' = [run EXCEPT !.stages = Tail(@), !.enumeration = <<>>]
      \/ run' = [run EXCEPT !.pc = "filter"]
    BY DEF EnumerationDone
<1>3. QED BY <1>1, <1>2, NextStageKeeps, FilterNextKeeps, FilesStay

LEMMA FilterStageKeeps ==
    ASSUME FilesAre, RunIs, FilterStage
    PROVE  FilesAre' /\ RunIs'
<1>1. /\ run.pc = "filter" /\ files' = files
      /\ run' = [run EXCEPT !.pc = "graphs", !.stages = Tail(@), !.enumeration = <<>>]
    BY DEF FilterStage
<1>2. InRun /\ run.stages # <<>>
    BY <1>1 DEF InRun, RunIs
<1>3. RunIs'
    BY <1>1, <1>2, NextStageKeeps
<1>4. QED BY <1>1, <1>3, FilesStay

\* Runs over enumerations keep the files, and where they are.
LEMMA EnumerationKept ==
    ASSUME session \in Seq(AllCommands), EnumerationInv, EnumerationNext
    PROVE  EnumerationInv'
<1> USE DEF EnumerationInv
<1>1. CASE StartRun
    BY <1>1, StartRunKeeps
<1>2. CASE CacheHit
    BY <1>2, CacheHitKeeps
<1>3. CASE Compute
    BY <1>3, ComputeKeeps
<1>4. CASE WriteCache
    <2> DEFINE content == [counts |-> run.pending, state |-> "whole"]
    <2>1. run.pc = "write" /\ files' = Put(files, CacheFile(NextGraph), content) /\ run' = Enumerated(run.pending)
        BY <1>4 DEF WriteCache
    <2>2. content.counts = run.pending
        OBVIOUS
    <2> HIDE DEF content
    <2>3. QED BY <2>1, <2>2, WriteKeeps
<1>5. CASE WriteBreaks
    <2>1. run.pc = "write" /\ (run' = IdleRun \/ run' = Enumerated(run.pending))
        BY <1>5 DEF WriteBreaks
    <2>2. PICK content \in Broken(run.pending, Command.format) : files' = Put(files, CacheFile(NextGraph), content)
        BY <1>5 DEF WriteBreaks
    <2>3. content.state # "whole"
        BY BrokenIs
    <2>4. QED BY <2>1, <2>2, <2>3, WriteKeeps
<1>6. CASE LoadEnumeration
    BY <1>6, LoadKeeps
<1>7. CASE EnumerationDone
    BY <1>7, DoneKeeps
<1>8. CASE FilterStage
    BY <1>8, FilterStageKeeps
<1>9. CASE Finish \/ Abort
    <2>1. run' = IdleRun /\ files' = files
        BY <1>9 DEF Finish, Abort
    <2>2. QED BY <2>1, StoppedRunIs, FilesStay
<1>10. QED BY <1>1, <1>2, <1>3, <1>4, <1>5, <1>6, <1>7, <1>8, <1>9 DEF EnumerationNext, RunStep

\* Runs over patterns leave the files of the others alone.
LEMMA PatternsLeaveFiles == ASSUME PatternNext PROVE UNCHANGED <<files, results, run>>
<1> USE DEF enumerationVars
<1>1. CASE StartPatternRun \/ Calculate \/ MergeResults \/ Rethrow
    BY <1>1 DEF StartPatternRun, Calculate, MergeResults, Rethrow
<1>2. CASE \E t \in DOMAIN worker : WorkerStep(t)
    <2>1. PICK t \in DOMAIN worker : WorkerStep(t)
        BY <1>2
    <2>2. QED BY <2>1 DEF WorkerStep, StartWorker, Claim, FindPattern, WorkerFails
<1>3. CASE WritePattern \/ WriteIndex
    BY <1>3 DEF WritePattern, WriteIndex
<1>4. CASE StartPatternFilter \/ NoIndex \/ FilterBackground
    BY <1>4 DEF StartPatternFilter, NoIndex, FilterBackground
<1>5. CASE FinishPatternRun \/ AbortPatternRun
    BY <1>5 DEF FinishPatternRun, AbortPatternRun
<1>6. QED BY <1>1, <1>2, <1>3, <1>4, <1>5 DEF PatternNext

-----------------------------------------------------------------------------
(* Runs over enumerations: what they count and what they answer.           *)

FilesGrow == \A f \in DOMAIN files : f \in DOMAIN files' /\ files'[f] = files[f]

\* Of a graph whose files are intact, none was left incomplete before.
LEMMA IntactBefore ==
    ASSUME FilesGrow, NEW stem, NEW kind, IntactIn(files', stem, kind)
    PROVE  IntactIn(files, stem, kind)
BY DEF FilesGrow, IntactIn

LEMMA CountsStay ==
    ASSUME FilesGrow, NEW counts, NEW stem, NEW kind, AreCountsOf(files, counts, stem, kind)
    PROVE  AreCountsOf(files', counts, stem, kind)
BY IntactBefore DEF AreCountsOf

\* A run that goes on with its command, and does not filter, keeps its verdicts.
LEMMA ResultsStay ==
    ASSUME ResultsAre, InRun, FilesGrow, run'.command = run.command, results' = results
    PROVE  ResultsAre'
<1>1. Command' = Command
    BY DEF Command
<1>2. ASSUME NEW r \in DOMAIN results, NEW l \in DOMAIN results[r]
      PROVE  IsVerdict(files', Command, r, l, results[r][l])
    <2>1. IsVerdict(files, Command, r, l, results[r][l])
        BY DEF ResultsAre
    <2>2. IntactIn(files', r[1], r[2]) /\ IntactIn(files', l, r[2]) => IntactIn(files, r[1], r[2]) /\ IntactIn(files, l, r[2])
        BY IntactBefore
    <2>3. QED BY <2>1, <2>2 DEF IsVerdict
<1>3. QED BY <1>1, <1>2 DEF ResultsAre

\* Names, graphs and runs as SessionsAreOrdinary describes them.
Ordinary == StemsDiffer(Sessions) /\ StemsAreNoPrefixes(Sessions) /\ NothingIsMixed(Sessions)

VerdictInv == EnumerationIs /\ ResultsAre

LEMMA NothingMixes == ASSUME Ordinary, RunIs, InRun PROVE ~MixesKinds(Command)
BY DEF Ordinary, NothingIsMixed, RunIs, AllCommands

\* A run is given one more enumeration, that of its next graph.
LEMMA OneMoreEnumerated ==
    ASSUME RunIs, InRun, run.stages # <<>>, VerdictInv, FilesGrow, results' = results,
           NEW counts, run' = Enumerated(counts), AreCountsOf(files, counts, run.names[NextGraph].stem, Kind)
    PROVE  VerdictInv'
<1>1. /\ InRun' /\ run'.command = run.command /\ run'.stages = run.stages /\ run'.names = run.names
      /\ Len(run.enumeration) \in Nat /\ DOMAIN run.enumeration = 1 .. Len(run.enumeration)
      /\ DOMAIN run'.enumeration = 1 .. NextGraph
      /\ run'.enumeration[NextGraph] = counts
      /\ \A i \in DOMAIN run.enumeration : run'.enumeration[i] = run.enumeration[i]
    BY EnumeratedIs
<1>2. Kind' = Kind
    BY <1>1 DEF Kind
<1>3. ASSUME NEW i \in 1 .. NextGraph PROVE AreCountsOf(files', run'.enumeration[i], run'.names[i].stem, Kind')
    <2>1. CASE i = NextGraph
        <3>1. AreCountsOf(files, counts, run.names[i].stem, Kind)
            BY <2>1
        <3>2. QED BY <3>1, <2>1, <1>1, <1>2, CountsStay
    <2>2. CASE i \in DOMAIN run.enumeration
        <3>1. AreCountsOf(files, run.enumeration[i], run.names[i].stem, Kind)
            BY <2>2 DEF VerdictInv, EnumerationIs
        <3>2. QED BY <3>1, <2>2, <1>1, <1>2, CountsStay
    <2>3. i = NextGraph \/ i \in DOMAIN run.enumeration
        BY <1>1 DEF NextGraph
    <2>4. QED BY <2>1, <2>2, <2>3
<1>4. EnumerationIs'
    BY <1>1, <1>3 DEF EnumerationIs
<1>5. ResultsAre'
    BY <1>1, ResultsStay DEF VerdictInv
<1>6. QED BY <1>4, <1>5 DEF VerdictInv

LEMMA SameEnumeration ==
    ASSUME InRun, run.stages # <<>>, VerdictInv, FilesGrow, results' = results,
           run'.command = run.command, run'.stages = run.stages, run'.names = run.names,
           run'.enumeration = run.enumeration
    PROVE  VerdictInv'
<1>1. Kind' = Kind
    BY DEF Kind
<1>2. \A i \in DOMAIN run.enumeration : AreCountsOf(files', run.enumeration[i], run.names[i].stem, Kind)
    BY CountsStay DEF VerdictInv, EnumerationIs
<1>3. EnumerationIs'
    BY <1>1, <1>2 DEF EnumerationIs
<1>4. QED BY <1>3, ResultsStay DEF VerdictInv

\* A run that starts a kind has enumerated nothing.
LEMMA NothingEnumerated ==
    ASSUME run'.enumeration = <<>>, ResultsAre' PROVE VerdictInv'
<1>1. DOMAIN run'.enumeration = {}
    OBVIOUS
<1>2. EnumerationIs'
    BY <1>1 DEF EnumerationIs
<1>3. QED BY <1>2 DEF VerdictInv

LEMMA NoRunNoVerdict == ASSUME run' = IdleRun PROVE VerdictInv'
<1>1. ~InRun'
    BY StoppedRunIs
<1>2. QED BY <1>1 DEF VerdictInv, EnumerationIs, ResultsAre

LEMMA StartRunTells == ASSUME StartRun PROVE VerdictInv'
<1>1. results' = <<>> /\ run'.enumeration = <<>>
    BY DEF StartRun
<1>2. DOMAIN results' = {}
    BY <1>1
<1>3. ResultsAre'
    BY <1>2 DEF ResultsAre
<1>4. QED BY <1>1, <1>3, NothingEnumerated

\* The enumeration of a graph that was counted is told by its stem.
LEMMA CountedTells ==
    ASSUME Ordinary, NEW g \in Counted, NEW kind
    PROVE  AreCountsOf(files, preprocess_graph[kind][g], g.stem, kind)
BY StemIsOf DEF Ordinary, AreCountsOf

\* The graph a run is at.
LEMMA NextIsCounted ==
    ASSUME Ordinary, RunIs, Computing
    PROVE  run.names[NextGraph] \in Counted /\ run.names[NextGraph] = run.library[NextGraph]
<1>1. InRun /\ run.stages # <<>> /\ load_dir(Command, Kind) = NoDir
    BY ComputingIs
<1>2. run.names = run.library /\ run.library \in Seq(Counted)
    BY <1>1, NothingMixes, NamesOfComputed
<1>3. run.enumeration \in Seq(ToSet(run.enumeration))
    BY <1>1 DEF RunIs
<1>4. Len(run.enumeration) \in Nat /\ NextGraph = Len(run.enumeration) + 1 /\ NextGraph <= Len(run.names)
    BY <1>3 DEF Computing, NextGraph
<1>5. NextGraph \in 1 .. Len(run.names) /\ run.names \in Seq(Counted)
    BY <1>2, <1>4
<1>6. QED BY <1>2, <1>5

LEMMA CacheHitTells ==
    ASSUME Ordinary, EnumerationInv, VerdictInv, CacheHit
    PROVE  VerdictInv'
<1> DEFINE g == run.names[NextGraph]
<1>1. Computing /\ files' = files /\ results' = results
    BY DEF CacheHit
<1>2. PICK f \in MatchingFiles(write_dir(Command), per_graph_cache_name(Kind, g), Command.format) :
          run' = Enumerated(files[f].counts)
    BY DEF CacheHit
<1>3. InRun /\ run.stages # <<>> /\ Kind \in Kinds
    BY <1>1, ComputingIs DEF EnumerationInv
<1>4. g \in Counted
    BY <1>1, NextIsCounted DEF EnumerationInv
<1>5. AreCountsOf(files, files[f].counts, g.stem, Kind)
    BY <1>3, <1>4, HitIs DEF Ordinary, EnumerationInv
<1>6. FilesGrow
    BY <1>1 DEF FilesGrow
<1>7. QED BY <1>1, <1>2, <1>3, <1>5, <1>6, OneMoreEnumerated DEF EnumerationInv

LEMMA ComputeTells ==
    ASSUME Ordinary, EnumerationInv, VerdictInv, Compute
    PROVE  VerdictInv'
<1> DEFINE g      == run.names[NextGraph]
           counts == preprocess_graph[Kind][run.library[NextGraph]]
<1>1. /\ Computing /\ files' = files /\ results' = results /\ NextGraph \in DOMAIN run.library
      /\ write_dir(Command) = NoDir \/ CacheFile(NextGraph) \notin DOMAIN files
      /\ run' = IF write_dir(Command) = NoDir THEN Enumerated(counts)
                ELSE [run EXCEPT !.pc = "write", !.pending = counts]
    BY DEF Compute
<1>2. InRun /\ run.stages # <<>> /\ Kind \in Kinds
    BY <1>1, ComputingIs DEF EnumerationInv
<1>3. g \in Counted /\ g = run.library[NextGraph]
    BY <1>1, NextIsCounted DEF EnumerationInv
<1>4. AreCountsOf(files, counts, g.stem, Kind)
    BY <1>3, CountedTells
<1>5. FilesGrow
    BY <1>1 DEF FilesGrow
<1>6. CASE write_dir(Command) = NoDir
    BY <1>1, <1>2, <1>4, <1>5, <1>6, OneMoreEnumerated DEF EnumerationInv
<1>7. CASE write_dir(Command) # NoDir
    <2>1. run'.command = run.command /\ run'.stages = run.stages /\ run'.names = run.names
          /\ run'.enumeration = run.enumeration
        BY <1>1, <1>7, WaitKeeps DEF EnumerationInv
    <2>2. QED BY <2>1, <1>1, <1>2, <1>5, SameEnumeration
<1>8. QED BY <1>6, <1>7

LEMMA WriteTells ==
    ASSUME Ordinary, EnumerationInv, VerdictInv, run.pc = "write", results' = results,
           NEW content, files' = Put(files, CacheFile(NextGraph), content),
           run' = IdleRun \/ run' = Enumerated(run.pending)
    PROVE  VerdictInv'
<1> DEFINE g == run.names[NextGraph]
<1>1. /\ InRun /\ run.stages # <<>> /\ WaitingIs
      /\ g \in Counted /\ g = run.library[NextGraph]
    BY WaitingFor DEF EnumerationInv
<1>2. CacheFile(NextGraph) \notin DOMAIN files /\ run.pending = preprocess_graph[Kind][g]
    BY <1>1 DEF WaitingIs
<1>3. AreCountsOf(files, run.pending, g.stem, Kind)
    BY <1>1, <1>2, CountedTells
<1>4. FilesGrow
    BY <1>2 DEF FilesGrow, Put
<1>5. CASE run' = IdleRun
    BY <1>5, NoRunNoVerdict
<1>6. CASE run' = Enumerated(run.pending)
    BY <1>1, <1>3, <1>4, <1>6, OneMoreEnumerated DEF EnumerationInv
<1>7. QED BY <1>5, <1>6

LEMMA LoadTells ==
    ASSUME Ordinary, EnumerationInv, VerdictInv, LoadEnumeration
    PROVE  VerdictInv'
<1> DEFINE dir    == load_dir(Command, Kind)
           loaded == read(dir, <<Kind>>, Command.format)
<1>1. /\ InRun /\ Kind \in Kinds
      /\ run'.command = run.command /\ run'.stages = run.stages
      /\ \A i \in DOMAIN run'.enumeration :
           /\ run'.names[i].stem \in DOMAIN loaded
           /\ run'.enumeration[i] = loaded[run'.names[i].stem]
    BY LoadingIs DEF EnumerationInv
<1>2. files' = files /\ results' = results
    BY DEF LoadEnumeration
<1>3. \A n \in DOMAIN loaded : AreCountsOf(files, loaded[n], n, Kind)
    BY <1>1, ReadIs DEF EnumerationInv, Ordinary
<1> HIDE DEF loaded, dir
<1>4. Kind' = Kind
    BY <1>1 DEF Kind
<1>5. EnumerationIs'
    BY <1>1, <1>2, <1>3, <1>4 DEF EnumerationIs
<1>6. FilesGrow
    BY <1>2 DEF FilesGrow
<1>7. QED BY <1>1, <1>2, <1>5, <1>6, ResultsStay DEF VerdictInv

LEMMA DoneTells ==
    ASSUME EnumerationInv, VerdictInv, EnumerationDone
    PROVE  VerdictInv'
<1>1. InRun /\ run.stages # <<>> /\ run.pc = "graphs" /\ files' = files /\ results' = results
    BY DEF EnumerationDone, InRun
<1>2. FilesGrow
    BY <1>1 DEF FilesGrow
<1>3. CASE run' = [run EXCEPT !.stages = Tail(@), !.enumeration = <<>>]
    <2>1. run'.command = run.command /\ run'.enumeration = <<>>
        BY <1>1, <1>3, NextStageKeeps DEF EnumerationInv
    <2>2. ResultsAre'
        BY <2>1, <1>1, <1>2, ResultsStay DEF VerdictInv
    <2>3. QED BY <2>1, <2>2, NothingEnumerated
<1>4. CASE run' = [run EXCEPT !.pc = "filter"]
    BY <1>1, <1>2, <1>4, FilterNextKeeps, SameEnumeration DEF EnumerationInv
<1>5. QED BY <1>3, <1>4 DEF EnumerationDone

\* Of the query graphs of one stem the last one answers, by counts that are its own.
LEMMA LastIs ==
    ASSUME RunIs, InRun, NEW s \in {run.names[i].stem : i \in DOMAIN run.enumeration}
    PROVE  LET last == Max({i \in DOMAIN run.enumeration : run.names[i].stem = s}) IN
           last \in DOMAIN run.enumeration /\ run.names[last].stem = s
<1> DEFINE places == {i \in DOMAIN run.enumeration : run.names[i].stem = s}
<1>1. run.enumeration \in Seq(ToSet(run.enumeration))
    BY DEF RunIs
<1>2. DOMAIN run.enumeration = 1 .. Len(run.enumeration) /\ Len(run.enumeration) \in Nat
    BY <1>1
<1>3. IsFiniteSet(DOMAIN run.enumeration) /\ DOMAIN run.enumeration \subseteq Int
    BY <1>2, FS_Interval
<1>4. IsFiniteSet(places) /\ places \subseteq Int
    BY <1>3, FS_Subset
<1>5. places # {}
    OBVIOUS
<1> HIDE DEF places
<1>6. Max(places) \in places
    BY <1>4, <1>5, LargestOfSet
<1>7. QED BY <1>6 DEF places

LEMMA FilterStageTells ==
    ASSUME Ordinary, EnumerationInv, VerdictInv, FilterStage
    PROVE  VerdictInv'
<1> DEFINE loaded   == read(library_dir(Command, Kind), <<Kind>>, Command.format)
           last(s)  == Max({i \in DOMAIN run.enumeration : run.names[i].stem = s})
           stems    == {run.names[i].stem : i \in DOMAIN run.enumeration}
           features(r) == post_process(Kind, run.enumeration[last(r[1])])
           answer(r) == [l \in DOMAIN loaded |-> can_be_filtered(features(r), loaded[l])]
           flags    == [r \in stems \X {Kind} |-> answer(r)]
<1>1. /\ run.pc = "filter" /\ files' = files
      /\ run' = [run EXCEPT !.pc = "graphs", !.stages = Tail(@), !.enumeration = <<>>]
      /\ results' = [r \in DOMAIN results \cup DOMAIN flags |->
                        IF r \in DOMAIN flags THEN flags[r] ELSE results[r]]
    BY DEF FilterStage
<1>2. InRun /\ run.stages # <<>> /\ Kind \in Kinds
    BY <1>1, StageParts DEF InRun, EnumerationInv, RunIs, Kind
<1>3. run'.command = run.command /\ run'.enumeration = <<>>
    BY <1>1, <1>2, NextStageKeeps DEF EnumerationInv
<1>4. Command' = Command
    BY <1>3 DEF Command
<1>5. ASSUME NEW r \in DOMAIN flags, NEW l \in DOMAIN flags[r]
      PROVE  IsVerdict(files, Command, r, l, flags[r][l])
    <2> DEFINE s == r[1]
    <2>1. r \in stems \X {Kind} /\ s \in stems /\ r[2] = Kind /\ flags[r] = answer(r)
        OBVIOUS
    <2>2. last(s) \in DOMAIN run.enumeration /\ run.names[last(s)].stem = s
        BY <1>2, <2>1, LastIs DEF EnumerationInv
    <2> HIDE DEF last
    <2>3. AreCountsOf(files, run.enumeration[last(s)], s, Kind)
        BY <1>2, <2>2 DEF VerdictInv, EnumerationIs
    <2>4. l \in DOMAIN loaded
        BY <2>1
    <2>5. AreCountsOf(files, loaded[l], l, Kind)
        BY <1>2, <2>4, ReadIs DEF EnumerationInv, Ordinary
    <2> HIDE DEF loaded
    <2>6. flags[r][l] = can_be_filtered(features(r), loaded[l])
        BY <2>1, <2>4
    <2>7. features(r) = PostProcessed(Command, Kind, run.enumeration[last(s)])
        BY DEF post_process, PostProcessed
    <2> HIDE DEF features, flags, s
    <2>8. s = r[1]
        BY DEF s
    <2>9. QED BY <2>1, <2>3, <2>5, <2>6, <2>7, <2>8 DEF IsVerdict, AreCountsOf
<1>6. ASSUME NEW r \in DOMAIN results, NEW l \in DOMAIN results[r]
      PROVE  IsVerdict(files, Command, r, l, results[r][l])
    BY <1>2 DEF VerdictInv, ResultsAre
<1> HIDE DEF flags
<1>7. \A r \in DOMAIN results' : \A l \in DOMAIN results'[r] : IsVerdict(files, Command, r, l, results'[r][l])
    BY <1>1, <1>5, <1>6
<1>8. ResultsAre'
    BY <1>1, <1>4, <1>7 DEF ResultsAre
<1>9. QED BY <1>3, <1>8, NothingEnumerated

\* Runs over enumerations count what they say they count, and answer accordingly.
LEMMA VerdictsKept ==
    ASSUME Ordinary, EnumerationInv, VerdictInv, EnumerationNext
    PROVE  VerdictInv'
<1>1. CASE StartRun
    BY <1>1, StartRunTells
<1>2. CASE CacheHit
    BY <1>2, CacheHitTells
<1>3. CASE Compute
    BY <1>3, ComputeTells
<1>4. CASE WriteCache
    <2> DEFINE content == [counts |-> run.pending, state |-> "whole"]
    <2>1. /\ run.pc = "write" /\ files' = Put(files, CacheFile(NextGraph), content)
          /\ run' = Enumerated(run.pending) /\ results' = results
        BY <1>4 DEF WriteCache
    <2> HIDE DEF content
    <2>2. QED BY <2>1, WriteTells
<1>5. CASE WriteBreaks
    <2>1. run.pc = "write" /\ (run' = IdleRun \/ run' = Enumerated(run.pending)) /\ results' = results
        BY <1>5 DEF WriteBreaks
    <2>2. PICK content : files' = Put(files, CacheFile(NextGraph), content)
        BY <1>5 DEF WriteBreaks
    <2>3. QED BY <2>1, <2>2, WriteTells
<1>6. CASE LoadEnumeration
    BY <1>6, LoadTells
<1>7. CASE EnumerationDone
    BY <1>7, DoneTells
<1>8. CASE FilterStage
    BY <1>8, FilterStageTells
<1>9. CASE Finish \/ Abort
    BY <1>9, NoRunNoVerdict DEF Finish, Abort
<1>10. QED BY <1>1, <1>2, <1>3, <1>4, <1>5, <1>6, <1>7, <1>8, <1>9 DEF EnumerationNext, RunStep

\* The runs of the other families, and steps that change nothing.
LEMMA OthersLeaveRuns ==
    ASSUME [Next]_vars
    PROVE  (job = NoJob /\ EnumerationNext) \/ UNCHANGED <<files, results, run>>
<1>1. CASE PatternNext
    BY <1>1, PatternsLeaveFiles
<1>2. CASE UNCHANGED vars
    BY <1>2 DEF vars, enumerationVars
<1>3. QED BY <1>1, <1>2 DEF Next

LEMMA EnumerationInitially == Init => EnumerationInv /\ VerdictInv
<1> SUFFICES ASSUME Init PROVE EnumerationInv /\ VerdictInv
    OBVIOUS
<1>1. files = <<>> /\ run = IdleRun
    BY DEF Init, EnumerationInit
<1>2. DOMAIN files = {} /\ ~InRun
    BY <1>1 DEF InRun, IdleRun
<1>3. FilesAre
    BY <1>2, FS_EmptySet DEF FilesAre
<1>4. QED BY <1>1, <1>2, <1>3 DEF EnumerationInv, RunIs, VerdictInv, EnumerationIs, ResultsAre

LEMMA EnumerationInvKept == FlowInv /\ EnumerationInv /\ [Next]_vars => EnumerationInv'
<1> SUFFICES ASSUME FlowInv, EnumerationInv, [Next]_vars PROVE EnumerationInv'
    OBVIOUS
<1>1. CASE EnumerationNext
    BY <1>1, EnumerationKept DEF FlowInv, JobIs
<1>2. CASE UNCHANGED <<files, results, run>>
    <2>1. FilesAre'
        BY <1>2, FilesStay DEF EnumerationInv
    <2>2. RunIs'
        BY <1>2 DEF EnumerationInv, RunIs, InRun, NamesAreTheirs, NoneLeftOut, WaitingIs, CacheFile, File,
                    Command, Kind, NextGraph, IdleRun
    <2>3. QED BY <2>1, <2>2 DEF EnumerationInv
<1>3. QED BY <1>1, <1>2, OthersLeaveRuns

LEMMA VerdictInvKept == Ordinary /\ EnumerationInv /\ VerdictInv /\ [Next]_vars => VerdictInv'
<1> SUFFICES ASSUME Ordinary, EnumerationInv, VerdictInv, [Next]_vars PROVE VerdictInv'
    OBVIOUS
<1>1. CASE EnumerationNext
    BY <1>1, VerdictsKept
<1>2. CASE UNCHANGED <<files, results, run>>
    BY <1>2 DEF VerdictInv, EnumerationIs, ResultsAre, InRun, Kind, Command
<1>3. QED BY <1>1, <1>2, OthersLeaveRuns

\* Whatever runs follow one another, and wherever they stop, every cache file is named
\* after a graph that was counted and is incomplete or right, and a run knows which
\* graph it is at.
THEOREM EnumerationInvariant == Spec => []EnumerationInv
<1>1. QED BY FlowInvariant, EnumerationInitially, EnumerationInvKept, PTL DEF Spec

\* Where no two graphs have one stem, a complete cache file holds the counts of the graph
\* it is named after, and a run that caches leaves a file for every graph it goes past.
THEOREM CachesStayRight == ASSUME StemsDiffer(Sessions) PROVE Spec => []CachesAreRight
<1>1. EnumerationInv => CachesAreRight
    <2> SUFFICES ASSUME EnumerationInv PROVE CachesAreRight
        OBVIOUS
    <2>1. \A f \in DOMAIN files :
             files[f].state = "whole" => files[f].counts = preprocess_graph[Head(f.name)][FileNamed(Tail(f.name))]
        BY FileTells DEF EnumerationInv
    <2>2. ASSUME run # IdleRun, run.stages # <<>>, load_dir(Command, Kind) = NoDir, write_dir(Command) # NoDir,
                 NEW i \in DOMAIN run.enumeration
          PROVE  CacheFile(i) \in DOMAIN files
        BY <2>2 DEF EnumerationInv, RunIs, NoneLeftOut
    <2>3. QED BY <2>1, <2>2 DEF CachesAreRight
<1>2. QED BY <1>1, EnumerationInvariant, PTL

\* Caching, loading and recovering from broken runs changes no verdict, for all libraries
\* and sessions in which stems are told apart and no run loads its paths and computes its
\* motifs: without the one, files of other graphs answer (HitsAreOfTheGraph is violated),
\* without the other, verdicts go by other graphs' names.
THEOREM CachingChangesNoVerdict == ASSUME Ordinary PROVE Spec => []CachingIsTransparent
<1>1. EnumerationInv /\ VerdictInv => CachingIsTransparent
    <2> SUFFICES ASSUME EnumerationInv, VerdictInv, run # IdleRun,
                        NEW r \in DOMAIN results, Intact(r[1], r[2]),
                        NEW l \in DOMAIN results[r], Intact(l, r[2])
                 PROVE  results[r][l] = can_be_filtered(post_process(r[2], preprocess_graph[r[2]][FileNamed(r[1])]),
                                                        preprocess_graph[r[2]][FileNamed(l)])
        BY DEF CachingIsTransparent
    <2>1. IsVerdict(files, Command, r, l, results[r][l])
        BY DEF EnumerationInv, RunIs, VerdictInv, ResultsAre
    <2>2. IntactIn(files, r[1], r[2]) /\ IntactIn(files, l, r[2])
        BY DEF Intact, IntactIn
    <2>3. QED BY <2>1, <2>2 DEF IsVerdict, PostProcessed, post_process
<1>2. Ordinary /\ EnumerationInv /\ VerdictInv /\ [Next]_vars => VerdictInv'
    BY VerdictInvKept
<1>3. Spec => []VerdictInv
    BY <1>2, EnumerationInitially, EnumerationInvariant, PTL DEF Spec
<1>4. QED BY <1>1, <1>3, EnumerationInvariant, PTL

-----------------------------------------------------------------------------
(* Loads of GraphML libraries: the colours of labels.                      *)

\* A document that can be read.
IsDocument(doc) == doc.nodes \in Seq(ToSet(doc.nodes)) /\ doc.links \in Seq(ToSet(doc.links))

\* Every vertex has its label among those of the file, of which there are finitely many.
LEMMA LabelsAre ==
    ASSUME NEW doc, IsDocument(doc)
    PROVE  /\ Len(Labels(doc)) \in Nat /\ DOMAIN Labels(doc) = 1 .. Len(Labels(doc))
           /\ \A i \in DOMAIN doc.nodes : i \in DOMAIN Labels(doc) /\ Labels(doc)[i] = label(doc.nodes[i].color)
           /\ IsFiniteSet({Labels(doc)[i] : i \in DOMAIN Labels(doc)})
<1> DEFINE X == {label(doc.nodes[i].color) : i \in DOMAIN doc.nodes}
                    \cup {label(doc.links[edge_at(doc, n)].color) : n \in DOMAIN doc.links}
           a == [i \in DOMAIN doc.nodes |-> label(doc.nodes[i].color)]
           b == [n \in DOMAIN doc.links |-> label(doc.links[edge_at(doc, n)].color)]
           s == Labels(doc)
<1>1. DOMAIN doc.nodes = 1 .. Len(doc.nodes) /\ Len(doc.nodes) \in Nat
    BY DEF IsDocument
<1>2. DOMAIN doc.links = 1 .. Len(doc.links) /\ Len(doc.links) \in Nat
    BY DEF IsDocument
<1>3. a \in Seq(X) /\ Len(a) = Len(doc.nodes)
    BY <1>1
<1>4. b \in Seq(X)
    BY <1>2
<1>5. s = a \o b
    BY DEF Labels
<1>6. \A i \in DOMAIN doc.nodes : a[i] = label(doc.nodes[i].color)
    OBVIOUS
<1> HIDE DEF X, a, b, s
<1>7. s \in Seq(X) /\ \A i \in 1 .. Len(a) : i \in DOMAIN s /\ s[i] = a[i]
    BY <1>3, <1>4, <1>5
<1>8. Len(s) \in Nat /\ DOMAIN s = 1 .. Len(s)
    BY <1>7
<1>9. \A i \in DOMAIN doc.nodes : i \in DOMAIN s /\ s[i] = label(doc.nodes[i].color)
    BY <1>1, <1>3, <1>6, <1>7
<1>10. IsFiniteSet(1 .. Len(s))
    BY <1>8, FS_Interval
<1>11. IsFiniteSet({s[i] : i \in DOMAIN s})
    BY <1>8, <1>10, FiniteImage
<1>12. QED BY <1>8, <1>9, <1>11 DEF s

\* Of two labels of a file one is met before the other; a label that is met before one
\* is met before all that come later.
LEMMA MetInOrder ==
    ASSUME NEW doc, IsDocument(doc), NEW cm
    PROVE  /\ \A k \in NewLabels(doc, cm) : ~MetBefore(doc, k, k)
           /\ \A k, l \in NewLabels(doc, cm) : k # l => MetBefore(doc, k, l) \/ MetBefore(doc, l, k)
           /\ \A j, k, l \in NewLabels(doc, cm) :
                 MetBefore(doc, j, k) /\ MetBefore(doc, k, l) => MetBefore(doc, j, l)
<1> DEFINE s == Labels(doc)
           N == NewLabels(doc, cm)
           Before(k, l) == \E i \in DOMAIN s : s[i] = k /\ \A j \in 1 .. i : s[j] # l
<1>1. Len(s) \in Nat /\ DOMAIN s = 1 .. Len(s)
    BY LabelsAre
<1>2. \A k, l \in N : MetBefore(doc, k, l) <=> Before(k, l)
    BY DEF MetBefore
<1>3. \A k \in N : \E i \in DOMAIN s : s[i] = k
    BY DEF NewLabels
<1> HIDE DEF s, N
<1>4. \A k \in N : \E i \in DOMAIN s : s[i] = k /\ \A j \in 1 .. i - 1 : s[j] # k
    <2> SUFFICES ASSUME NEW k \in N PROVE \E i \in DOMAIN s : s[i] = k /\ \A j \in 1 .. i - 1 : s[j] # k
        OBVIOUS
    <2> DEFINE P == {i \in DOMAIN s : s[i] = k}
    <2>1. P # {} /\ P \subseteq Int /\ IsFiniteSet(P)
        <3>1. IsFiniteSet(1 .. Len(s))
            BY <1>1, FS_Interval
        <3>2. P \in SUBSET (1 .. Len(s))
            BY <1>1
        <3> HIDE DEF P
        <3>3. IsFiniteSet(P)
            BY <3>1, <3>2, FS_Subset
        <3>4. QED BY <3>2, <3>3, <1>3, <1>1 DEF P
    <2>2. Min(P) \in P /\ \A y \in P : Min(P) <= y
        <3> HIDE DEF P
        <3>1. QED BY <2>1, SmallestOfSet
    <2>3. ASSUME NEW j \in 1 .. Min(P) - 1 PROVE s[j] # k
        <3>1. Min(P) \in Int /\ Min(P) <= Len(s) /\ \A y \in DOMAIN s : s[y] = k => Min(P) <= y
            BY <2>2, <1>1
        <3> HIDE DEF P
        <3>2. j \in DOMAIN s /\ j < Min(P)
            BY <3>1, <1>1
        <3>3. QED BY <3>1, <3>2, <1>1
    <2>4. QED BY <2>2, <2>3
<1>5. \A k \in N : ~Before(k, k)
    BY <1>1
<1>6. \A k, l \in N : k # l => Before(k, l) \/ Before(l, k)
    <2> SUFFICES ASSUME NEW k \in N, NEW l \in N, k # l PROVE Before(k, l) \/ Before(l, k)
        OBVIOUS
    <2>1. PICK i \in DOMAIN s : s[i] = k /\ \A j \in 1 .. i - 1 : s[j] # k
        BY <1>4
    <2>2. PICK h \in DOMAIN s : s[h] = l /\ \A j \in 1 .. h - 1 : s[j] # l
        BY <1>4
    <2>3. i \in Nat /\ h \in Nat /\ i # h
        BY <2>1, <2>2, <1>1
    <2>4. CASE i < h
        <3>1. \A j \in 1 .. i : s[j] # l
            BY <2>4, <2>2, <2>3
        <3>2. QED BY <3>1, <2>1
    <2>5. CASE h < i
        <3>1. \A j \in 1 .. h : s[j] # k
            BY <2>5, <2>1, <2>3
        <3>2. QED BY <3>1, <2>2
    <2>6. QED BY <2>3, <2>4, <2>5
<1>7. \A j, k, l \in N : Before(j, k) /\ Before(k, l) => Before(j, l)
    <2> SUFFICES ASSUME NEW j \in N, NEW k \in N, NEW l \in N, Before(j, k), Before(k, l) PROVE Before(j, l)
        OBVIOUS
    <2>1. PICK i \in DOMAIN s : s[i] = j /\ \A m \in 1 .. i : s[m] # k
        OBVIOUS
    <2>2. PICK h \in DOMAIN s : s[h] = k /\ \A m \in 1 .. h : s[m] # l
        OBVIOUS
    <2>3. i < h
        BY <2>1, <2>2, <1>1
    <2>4. \A m \in 1 .. i : s[m] # l
        BY <2>2, <2>3, <1>1
    <2>5. QED BY <2>1, <2>4
<1> HIDE DEF Before
<1>8. QED BY <1>2, <1>5, <1>6, <1>7 DEF N

\* One color map keeps the colours of another.
Keeps(wider, narrower) ==
    DOMAIN narrower \subseteq DOMAIN wider /\ \A l \in DOMAIN narrower : wider[l] = narrower[l]

\* Reading a file changes no colour and gives one to every label in it.
LEMMA ColorsStay ==
    ASSUME NEW doc, IsDocument(doc), NEW cm
    PROVE  /\ Keeps(extract_colors(doc, cm), cm)
           /\ \A i \in DOMAIN doc.nodes : label(doc.nodes[i].color) \in DOMAIN extract_colors(doc, cm)
<1>1. DOMAIN extract_colors(doc, cm) = DOMAIN cm \cup NewLabels(doc, cm)
    BY DEF extract_colors
<1>2. \A l \in DOMAIN cm : extract_colors(doc, cm)[l] = cm[l]
    BY DEF extract_colors
<1>3. ASSUME NEW i \in DOMAIN doc.nodes
      PROVE  label(doc.nodes[i].color) \in DOMAIN cm \cup NewLabels(doc, cm)
    <2>1. i \in DOMAIN Labels(doc) /\ Labels(doc)[i] = label(doc.nodes[i].color)
        BY LabelsAre
    <2>2. QED BY <2>1 DEF NewLabels
<1>4. QED BY <1>1, <1>2, <1>3 DEF Keeps

\* Labels that a file brings are numbered on from those that are known.
LEMMA ColorsStayConsecutive ==
    ASSUME NEW doc, IsDocument(doc), NEW cm, Consecutive(cm)
    PROVE  Consecutive(extract_colors(doc, cm))
<1> DEFINE D == DOMAIN cm
           N == NewLabels(doc, cm)
           n == Cardinality(D)
           m == Cardinality(N)
           before == [l \in N |-> {k \in N : MetBefore(doc, k, l)}]
           rank == [l \in N |-> Cardinality(before[l])]
           colors == extract_colors(doc, cm)
<1>1. IsFiniteSet(D) /\ IsFiniteSet(N) /\ D \cap N = {}
    <2>1. IsFiniteSet({Labels(doc)[i] : i \in DOMAIN Labels(doc)})
        BY LabelsAre
    <2>2. N \in SUBSET {Labels(doc)[i] : i \in DOMAIN Labels(doc)} /\ D \cap N = {}
        BY DEF NewLabels
    <2>3. IsFiniteSet(N)
        BY <2>1, <2>2, FS_Subset
    <2>4. QED BY <2>2, <2>3 DEF Consecutive
<1>2. n \in Nat /\ m \in Nat /\ Cardinality(D \cup N) = n + m /\ IsFiniteSet(D \cup N)
    <2>1. D \cap N = {} /\ Cardinality(D \cup N) = n + m - Cardinality(D \cap N)
        BY <1>1, FS_Union
    <2>2. Cardinality(D \cap N) = 0
        BY <2>1, FS_EmptySet
    <2>3. n \in Nat /\ m \in Nat
        BY <1>1, FS_CardinalityType
    <2>4. QED BY <2>1, <2>2, <2>3, <1>1, FS_Union
<1>3. \A l \in N : before[l] = {k \in N : MetBefore(doc, k, l)}
    OBVIOUS
<1>4. \A l \in N : rank[l] = Cardinality(before[l])
    OBVIOUS
<1>5. DOMAIN colors = D \cup N /\ \A l \in D : colors[l] = cm[l]
    BY DEF extract_colors
<1>6. \A l \in N : colors[l] = n + rank[l]
    <2>1. \A l \in N : l \notin D
        BY <1>1
    <2>2. \A l \in N : colors[l] = n + Cardinality({k \in N : MetBefore(doc, k, l)})
        BY <2>1 DEF extract_colors
    <2>3. QED BY <2>2
<1> HIDE DEF before, rank, colors, m, n, N
<1>7. \A l \in N : l \notin before[l]
    BY <1>3, MetInOrder DEF N
<1>8. \A l \in N : IsFiniteSet(before[l]) /\ rank[l] \in 0 .. m - 1
    <2> SUFFICES ASSUME NEW l \in N PROVE IsFiniteSet(before[l]) /\ rank[l] \in 0 .. m - 1
        OBVIOUS
    <2>1. before[l] \in SUBSET N /\ before[l] # N
        BY <1>3, <1>7
    <2>2. IsFiniteSet(before[l]) /\ Cardinality(before[l]) <= Cardinality(N) /\ Cardinality(before[l]) # Cardinality(N)
        BY <1>1, <2>1, FS_Subset
    <2>3. Cardinality(before[l]) \in Nat
        BY <2>2, FS_CardinalityType
    <2>4. rank[l] \in Nat /\ rank[l] <= m /\ rank[l] # m
        BY <2>2, <2>3, <1>4 DEF m
    <2>5. QED BY <2>2, <2>4, <1>2
<1>9. \A k, l \in N : MetBefore(doc, k, l) => rank[k] < rank[l]
    <2> SUFFICES ASSUME NEW k \in N, NEW l \in N, MetBefore(doc, k, l) PROVE rank[k] < rank[l]
        OBVIOUS
    <2>1. before[k] \in SUBSET before[l]
        BY <1>3, MetInOrder DEF N
    <2>2. k \in before[l] /\ k \notin before[k]
        BY <1>3, <1>7
    <2>3. IsFiniteSet(before[l]) /\ before[k] # before[l]
        BY <1>8, <2>2
    <2>4. Cardinality(before[k]) <= Cardinality(before[l]) /\ Cardinality(before[k]) # Cardinality(before[l])
        BY <2>1, <2>3, FS_Subset
    <2>5. rank[k] <= rank[l] /\ rank[k] # rank[l] /\ rank[k] \in Nat /\ rank[l] \in Nat
        BY <2>4, <1>4, <1>8
    <2>6. QED BY <2>5
<1>10. \A k, l \in N : rank[k] = rank[l] => k = l
    <2>1. \A k, l \in N : k # l => MetBefore(doc, k, l) \/ MetBefore(doc, l, k)
        BY MetInOrder DEF N
    <2>2. \A k \in N : rank[k] \in Int
        BY <1>8
    <2>3. QED BY <2>1, <2>2, <1>9
<1>11. \A l \in D : cm[l] \in 0 .. n - 1
    BY DEF Consecutive, n
<1>12. \A k, l \in D : cm[k] = cm[l] => k = l
    BY DEF Consecutive
<1> HIDE DEF D
<1>13. \A l \in D \cup N : colors[l] \in 0 .. (n + m) - 1
    <2>1. ASSUME NEW l \in D PROVE colors[l] \in 0 .. (n + m) - 1
        BY <1>2, <1>5, <1>11
    <2>2. ASSUME NEW l \in N PROVE colors[l] \in 0 .. (n + m) - 1
        BY <1>2, <1>6, <1>8
    <2>3. QED BY <2>1, <2>2
<1>14. \A k, l \in D \cup N : colors[k] = colors[l] => k = l
    <2>1. \A k, l \in D : colors[k] = colors[l] => k = l
        BY <1>5, <1>12
    <2>2. \A k, l \in N : colors[k] = colors[l] => k = l
        <3> SUFFICES ASSUME NEW k \in N, NEW l \in N, colors[k] = colors[l] PROVE k = l
            OBVIOUS
        <3>1. rank[k] \in Int /\ rank[l] \in Int /\ n \in Int
            BY <1>2, <1>8
        <3>2. n + rank[k] = n + rank[l]
            BY <1>6
        <3>3. rank[k] = rank[l]
            BY <3>1, <3>2
        <3>4. QED BY <3>3, <1>10
    <2>3. \A k \in D, l \in N : colors[k] # colors[l]
        <3>1. \A k \in D : colors[k] \in Int /\ colors[k] < n
            BY <1>2, <1>5, <1>11
        <3>2. \A l \in N : colors[l] \in Int /\ n <= colors[l]
            BY <1>2, <1>6, <1>8
        <3>3. QED BY <3>1, <3>2, <1>2
    <2>4. QED BY <2>1, <2>2, <2>3
<1>15. QED BY <1>2, <1>5, <1>13, <1>14 DEF Consecutive, colors

\* The constructor keeps the colours it is given.
LEMMA ColorsAreKept ==
    ASSUME NEW n, NEW edges, NEW colors, NEW directed, NEW colored,
           ColoredGraph(n, edges, colors, directed, colored) # Rejected
    PROVE  ColoredGraph(n, edges, colors, directed, colored).m_colors = colors
<1>1. ColoredGraph(n, edges, colors, directed, colored)
          = build_structures(n, validate_edges(edges), colors, directed, colored)
    BY DEF ColoredGraph
<1>2. build_structures(n, validate_edges(edges), colors, directed, colored).m_colors = colors
    BY DEF build_structures
<1>3. QED BY <1>1, <1>2

\* A vertex that is read has the colour of its label.
LEMMA ReadColorsAre ==
    ASSUME NEW doc, IsDocument(doc), NEW is_directed, NEW cm,
           read_graphml(doc, is_directed, cm) # Rejected,
           NEW v \in DOMAIN read_graphml(doc, is_directed, cm).m_colors
    PROVE  /\ v + 1 \in DOMAIN doc.nodes
           /\ read_graphml(doc, is_directed, cm).m_colors[v] = extract_colors(doc, cm)[label(doc.nodes[v + 1].color)]
<1> DEFINE colors == extract_colors(doc, cm)
           colored == has_edge_colors(doc, colors)
           edges == {<<boost_vertex(doc, doc.links[i].source), boost_vertex(doc, doc.links[i].target),
                       IF colored THEN colors[label(doc.links[i].color)] ELSE 0>> : i \in DOMAIN doc.links}
           given == [w \in 0 .. Len(doc.nodes) - 1 |-> colors[label(doc.nodes[w + 1].color)]]
           built == ColoredGraph(Len(doc.nodes), edges, given, is_directed, colored)
<1>1. read_graphml(doc, is_directed, cm) = built
    BY DEF read_graphml
<1>2. built # Rejected
    BY <1>1
<1> HIDE DEF edges, given, colored
<1>3. built.m_colors = given
    BY <1>2, ColorsAreKept
<1>4. v \in DOMAIN given /\ read_graphml(doc, is_directed, cm).m_colors[v] = given[v]
    BY <1>1, <1>3
<1>5. Len(doc.nodes) \in Nat /\ DOMAIN doc.nodes = 1 .. Len(doc.nodes)
    BY DEF IsDocument
<1>6. QED BY <1>4, <1>5 DEF given

-----------------------------------------------------------------------------
(* Loads of GraphML libraries: the invariant.                              *)

\* The vertices of the graphs of a load have the colours that its map gives to their labels.
ColoredBy(load) ==
    \A f \in DOMAIN load.graphs : \A v \in DOMAIN load.graphs[f].m_colors :
        LET l == label(Directories[load.command.dir][f].nodes[v + 1].color) IN
        l \in DOMAIN load.color_map /\ load.graphs[f].m_colors[v] = load.color_map[l]

\* The map of a load, unless it descends from a damaged one, is one to one and keeps the
\* colours of those it descends from.
LoadIs(maps, load) ==
    /\ load.lineage \subseteq DOMAIN maps
    /\ ColoredBy(load)
    /\ (\A f \in load.lineage : maps[f].state = "whole") =>
         /\ Consecutive(load.color_map)
         /\ \A f \in load.lineage : Keeps(load.color_map, maps[f].color_map)

\* A load that ended saved its map, if it saved one that was written to its end.
LoadedIs(maps, load) ==
    /\ LoadIs(maps, load)
    /\ load.saved # NoPath =>
         /\ load.saved \in DOMAIN maps
         /\ maps[load.saved].state = "whole" => maps[load.saved].color_map = load.color_map

\* A map that was written to its end was given, or a load saved it.
MapIs(maps, loads, f) ==
    maps[f].state = "whole" =>
        \/ f \in DOMAIN GivenMaps /\ maps[f].color_map = GivenMaps[f]
        \/ \E load \in loads : load.saved = f

\* The time stamp of the next map to be saved is later than that of any other.
StampsAre ==
    /\ \E s \in Sessions : Len(session) \in 0 .. Len(s)
    /\ NoPath \notin DOMAIN map_files
    /\ \A f \in DOMAIN map_files :
         \/ f \in DOMAIN GivenMaps
         \/ \E n \in Nat : f = Stamped(n) /\ Len(session) <= n /\ (loading # NotLoading => Len(session) < n)

LoadFields == {"pc", "command", "files", "color_map", "graphs", "lineage"}

LoadInProgress ==
    loading # NotLoading =>
        /\ loading.pc = "read"
        /\ DOMAIN loading = LoadFields
        /\ loading.command \in AllCommands
        /\ loading.command.run = "load"
        /\ loading.files \in Seq(DOMAIN Directories[loading.command.dir])
        /\ LoadIs(map_files, loading)

MapsAre ==
    /\ \A f \in DOMAIN map_files : MapIs(map_files, libraries, f)
    /\ \A load \in libraries : LoadedIs(map_files, load)

GraphmlInv == StampsAre /\ LoadInProgress /\ MapsAre

\* What more files, and none changed, leave as it was.
LEMMA LoadStays ==
    ASSUME NEW maps, NEW more, DOMAIN maps \subseteq DOMAIN more, \A f \in DOMAIN maps : more[f] = maps[f],
           NEW load, LoadIs(maps, load)
    PROVE  LoadIs(more, load)
BY DEF LoadIs

LEMMA LoadedStays ==
    ASSUME NEW maps, NEW more, DOMAIN maps \subseteq DOMAIN more, \A f \in DOMAIN maps : more[f] = maps[f],
           NEW load, LoadedIs(maps, load)
    PROVE  LoadedIs(more, load)
BY LoadStays DEF LoadedIs

\* Until a load starts, the maps stay what they are.
LEMMA NoneLoads ==
    ASSUME GraphmlInv, session \in Seq(AllCommands), loading = NotLoading \/ session' = session,
           session' = session \/ (session # <<>> /\ session' = Tail(session)),
           UNCHANGED <<map_files, libraries>>, loading' = loading \/ loading' = NotLoading
    PROVE  GraphmlInv'
<1>1. Len(session) \in Nat /\ Len(session') \in Nat /\ Len(session') <= Len(session)
    <2> HIDE DEF AllCommands
    <2>1. QED OBVIOUS
<1>2. StampsAre'
    <2>1. \E s \in Sessions : Len(session') \in 0 .. Len(s)
        <3>1. PICK s \in Sessions : Len(session) \in 0 .. Len(s)
            BY DEF GraphmlInv, StampsAre
        <3>2. Len(s) \in Nat
            BY SessionsAssumption
        <3>3. QED BY <3>1, <3>2, <1>1
    <2>2. ASSUME NEW f \in DOMAIN map_files, f \notin DOMAIN GivenMaps
          PROVE  \E n \in Nat : f = Stamped(n) /\ Len(session') <= n /\ (loading' # NotLoading => Len(session') < n)
        <3>1. PICK n \in Nat : f = Stamped(n) /\ Len(session) <= n /\ (loading # NotLoading => Len(session) < n)
            BY <2>2 DEF GraphmlInv, StampsAre
        <3>2. Len(session') <= n /\ (loading' # NotLoading => Len(session') < n)
            BY <3>1, <1>1
        <3>3. QED BY <3>1, <3>2
    <2>3. NoPath \notin DOMAIN map_files
        BY DEF GraphmlInv, StampsAre
    <2>4. QED BY <2>1, <2>2, <2>3 DEF StampsAre, Stamped
<1>3. LoadInProgress'
    BY DEF GraphmlInv, LoadInProgress, LoadIs, ColoredBy
<1>4. MapsAre'
    BY DEF GraphmlInv, MapsAre, MapIs
<1>5. QED BY <1>2, <1>3, <1>4 DEF GraphmlInv

\* The files of a library, in the order in which its directory lists them.
LEMMA DocumentsListed ==
    ASSUME NEW d \in DOMAIN Directories, NEW order \in SetToSeqs(DOMAIN Directories[d])
    PROVE  order \in Seq(DOMAIN Directories[d])
<1>1. Cardinality(DOMAIN Directories[d]) \in Nat
    BY DocumentsAssumption, FS_CardinalityType
<1>2. order \in [1 .. Cardinality(DOMAIN Directories[d]) -> DOMAIN Directories[d]]
    BY DEF SetToSeqs
<1>3. QED BY <1>1, <1>2

\* A load starts from a map that keeps the colours of all maps it descends from: it is
\* one that was given, or the map of the load that saved it.
LEMMA StartsFromMap ==
    ASSUME GraphmlInv, NEW path \in DOMAIN map_files, NEW lineage,
           lineage = {path} \cup UNION {load.lineage : load \in {l \in libraries : l.saved = path}}
    PROVE  /\ lineage \subseteq DOMAIN map_files
           /\ (\A f \in lineage : map_files[f].state = "whole") =>
                /\ Consecutive(map_files[path].color_map)
                /\ \A f \in lineage : Keeps(map_files[path].color_map, map_files[f].color_map)
<1>1. \A load \in libraries : load.saved = path => load.lineage \subseteq lineage
    OBVIOUS
<1>2. \A f \in lineage : f = path \/ \E load \in libraries : load.saved = path /\ f \in load.lineage
    OBVIOUS
<1>3. path # NoPath
    BY DEF GraphmlInv, StampsAre
<1>4. lineage \subseteq DOMAIN map_files
    BY <1>2 DEF GraphmlInv, MapsAre, LoadedIs, LoadIs
<1>5. ASSUME \A f \in lineage : map_files[f].state = "whole"
      PROVE  /\ Consecutive(map_files[path].color_map)
             /\ \A f \in lineage : Keeps(map_files[path].color_map, map_files[f].color_map)
    <2>1. map_files[path].state = "whole"
        BY <1>5
    <2>2. ASSUME NEW load \in libraries, load.saved = path
          PROVE  /\ Consecutive(map_files[path].color_map)
                 /\ \A f \in load.lineage : Keeps(map_files[path].color_map, map_files[f].color_map)
        <3>1. LoadedIs(map_files, load)
            BY DEF GraphmlInv, MapsAre
        <3>2. map_files[path].color_map = load.color_map
            BY <3>1, <2>1, <2>2, <1>3 DEF LoadedIs
        <3>3. \A f \in load.lineage : map_files[f].state = "whole"
            BY <1>1, <1>5, <2>2
        <3>4. QED BY <3>1, <3>2, <3>3 DEF LoadedIs, LoadIs
    <2>3. Consecutive(map_files[path].color_map)
        <3>1. CASE path \in DOMAIN GivenMaps /\ map_files[path].color_map = GivenMaps[path]
            BY <3>1, GivenMapsAssumption
        <3>2. CASE \E load \in libraries : load.saved = path
            BY <3>2, <2>2
        <3>3. MapIs(map_files, libraries, path)
            BY DEF GraphmlInv, MapsAre
        <3>4. QED BY <3>1, <3>2, <3>3, <2>1 DEF MapIs
    <2>4. ASSUME NEW f \in lineage PROVE Keeps(map_files[path].color_map, map_files[f].color_map)
        <3>1. CASE f = path
            BY <3>1 DEF Keeps
        <3>2. CASE \E load \in libraries : load.saved = path /\ f \in load.lineage
            BY <3>2, <2>2
        <3>3. QED BY <3>1, <3>2, <1>2
    <2>5. QED BY <2>3, <2>4
<1>6. QED BY <1>4, <1>5

LEMMA StartLoadKeeps ==
    ASSUME GraphmlInv, session \in Seq(AllCommands), StartLoad
    PROVE  GraphmlInv'
<1> DEFINE c == Head(session)
<1>1. /\ session # <<>> /\ c.run = "load" /\ session' = Tail(session) /\ loading = NotLoading
      /\ map_files' = map_files /\ libraries' = libraries
    BY DEF StartLoad
<1>2. c \in AllCommands /\ Len(session) \in Nat /\ Len(session') \in Nat /\ Len(session') = Len(session) - 1
    <2> HIDE DEF AllCommands
    <2>1. QED BY <1>1
<1>3. c.dir \in DOMAIN Directories
    BY <1>1, <1>2, LoadsAssumption DEF AllCommands
<1>4. PICK order \in SetToSeqs(DOMAIN Directories[c.dir]) :
         \/ /\ c.color_map_path = NoPath
            /\ loading' = [pc |-> "read", command |-> c, files |-> order,
                           color_map |-> <<>>, graphs |-> <<>>, lineage |-> {}]
         \/ /\ c.color_map_path \in DOMAIN map_files
            /\ loading' = [pc |-> "read", command |-> c, files |-> order,
                           color_map |-> map_files[c.color_map_path].color_map, graphs |-> <<>>,
                           lineage |-> {c.color_map_path}
                               \cup UNION {load.lineage : load \in {l \in libraries : l.saved = c.color_map_path}}]
    BY DEF StartLoad
<1>5. order \in Seq(DOMAIN Directories[c.dir])
    BY <1>3, DocumentsListed
<1> HIDE DEF c
<1>6. /\ loading'.pc = "read" /\ DOMAIN loading' = LoadFields /\ loading'.command = c
      /\ loading'.files = order /\ loading'.graphs = <<>>
    BY <1>4 DEF LoadFields
<1>7. ColoredBy(loading')
    BY <1>6 DEF ColoredBy
<1>8. LoadIs(map_files, loading')
    <2>1. CASE loading'.color_map = <<>> /\ loading'.lineage = {}
        <3>1. DOMAIN <<>> = {} /\ IsFiniteSet({})
            BY FS_EmptySet
        <3>2. Consecutive(<<>>)
            BY <3>1 DEF Consecutive
        <3>3. QED BY <2>1, <3>2, <1>7 DEF LoadIs
    <2>2. CASE /\ c.color_map_path \in DOMAIN map_files
               /\ loading'.color_map = map_files[c.color_map_path].color_map
               /\ loading'.lineage = {c.color_map_path}
                     \cup UNION {load.lineage : load \in {l \in libraries : l.saved = c.color_map_path}}
        BY <2>2, <1>7, StartsFromMap DEF LoadIs
    <2>3. QED BY <1>4, <2>1, <2>2
<1>9. LoadInProgress'
    BY <1>1, <1>2, <1>5, <1>6, <1>8 DEF LoadInProgress
<1>10. StampsAre'
    <2>1. \E s \in Sessions : Len(session') \in 0 .. Len(s)
        <3>1. PICK s \in Sessions : Len(session) \in 0 .. Len(s)
            BY DEF GraphmlInv, StampsAre
        <3>2. Len(s) \in Nat
            BY SessionsAssumption
        <3>3. QED BY <3>1, <3>2, <1>2
    <2>2. ASSUME NEW f \in DOMAIN map_files, f \notin DOMAIN GivenMaps
          PROVE  \E n \in Nat : f = Stamped(n) /\ Len(session') <= n /\ (loading' # NotLoading => Len(session') < n)
        <3>1. PICK n \in Nat : f = Stamped(n) /\ Len(session) <= n
            BY <2>2 DEF GraphmlInv, StampsAre
        <3>2. Len(session') < n
            BY <3>1, <1>2
        <3>3. QED BY <3>1, <3>2, <1>2
    <2>3. NoPath \notin DOMAIN map_files
        BY DEF GraphmlInv, StampsAre
    <2>4. QED BY <2>1, <2>2, <2>3, <1>1 DEF StampsAre, Stamped
<1>11. MapsAre'
    BY <1>1 DEF GraphmlInv, MapsAre, MapIs
<1>12. QED BY <1>9, <1>10, <1>11 DEF GraphmlInv

\* A file that is read leaves the graphs before it their colours.
LEMMA ReadGraphKeeps ==
    ASSUME GraphmlInv, ReadGraph
    PROVE  GraphmlInv'
<1> DEFINE doc == NextDocument
           next == Head(loading.files)
           cm == loading.color_map
           colors == extract_colors(doc, cm)
<1>1. /\ loading.pc = "read" /\ loading.files # <<>> /\ NextGraphRead # Rejected
      /\ loading' = [loading EXCEPT !.files = Tail(@), !.graphs = Put(@, next, NextGraphRead), !.color_map = colors]
      /\ map_files' = map_files /\ libraries' = libraries /\ session' = session
    BY DEF ReadGraph
<1>2. /\ loading # NotLoading /\ DOMAIN loading = LoadFields /\ loading.command \in AllCommands
      /\ loading.command.run = "load" /\ loading.files \in Seq(DOMAIN Directories[loading.command.dir])
      /\ LoadIs(map_files, loading)
    BY <1>1 DEF GraphmlInv, LoadInProgress, NotLoading
<1>3. IsDocument(doc)
    <2>1. loading.command.dir \in DOMAIN Directories
        BY <1>2, LoadsAssumption DEF AllCommands
    <2>2. next \in DOMAIN Directories[loading.command.dir]
        BY <1>1, <1>2
    <2>3. QED BY <2>1, <2>2, DocumentsAssumption DEF IsDocument, NextDocument
<1>4. Keeps(colors, cm) /\ \A i \in DOMAIN doc.nodes : label(doc.nodes[i].color) \in DOMAIN colors
    BY <1>3, ColorsStay
<1>5. \A v \in DOMAIN NextGraphRead.m_colors :
         v + 1 \in DOMAIN doc.nodes /\ NextGraphRead.m_colors[v] = colors[label(doc.nodes[v + 1].color)]
    BY <1>1, <1>3, ReadColorsAre DEF NextGraphRead
<1>6. Consecutive(cm) => Consecutive(colors)
    BY <1>3, ColorsStayConsecutive
<1>7. doc = Directories[loading.command.dir][next]
    BY DEF NextDocument
<1> HIDE DEF doc, next, cm, colors
<1>8. /\ loading' # NotLoading /\ loading'.pc = "read" /\ DOMAIN loading' = LoadFields
      /\ loading'.command = loading.command /\ loading'.lineage = loading.lineage
      /\ loading'.files = Tail(loading.files)
      /\ loading'.graphs = Put(loading.graphs, next, NextGraphRead) /\ loading'.color_map = colors
    <2>1. /\ DOMAIN loading' = LoadFields /\ loading'.pc = "read"
          /\ loading'.command = loading.command /\ loading'.lineage = loading.lineage
          /\ loading'.files = Tail(loading.files)
          /\ loading'.graphs = Put(loading.graphs, next, NextGraphRead) /\ loading'.color_map = colors
        BY <1>1, <1>2 DEF LoadFields
    <2>2. NotLoading.pc # "read"
        BY DEF NotLoading
    <2>3. QED BY <2>1, <2>2
<1>9. loading'.files \in Seq(DOMAIN Directories[loading'.command.dir])
    <2> DEFINE T == DOMAIN Directories[loading.command.dir]
               s == loading.files
    <2>1. s \in Seq(T) /\ s # <<>>
        BY <1>1, <1>2
    <2> HIDE DEF T, s
    <2>2. Tail(s) \in Seq(T)
        BY <2>1
    <2>3. QED BY <2>2, <1>8 DEF T, s
<1>10. ColoredBy(loading')
    <2> SUFFICES ASSUME NEW f \in DOMAIN loading'.graphs, NEW v \in DOMAIN loading'.graphs[f].m_colors,
                        NEW l, l = label(Directories[loading.command.dir][f].nodes[v + 1].color)
                 PROVE  l \in DOMAIN colors /\ loading'.graphs[f].m_colors[v] = colors[l]
        BY <1>8 DEF ColoredBy
    <2>1. CASE f = next
        <3>1. loading'.graphs[f] = NextGraphRead
            BY <2>1, <1>8 DEF Put
        <3>2. l = label(doc.nodes[v + 1].color)
            BY <2>1, <1>7
        <3>3. QED BY <3>1, <3>2, <1>4, <1>5
    <2>2. CASE f # next
        <3>1. f \in DOMAIN loading.graphs /\ loading'.graphs[f] = loading.graphs[f]
            BY <2>2, <1>8 DEF Put
        <3>2. l \in DOMAIN cm /\ loading.graphs[f].m_colors[v] = cm[l]
            BY <3>1, <1>2 DEF LoadIs, ColoredBy, cm
        <3>3. QED BY <3>1, <3>2, <1>4 DEF Keeps
    <2>3. QED BY <2>1, <2>2
<1>11. LoadIs(map_files, loading')
    <2>1. \A f \in loading.lineage : Keeps(cm, map_files[f].color_map) => Keeps(colors, map_files[f].color_map)
        BY <1>4 DEF Keeps
    <2>2. QED BY <2>1, <1>2, <1>6, <1>8, <1>10 DEF LoadIs, cm
<1>12. LoadInProgress'
    BY <1>1, <1>2, <1>8, <1>9, <1>11 DEF LoadInProgress
<1>13. StampsAre'
    BY <1>1, <1>2 DEF GraphmlInv, StampsAre
<1>14. MapsAre'
    BY <1>1 DEF GraphmlInv, MapsAre, MapIs
<1>15. QED BY <1>12, <1>13, <1>14 DEF GraphmlInv

\* What a load that ended is, for the loads to come.
LEMMA LoadedIsLoad ==
    ASSUME NEW maps, LoadIs(maps, loading), NEW saved
    PROVE  /\ LoadIs(maps, Loaded(saved))
           /\ Loaded(saved).saved = saved /\ Loaded(saved).color_map = loading.color_map
<1>1. /\ Loaded(saved).command = loading.command /\ Loaded(saved).graphs = loading.graphs
      /\ Loaded(saved).color_map = loading.color_map /\ Loaded(saved).lineage = loading.lineage
      /\ Loaded(saved).saved = saved
    BY DEF Loaded
<1>2. QED BY <1>1 DEF LoadIs, ColoredBy

LEMMA LoadIsAtWork ==
    ASSUME GraphmlInv, AllRead
    PROVE  loading # NotLoading /\ LoadIs(map_files, loading)
BY DEF AllRead, GraphmlInv, LoadInProgress, NotLoading

LEMMA EndLoadKeeps ==
    ASSUME GraphmlInv, EndLoad
    PROVE  GraphmlInv'
<1>1. /\ AllRead /\ libraries' = libraries \cup {Loaded(NoPath)} /\ loading' = NotLoading
      /\ map_files' = map_files /\ session' = session
    BY DEF EndLoad
<1>2. LoadedIs(map_files, Loaded(NoPath))
    BY <1>1, LoadIsAtWork, LoadedIsLoad DEF LoadedIs
<1>3. StampsAre'
    BY <1>1 DEF GraphmlInv, StampsAre
<1>4. LoadInProgress'
    BY <1>1 DEF LoadInProgress
<1>5. MapsAre'
    BY <1>1, <1>2 DEF GraphmlInv, MapsAre, MapIs
<1>6. QED BY <1>3, <1>4, <1>5 DEF GraphmlInv

\* What is read of a saved map is that map if it is called whole; of one that was cut
\* off it is not.
LEMMA SavedOrTorn ==
    ASSUME NEW map
    PROVE  /\ Saved(map).state \in {"whole", "altered", "unreadable"}
           /\ Saved(map).state = "whole" => Saved(map).color_map = map
           /\ \A content \in Torn(map) : content.state \in {"torn", "unreadable"}
<1>1. /\ Saved(map).state \in {"whole", "altered", "unreadable"}
      /\ Saved(map).state = "whole" => Saved(map).color_map = map
    <2> DEFINE rows == parse_rows(map)
    <2>1. CASE MalformedRow(map)
        BY <2>1 DEF Saved, Unreadable
    <2>2. CASE ~MalformedRow(map)
        <3>1. Saved(map) = [color_map |-> rows, state |-> IF rows = map THEN "whole" ELSE "altered"]
            BY <2>2 DEF Saved
        <3> HIDE DEF rows
        <3>2. QED BY <3>1
    <2>3. QED BY <2>1, <2>2
<1>2. ASSUME NEW content \in Torn(map) PROVE content.state \in {"torn", "unreadable"}
    <2> DEFINE upto(l) == Restrict(map, {k \in DOMAIN map : k = l \/ label_before(k, l)})
               legible == {l \in DOMAIN map : ~MalformedRow(upto(l))}
               color(l) == written_color(l, map[l])
               rows(l) == parse_rows(upto(l))
               short(l) == [parse_rows(upto(l)) EXCEPT ![written_label(l)] = color(l) \div 10]
               long == {l \in legible : color(l) >= 10}
    <2>1. Torn(map) = {Unreadable, [color_map |-> <<>>, state |-> "torn"]}
                 \cup {[color_map |-> rows(l), state |-> "torn"] : l \in legible}
                 \cup {[color_map |-> short(l), state |-> "torn"] : l \in long}
        BY DEF Torn
    <2> HIDE DEF rows, short, legible, long
    <2>2. QED BY <1>2, <2>1 DEF Unreadable
<1>3. QED BY <1>1, <1>2

\* A map is saved in a new file, whole or not, and the load is or is not one that ended.
LEMMA SavedMapKeeps ==
    ASSUME GraphmlInv, AllRead, NEW content, map_files' = Put(map_files, SavedMap, content),
           libraries' \in {libraries, libraries \cup {Loaded(SavedMap)}},
           content.state = "whole" =>
               content.color_map = loading.color_map /\ libraries' = libraries \cup {Loaded(SavedMap)},
           loading' = NotLoading, session' = session
    PROVE  GraphmlInv'
<1> DEFINE n == Len(session)
<1>1. PICK s \in Sessions : n \in 0 .. Len(s)
    BY DEF GraphmlInv, StampsAre
<1>2. n \in Nat
    BY <1>1, SessionsAssumption
<1>3. SavedMap = Stamped(n) /\ SavedMap # NoPath /\ SavedMap \notin DOMAIN GivenMaps
    BY <1>1, PathsAssumption DEF SavedMap
<1>4. \A k \in Nat : Stamped(k) = Stamped(n) => k = n
    BY DEF Stamped
<1>5. loading # NotLoading /\ LoadIs(map_files, loading)
    BY LoadIsAtWork
<1>6. SavedMap \notin DOMAIN map_files
    <2> SUFFICES ASSUME SavedMap \in DOMAIN map_files PROVE FALSE
        OBVIOUS
    <2>1. PICK k \in Nat : SavedMap = Stamped(k) /\ n < k
        BY <1>3, <1>5 DEF GraphmlInv, StampsAre
    <2>2. k = n
        BY <2>1, <1>3, <1>4
    <2>3. QED BY <2>1, <2>2, <1>2
<1>7. /\ DOMAIN map_files' = DOMAIN map_files \cup {SavedMap} /\ map_files'[SavedMap] = content
      /\ \A f \in DOMAIN map_files : map_files'[f] = map_files[f]
    BY <1>6 DEF Put
<1>8. StampsAre'
    <2>1. \A f \in DOMAIN map_files :
             f \in DOMAIN GivenMaps \/ \E k \in Nat : f = Stamped(k) /\ n <= k
        BY DEF GraphmlInv, StampsAre
    <2>2. \E k \in Nat : SavedMap = Stamped(k) /\ n <= k
        BY <1>2, <1>3
    <2>3. \A f \in DOMAIN map_files' :
             f \in DOMAIN GivenMaps \/ \E k \in Nat : f = Stamped(k) /\ n <= k
        BY <2>1, <2>2, <1>7
    <2>4. NoPath \notin DOMAIN map_files'
        BY <1>3, <1>7 DEF GraphmlInv, StampsAre
    <2> HIDE DEF n
    <2>5. Len(session') = n
        BY DEF n
    <2>6. QED BY <2>3, <2>4, <2>5, <1>1 DEF StampsAre
<1>9. LoadInProgress'
    BY DEF LoadInProgress
<1>10. \A load \in libraries : LoadedIs(map_files', load)
    BY <1>7, LoadedStays DEF GraphmlInv, MapsAre
<1>11. LoadedIs(map_files', Loaded(SavedMap))
    <2>1. LoadIs(map_files', loading)
        BY <1>5, <1>7, LoadStays
    <2>2. /\ LoadIs(map_files', Loaded(SavedMap))
          /\ Loaded(SavedMap).saved = SavedMap /\ Loaded(SavedMap).color_map = loading.color_map
        BY <2>1, LoadedIsLoad
    <2>3. QED BY <2>2, <1>7 DEF LoadedIs
<1>12. \A f \in DOMAIN map_files : MapIs(map_files', libraries', f)
    BY <1>7 DEF GraphmlInv, MapsAre, MapIs
<1>13. MapIs(map_files', libraries', SavedMap)
    <2>1. Loaded(SavedMap).saved = SavedMap
        BY DEF Loaded
    <2>2. QED BY <2>1, <1>7 DEF MapIs
<1>14. MapsAre'
    BY <1>7, <1>10, <1>11, <1>12, <1>13 DEF MapsAre
<1>15. QED BY <1>8, <1>9, <1>14 DEF GraphmlInv

LEMMA LibraryStepKeeps ==
    ASSUME GraphmlInv, session \in Seq(AllCommands), LibraryNext
    PROVE  GraphmlInv'
<1>1. CASE StartLoad
    BY <1>1, StartLoadKeeps
<1>2. CASE LoadRefused
    <2>1. /\ loading = NotLoading /\ session # <<>> /\ session' = Tail(session)
          /\ UNCHANGED <<map_files, loading, libraries>>
        BY <1>2 DEF LoadRefused
    <2>2. QED BY <2>1, NoneLoads
<1>3. CASE ReadGraph
    BY <1>3, ReadGraphKeeps
<1>4. CASE ReadFails \/ AbortLoad
    <2>1. loading' = NotLoading /\ UNCHANGED <<map_files, libraries, session>>
        BY <1>4 DEF ReadFails, AbortLoad
    <2>2. QED BY <2>1, NoneLoads
<1>5. CASE EndLoad
    BY <1>5, EndLoadKeeps
<1>6. CASE SaveMap
    <2> DEFINE content == Saved(loading.color_map)
    <2>1. /\ AllRead /\ map_files' = Put(map_files, SavedMap, content)
          /\ libraries' = libraries \cup {Loaded(SavedMap)} /\ loading' = NotLoading /\ session' = session
        BY <1>6 DEF SaveMap
    <2>2. content.state = "whole" => content.color_map = loading.color_map
        BY SavedOrTorn
    <2> HIDE DEF content
    <2>3. QED BY <2>1, <2>2, SavedMapKeeps
<1>7. CASE SaveBreaks
    <2>1. PICK content \in Torn(loading.color_map) : map_files' = Put(map_files, SavedMap, content)
        BY <1>7 DEF SaveBreaks
    <2>2. /\ AllRead /\ libraries' \in {libraries, libraries \cup {Loaded(SavedMap)}}
          /\ loading' = NotLoading /\ session' = session
        BY <1>7 DEF SaveBreaks
    <2>3. content.state # "whole"
        BY <2>1, SavedOrTorn
    <2>4. QED BY <2>1, <2>2, <2>3, SavedMapKeeps
<1>8. QED BY <1>1, <1>2, <1>3, <1>4, <1>5, <1>6, <1>7 DEF LibraryNext

LEMMA PatternStepTakesCommands ==
    ASSUME PatternNext
    PROVE  session' = session \/ (session # <<>> /\ session' = Tail(session))
<1>1. CASE StartPatternRun
    BY <1>1 DEF StartPatternRun
<1>2. CASE StartPatternFilter
    BY <1>2 DEF StartPatternFilter
<1>3. CASE NoIndex
    BY <1>3 DEF NoIndex
<1>4. CASE \E t \in DOMAIN worker : WorkerStep(t)
    <2>1. PICK t \in DOMAIN worker : WorkerStep(t)
        BY <1>4
    <2>2. CASE StartWorker(t)
        BY <2>2, Zenon DEF StartWorker, enumerationVars
    <2>3. CASE Claim(t)
        BY <2>3, Zenon DEF Claim, enumerationVars
    <2>4. CASE FindPattern(t)
        BY <2>4, Zenon DEF FindPattern, enumerationVars
    <2>5. CASE WorkerFails(t)
        BY <2>5, Zenon DEF WorkerFails, enumerationVars
    <2>6. QED BY <2>1, <2>2, <2>3, <2>4, <2>5 DEF WorkerStep
<1>5. CASE Calculate
    BY <1>5, Zenon DEF Calculate, enumerationVars
<1>6. CASE MergeResults
    BY <1>6, Zenon DEF MergeResults, enumerationVars
<1>7. CASE Rethrow
    BY <1>7, Zenon DEF Rethrow, enumerationVars
<1>8. CASE WritePattern
    BY <1>8, Zenon DEF WritePattern, enumerationVars
<1>9. CASE WriteIndex
    BY <1>9, Zenon DEF WriteIndex, enumerationVars
<1>10. CASE FilterBackground
    BY <1>10, Zenon DEF FilterBackground, enumerationVars
<1>11. CASE FinishPatternRun
    BY <1>11, Zenon DEF FinishPatternRun, enumerationVars
<1>12. CASE AbortPatternRun
    BY <1>12, Zenon DEF AbortPatternRun, enumerationVars
<1>13. QED BY <1>1, <1>2, <1>3, <1>4, <1>5, <1>6, <1>7, <1>8, <1>9, <1>10, <1>11, <1>12 DEF PatternNext

LEMMA GraphmlInitially == Init => GraphmlInv
<1> SUFFICES ASSUME Init PROVE GraphmlInv
    OBVIOUS
<1>1. /\ map_files = [f \in DOMAIN GivenMaps |-> [color_map |-> GivenMaps[f], state |-> "whole"]]
      /\ loading = NotLoading /\ libraries = {} /\ session \in Sessions
    BY DEF Init, LibraryInit
<1>2. Len(session) \in 0 .. Len(session)
    BY <1>1, SessionsAssumption
<1>3. StampsAre
    BY <1>1, <1>2, GivenMapsAssumption DEF StampsAre
<1>4. LoadInProgress
    BY <1>1 DEF LoadInProgress
<1>5. MapsAre
    BY <1>1 DEF MapsAre, MapIs
<1>6. QED BY <1>3, <1>4, <1>5 DEF GraphmlInv

LEMMA GraphmlKept == FlowInv /\ GraphmlInv /\ [Next]_vars => GraphmlInv'
<1> SUFFICES ASSUME FlowInv, GraphmlInv, [Next]_vars PROVE GraphmlInv'
    OBVIOUS
<1>1. session \in Seq(AllCommands)
    BY DEF FlowInv, JobIs
<1>2. CASE loading = NotLoading /\ EnumerationNext /\ UNCHANGED filesOfLoads
    <2>1. UNCHANGED <<map_files, loading, libraries>>
        BY <1>2 DEF filesOfLoads
    <2>2. QED BY <1>1, <1>2, <2>1, RunsTakeCommands, NoneLoads
<1>3. CASE loading = NotLoading /\ PatternNext /\ UNCHANGED filesOfLoads
    <2>1. UNCHANGED <<map_files, loading, libraries>>
        BY <1>3 DEF filesOfLoads
    <2>2. QED BY <1>1, <1>3, <2>1, PatternStepTakesCommands, NoneLoads
<1>4. CASE LibraryNext
    BY <1>1, <1>4, LibraryStepKeeps
<1>5. CASE UNCHANGED vars
    <2>1. UNCHANGED <<map_files, loading, libraries, session>>
        BY <1>5 DEF vars, filesOfLoads, patternVars, enumerationVars
    <2>2. QED BY <1>1, <2>1, NoneLoads
<1>6. QED BY <1>2, <1>3, <1>4, <1>5 DEF Next

\* Two labels have one colour in the graphs of a load, or of two of which one descends
\* from the other, only if they are one label.
LEMMA ColorsAreLabels == GraphmlInv => ColorsMeanLabels
<1> SUFFICES ASSUME GraphmlInv, NEW a \in libraries, NEW b \in libraries, Follows(b, a), Undamaged(b),
                    NEW x \in LabelColors(a), NEW y \in LabelColors(b)
             PROVE  x[1] = y[1] <=> x[2] = y[2]
    BY DEF ColorsMeanLabels
<1>1. LoadedIs(map_files, a) /\ LoadedIs(map_files, b)
    BY DEF GraphmlInv, MapsAre
<1>2. \A load \in {a, b} : \A z \in LabelColors(load) :
         z[1] \in DOMAIN load.color_map /\ z[2] = load.color_map[z[1]]
    <2> SUFFICES ASSUME NEW load \in {a, b}, NEW z \in LabelColors(load)
                 PROVE  z[1] \in DOMAIN load.color_map /\ z[2] = load.color_map[z[1]]
        OBVIOUS
    <2>1. ColoredBy(load)
        BY <1>1 DEF LoadedIs, LoadIs
    <2>2. PICK f \in DOMAIN load.graphs : \E v \in DOMAIN load.graphs[f].m_colors :
             z = <<label(Directories[load.command.dir][f].nodes[v + 1].color), load.graphs[f].m_colors[v]>>
        BY DEF LabelColors
    <2>3. PICK v \in DOMAIN load.graphs[f].m_colors :
             z = <<label(Directories[load.command.dir][f].nodes[v + 1].color), load.graphs[f].m_colors[v]>>
        BY <2>2
    <2>4. z[1] = label(Directories[load.command.dir][f].nodes[v + 1].color) /\ z[2] = load.graphs[f].m_colors[v]
        BY <2>3
    <2>5. QED BY <2>1, <2>4 DEF ColoredBy
<1>3. /\ Consecutive(b.color_map)
      /\ \A f \in b.lineage : f \in DOMAIN map_files /\ map_files[f].state = "whole"
                                /\ Keeps(b.color_map, map_files[f].color_map)
    BY <1>1 DEF Undamaged, LoadedIs, LoadIs
<1>4. Keeps(b.color_map, a.color_map)
    <2>1. CASE a = b
        BY <2>1 DEF Keeps
    <2>2. CASE a.saved \in b.lineage
        <3>1. a.saved # NoPath
            BY <2>2, <1>3 DEF GraphmlInv, StampsAre
        <3>2. map_files[a.saved].color_map = a.color_map
            BY <3>1, <2>2, <1>1, <1>3 DEF LoadedIs
        <3>3. QED BY <3>2, <2>2, <1>3
    <2>3. QED BY <2>1, <2>2 DEF Follows
<1>5. x[1] \in DOMAIN b.color_map /\ x[2] = b.color_map[x[1]]
    BY <1>2, <1>4 DEF Keeps
<1>6. y[1] \in DOMAIN b.color_map /\ y[2] = b.color_map[y[1]]
    BY <1>2
<1>7. \A k, l \in DOMAIN b.color_map : b.color_map[k] = b.color_map[l] => k = l
    BY <1>3 DEF Consecutive
<1>8. QED BY <1>5, <1>6, <1>7

\* In the graphs of a load, and in those of loads whose maps descend from the one that it
\* saved, vertices have one colour just when they have one label, in whatever order files
\* are read and wherever runs stop.
THEOREM ColorsStayLabels == Spec => []ColorsMeanLabels
<1>1. Spec => []GraphmlInv
    BY FlowInvariant, GraphmlInitially, GraphmlKept, PTL DEF Spec
<1>2. QED BY <1>1, ColorsAreLabels, PTL

-----------------------------------------------------------------------------
(* Runs over enumerations: what they may discard.                          *)

\* Counts that are some of the others, and no larger.
IsPart(part, counts) ==
    \A id \in DOMAIN part :
        id \in DOMAIN counts /\ (counts[id] \in Nat => part[id] \in Nat /\ part[id] <= counts[id])

\* The stem of a graph that the session counts.
IsStem(s, stem) == \E g \in CountedFiles({s}) : g.stem = stem

\* A file has some of the counts of a graph of the session, whatever broke it off.
IsPartOf(s, f) ==
    \E kind \in Kinds, g \in CountedFiles({s}) :
        f.name = per_graph_cache_name(kind, g) /\ IsPart(files[f].counts, preprocess_graph[kind][g])

\* A verdict is on two graphs of the session, in a comparison that the command asks for;
\* and a graph is discarded only if the whole counts of both say so.
IsSafe(s, fs, c, r, l, verdict) ==
    /\ c.run = "filter" /\ r[2] \in ToSet(stages(c)) /\ IsStem(s, r[1]) /\ IsStem(s, l)
    /\ IntactIn(fs, r[1], r[2]) /\ verdict =>
         ~HasEnough(PostProcessed(c, r[2], preprocess_graph[r[2]][FileNamed(r[1])]),
                    preprocess_graph[r[2]][FileNamed(l)])

\* The commands are one session's, and it is filters that compare.
CommandsAreOf(s) ==
    /\ session \in Seq(Commands(s))
    /\ InRun => Command \in Commands(s)
    /\ run.pc = "filter" => Command.run = "filter"

FilesAreOf(s) == \A f \in DOMAIN files : IsPartOf(s, f)

LibraryIsOf(s) ==
    InRun => \A kind \in ToSet(run.stages) : load_dir(Command, kind) = NoDir =>
                run.library \in Seq(CountedFiles({s}))

NamesAreOf(s) ==
    InRun /\ run.stages # <<>> => \A i \in DOMAIN run.enumeration : IsStem(s, run.names[i].stem)

VerdictsAreSafe(s) ==
    InRun => \A r \in DOMAIN results : \A l \in DOMAIN results[r] :
                IsSafe(s, files, Command, r, l, results[r][l])

SafeIn(s) == CommandsAreOf(s) /\ FilesAreOf(s) /\ LibraryIsOf(s) /\ NamesAreOf(s) /\ VerdictsAreSafe(s)

SafeInv == \E s \in Sessions : SafeIn(s)

\* Whatever has enough of all counts has enough of some of them.
LEMMA PartIsCovered ==
    ASSUME NEW features, NEW counts, NEW part, HasEnough(features, counts), IsPart(part, counts)
    PROVE  ~can_be_filtered(features, part)
<1> SUFFICES ASSUME NEW id \in DOMAIN part, at(features, id) < part[id] PROVE FALSE
    BY DEF can_be_filtered
<1>1. id \in DOMAIN counts /\ counts[id] \in Nat /\ at(features, id) \in Nat /\ counts[id] <= at(features, id)
    BY DEF HasEnough, IsPart
<1>2. part[id] \in Nat /\ part[id] <= counts[id]
    BY <1>1 DEF IsPart
<1> HIDE DEF at
<1>3. QED BY <1>1, <1>2

\* All of the counts are some of them.
LEMMA WholeIsPart == ASSUME NEW counts PROVE IsPart(counts, counts)
BY DEF IsPart

\* A file that is left incomplete has some of the counts that were to be written.
LEMMA BrokenIsPart ==
    ASSUME NEW counts, NEW format, NEW content \in Broken(counts, format) PROVE IsPart(content.counts, counts)
<1> DEFINE row(S) == [counts |-> Restrict(counts, S), state |-> "broken"]
           rows == {row(S) : S \in (SUBSET DOMAIN counts) \ {DOMAIN counts}}
           some(S, k, n) == [id \in S \cup {k} |-> IF id = k THEN n ELSE counts[id]]
           cut(S, k, n) == [counts |-> some(S, k, n), state |-> "broken"]
           starts(n) == {n \div tens : tens \in PowersOfTen} \ {0}
           others(k) == SUBSET (DOMAIN counts \ {k})
           cutsOf(k) == UNION {{cut(S, k, n) : S \in others(k)} : n \in starts(counts[k])}
           cuts == UNION {cutsOf(k) : k \in DOMAIN counts}
<1>1. Broken(counts, format) = {[counts |-> <<>>, state |-> "unreadable"]}
                                   \cup IF format = "csv" THEN rows \cup cuts ELSE {}
    BY Zenon DEF Broken
<1>2. ASSUME content \in rows PROVE IsPart(content.counts, counts)
    <2>1. PICK S \in SUBSET DOMAIN counts : content = row(S)
        BY <1>2
    <2>2. content.counts = Restrict(counts, S)
        BY <2>1
    <2>3. QED BY <2>2 DEF IsPart, Restrict
<1>3. ASSUME content \in cuts PROVE IsPart(content.counts, counts)
    <2>1. PICK d \in DOMAIN counts : content \in cutsOf(d)
        BY <1>3
    <2> DEFINE N == starts(counts[d])
    <2>2. \E n \in N : content \in {cut(S, d, n) : S \in others(d)}
        <3> HIDE DEF N
        <3>1. content \in UNION {{cut(S, d, n) : S \in others(d)} : n \in N}
            BY <2>1 DEF N
        <3>2. QED BY <3>1
    <2>3. PICK n \in N : content \in {cut(S, d, n) : S \in others(d)}
        BY <2>2
    <2>4. counts[d] \in Nat => n \in Nat /\ n <= counts[d]
        <3>1. PICK tens \in PowersOfTen : n = counts[d] \div tens
            BY <2>3
        <3>2. ASSUME NEW m \in Nat PROVE m \div tens \in Nat /\ m \div tens <= m
            BY <3>1 DEF PowersOfTen
        <3> HIDE DEF N
        <3>3. QED BY <3>1, <3>2
    <2> HIDE DEF N
    <2>5. PICK S \in others(d) : content = cut(S, d, n)
        BY <2>3
    <2>6. content.counts = some(S, d, n)
        BY <2>5
    <2>7. QED BY <2>4, <2>6 DEF IsPart
<1> HIDE DEF rows, cuts
<1>4. content = [counts |-> <<>>, state |-> "unreadable"] \/ content \in rows \/ content \in cuts
    BY <1>1
<1>5. ASSUME content = [counts |-> <<>>, state |-> "unreadable"] PROVE IsPart(content.counts, counts)
    BY <1>5 DEF IsPart
<1>6. QED BY <1>2, <1>3, <1>4, <1>5

\* What a session counts is counted.
LEMMA SessionCounts ==
    ASSUME NEW s \in Sessions PROVE CountedFiles({s}) \subseteq Counted
BY DEF Counted, CountedFiles

\* A graph that the session counts has a stem of the session.
LEMMA StemOfCounted ==
    ASSUME NEW s, NEW g \in CountedFiles({s}) PROVE IsStem(s, g.stem)
BY DEF IsStem

\* The graphs of a library, in the order of the directory, are some of the session.
LEMMA SessionListing ==
    ASSUME NEW s \in Sessions, NEW c \in Commands(s), c.run \in {"preprocess", "filter"}, NeedsLibrary(c),
           NEW names \in load_library(c)
    PROVE  names \in Seq(CountedFiles({s}))
<1>1. c.input \in DOMAIN Inputs
    BY EnumerationsAssumption
<1>2. DOMAIN Inputs[c.input] \subseteq CountedFiles({s})
    BY DEF CountedFiles
<1>3. names \in SetToSeqs(DOMAIN Inputs[c.input])
    BY DEF load_library
<1>4. Cardinality(DOMAIN Inputs[c.input]) \in Nat
    BY <1>1, InputsAssumption, FS_CardinalityType
<1>5. names \in [1 .. Cardinality(DOMAIN Inputs[c.input]) -> DOMAIN Inputs[c.input]]
    BY <1>3 DEF SetToSeqs
<1>6. names \in [1 .. Cardinality(DOMAIN Inputs[c.input]) -> CountedFiles({s})]
    BY <1>2, <1>5
<1> DEFINE T == CountedFiles({s})
<1>7. names \in [1 .. Cardinality(DOMAIN Inputs[c.input]) -> T]
    BY <1>6
<1> HIDE DEF T
<1>8. names \in Seq(T)
    BY <1>4, <1>7
<1>9. QED BY <1>8 DEF T

\* What is loaded goes by the stem of a graph of the session, and has some of its counts.
LEMMA ReadIsPart ==
    ASSUME NEW s \in Sessions, FilesAreOf(s), StemsDiffer(Sessions), NEW kind \in Kinds, NEW dir, NEW format,
           NEW n \in DOMAIN read(dir, <<kind>>, format)
    PROVE  IsStem(s, n) /\ IsPart(read(dir, <<kind>>, format)[n], preprocess_graph[kind][FileNamed(n)])
<1> DEFINE matching == MatchingFiles(dir, <<kind>>, format)
           r == read(dir, <<kind>>, format)
           file == CHOOSE f \in matching : graph_name(f, <<kind>>) = n
<1>1. r = [m \in {graph_name(f, <<kind>>) : f \in matching} |->
              files[CHOOSE f \in matching : graph_name(f, <<kind>>) = m].counts]
    BY DEF read
<1>2. \E f \in matching : graph_name(f, <<kind>>) = n
    BY <1>1
<1>3. r[n] = files[file].counts
    BY <1>1, <1>2
<1>4. file \in matching /\ graph_name(file, <<kind>>) = n
    BY <1>2
<1> HIDE DEF r, file
<1>5. file \in DOMAIN files /\ IsPrefix(<<kind>>, file.name)
    BY <1>4 DEF MatchingFiles
<1>6. PICK k \in Kinds, g \in CountedFiles({s}) :
          file.name = per_graph_cache_name(k, g) /\ IsPart(files[file].counts, preprocess_graph[k][g])
    BY <1>5 DEF FilesAreOf, IsPartOf
<1>7. g \in Counted
    BY SessionCounts
<1>8. k = kind /\ n = g.stem
    BY <1>4, <1>5, <1>6, <1>7, NamedByStem
<1>9. FileNamed(n) = g
    BY <1>7, <1>8, StemIsOf
<1>10. QED BY <1>3, <1>6, <1>8, <1>9, StemOfCounted DEF r

-----------------------------------------------------------------------------
(* Runs over enumerations: the steps that keep it so.                      *)

\* What a run that goes on with its command leaves as it was.
LEMMA SafeGoesOn ==
    ASSUME NEW s, SafeIn(s), FilesGrow, InRun, InRun', run'.command = run.command,
           session' = session, results' = results,
           run'.library = run.library, ToSet(run'.stages) \subseteq ToSet(run.stages),
           run'.pc = "filter" => Command.run = "filter"
    PROVE  CommandsAreOf(s)' /\ LibraryIsOf(s)' /\ VerdictsAreSafe(s)'
<1>1. Command' = Command
    BY DEF Command
<1>2. CommandsAreOf(s)'
    BY <1>1 DEF SafeIn, CommandsAreOf
<1>3. LibraryIsOf(s)'
    BY <1>1 DEF SafeIn, LibraryIsOf
<1>4. ASSUME NEW r \in DOMAIN results, NEW l \in DOMAIN results[r]
      PROVE  IsSafe(s, files', Command, r, l, results[r][l])
    <2>1. IsSafe(s, files, Command, r, l, results[r][l])
        BY DEF SafeIn, VerdictsAreSafe
    <2>2. IntactIn(files', r[1], r[2]) => IntactIn(files, r[1], r[2])
        BY IntactBefore
    <2>3. QED BY <2>1, <2>2 DEF IsSafe
<1>5. VerdictsAreSafe(s)'
    BY <1>1, <1>4 DEF VerdictsAreSafe
<1>6. QED BY <1>2, <1>3, <1>5

\* The same names of enumerations.
LEMMA NamesStay ==
    ASSUME NEW s, SafeIn(s), InRun, run.stages # <<>>, run'.names = run.names,
           DOMAIN run'.enumeration = DOMAIN run.enumeration
    PROVE  NamesAreOf(s)'
BY DEF SafeIn, NamesAreOf

\* A run that has enumerated nothing has no names to answer for.
LEMMA NoNames == ASSUME NEW s, run'.enumeration = <<>> PROVE NamesAreOf(s)'
<1>1. DOMAIN run'.enumeration = {}
    OBVIOUS
<1>2. QED BY <1>1 DEF NamesAreOf

\* Files that stay are what they were.
LEMMA FilesStayOf == ASSUME NEW s, FilesAreOf(s), files' = files PROVE FilesAreOf(s)'
BY DEF FilesAreOf, IsPartOf

\* A run that stops leaves nothing to say but of files and commands.
LEMMA StoppedIsSafe ==
    ASSUME NEW s, SafeIn(s), session' = session, run' = IdleRun, FilesAreOf(s)'
    PROVE  SafeIn(s)'
<1>1. ~InRun' /\ run'.pc # "filter"
    BY DEF InRun, IdleRun
<1>2. QED BY <1>1 DEF SafeIn, CommandsAreOf, LibraryIsOf, NamesAreOf, VerdictsAreSafe

\* A file that is written is one of the session.
LEMMA PutIsPart ==
    ASSUME NEW s, FilesAreOf(s), NEW x, NEW content, files' = Put(files, x, content),
           NEW kind \in Kinds, NEW g \in CountedFiles({s}), x.name = per_graph_cache_name(kind, g),
           IsPart(content.counts, preprocess_graph[kind][g])
    PROVE  FilesAreOf(s)'
<1>1. /\ DOMAIN files' = DOMAIN files \cup {x}
      /\ files'[x] = content
      /\ \A f \in DOMAIN files \ {x} : files'[f] = files[f]
    BY DEF Put
<1>2. ASSUME NEW f \in DOMAIN files' PROVE IsPartOf(s, f)'
    <2>1. CASE f = x
        BY <2>1, <1>1 DEF IsPartOf, per_graph_cache_name
    <2>2. CASE f # x
        <3>1. f \in DOMAIN files /\ files'[f] = files[f]
            BY <2>2, <1>1
        <3>2. IsPartOf(s, f)
            BY <3>1 DEF FilesAreOf
        <3>3. QED BY <3>1, <3>2 DEF IsPartOf, per_graph_cache_name
    <2>3. QED BY <2>1, <2>2
<1>3. QED BY <1>2 DEF FilesAreOf

\* The graph a run is at is one of the session.
LEMMA NextIsOfSession ==
    ASSUME NEW s, SafeIn(s), Ordinary, RunIs, Computing
    PROVE  run.names[NextGraph] \in CountedFiles({s})
<1>1. InRun /\ run.stages # <<>> /\ load_dir(Command, Kind) = NoDir
    BY ComputingIs
<1>2. Kind \in ToSet(run.stages)
    BY <1>1, StageParts DEF RunIs, Kind
<1>3. run.names = run.library /\ run.library \in Seq(CountedFiles({s}))
    BY <1>1, <1>2, NothingMixes, NamesOfComputed DEF SafeIn, LibraryIsOf
<1>4. run.enumeration \in Seq(ToSet(run.enumeration))
    BY <1>1 DEF RunIs
<1>5. Len(run.enumeration) \in Nat /\ NextGraph = Len(run.enumeration) + 1 /\ NextGraph <= Len(run.names)
    BY <1>4 DEF Computing, NextGraph
<1>6. NextGraph \in 1 .. Len(run.names) /\ run.names \in Seq(CountedFiles({s}))
    BY <1>3, <1>5
<1>7. QED BY <1>6

\* A run is given the enumeration of its next graph.
LEMMA EnumeratedIsSafe ==
    ASSUME NEW s, SafeIn(s), FilesGrow, FilesAreOf(s)', RunIs, InRun, run.stages # <<>>,
           session' = session, results' = results, NEW counts, run' = Enumerated(counts),
           IsStem(s, run.names[NextGraph].stem)
    PROVE  SafeIn(s)'
<1>1. /\ InRun' /\ run'.pc = "graphs"
      /\ run'.command = run.command /\ run'.stages = run.stages /\ run'.names = run.names
      /\ run'.library = run.library
      /\ Len(run.enumeration) \in Nat /\ DOMAIN run.enumeration = 1 .. Len(run.enumeration)
      /\ DOMAIN run'.enumeration = 1 .. NextGraph
    BY EnumeratedIs
<1>2. ASSUME NEW i \in 1 .. NextGraph PROVE IsStem(s, run.names[i].stem)
    <2>1. i = NextGraph \/ i \in DOMAIN run.enumeration
        BY <1>1 DEF NextGraph
    <2>2. QED BY <2>1 DEF SafeIn, NamesAreOf
<1>3. NamesAreOf(s)'
    BY <1>1, <1>2 DEF NamesAreOf, IsStem
<1>4. QED BY <1>1, <1>3, SafeGoesOn DEF SafeIn

\* A run that starts has the graphs of its session, and no verdicts.
LEMMA StartRunIsSafe ==
    ASSUME NEW s \in Sessions, SafeIn(s), StartRun
    PROVE  SafeIn(s)'
<1> DEFINE c == Head(session)
<1>1. /\ session # <<>> /\ c.run \in {"preprocess", "filter"} /\ files' = files /\ session' = Tail(session)
      /\ results' = <<>>
    BY DEF StartRun
<1>2. c \in Commands(s) /\ Tail(session) \in Seq(Commands(s))
    <2> DEFINE T == Commands(s)
    <2>1. session \in Seq(T)
        BY DEF SafeIn, CommandsAreOf
    <2> HIDE DEF T
    <2>2. c \in T /\ Tail(session) \in Seq(T)
        BY <1>1, <2>1
    <2>3. QED BY <2>2 DEF T
<1>3. PICK names \in load_library(c) :
          run' = [pc |-> "graphs", command |-> c, stages |-> stages(c), names |-> names, library |-> names,
                  enumeration |-> <<>>, pending |-> <<>>]
    BY DEF StartRun
<1> HIDE DEF c
<1>4. /\ run'.pc = "graphs" /\ Command' = c /\ run'.stages = stages(c)
      /\ run'.library = names /\ run'.enumeration = <<>>
    BY <1>3 DEF Command
<1>5. CommandsAreOf(s)'
    BY <1>1, <1>2, <1>4 DEF CommandsAreOf
<1>6. FilesAreOf(s)'
    BY <1>1, FilesStayOf DEF SafeIn
<1>7. LibraryIsOf(s)'
    <2> SUFFICES ASSUME NEW kind \in ToSet(stages(c)), load_dir(c, kind) = NoDir
                 PROVE  names \in Seq(CountedFiles({s}))
        BY <1>4 DEF LibraryIsOf
    <2>1. NeedsLibrary(c)
        BY DEF NeedsLibrary
    <2>2. QED BY <2>1, <1>1, <1>2, SessionListing
<1>8. NamesAreOf(s)'
    BY <1>4, NoNames
<1>9. DOMAIN results' = {}
    BY <1>1
<1>10. VerdictsAreSafe(s)'
    BY <1>9 DEF VerdictsAreSafe
<1>11. QED BY <1>5, <1>6, <1>7, <1>8, <1>10 DEF SafeIn

\* Whatever file answers, it answers for a graph of the session.
LEMMA CacheHitIsSafe ==
    ASSUME NEW s \in Sessions, SafeIn(s), Ordinary, EnumerationInv, CacheHit
    PROVE  SafeIn(s)'
<1>1. Computing /\ files' = files /\ results' = results /\ session' = session
    BY DEF CacheHit
<1>2. PICK f : run' = Enumerated(files[f].counts)
    BY DEF CacheHit
<1>3. InRun /\ run.stages # <<>>
    BY <1>1, ComputingIs DEF EnumerationInv
<1>4. IsStem(s, run.names[NextGraph].stem)
    BY <1>1, NextIsOfSession, StemOfCounted DEF EnumerationInv
<1>5. FilesGrow /\ FilesAreOf(s)'
    BY <1>1, FilesStayOf DEF FilesGrow, SafeIn
<1>6. QED BY <1>1, <1>2, <1>3, <1>4, <1>5, EnumeratedIsSafe DEF EnumerationInv

\* A graph that is computed is one of the session.
LEMMA ComputeIsSafe ==
    ASSUME NEW s \in Sessions, SafeIn(s), Ordinary, EnumerationInv, Compute
    PROVE  SafeIn(s)'
<1> DEFINE counts == preprocess_graph[Kind][run.library[NextGraph]]
<1>1. /\ Computing /\ files' = files /\ results' = results /\ session' = session
      /\ NextGraph \in DOMAIN run.library
      /\ write_dir(Command) = NoDir \/ CacheFile(NextGraph) \notin DOMAIN files
      /\ run' = IF write_dir(Command) = NoDir THEN Enumerated(counts)
                ELSE [run EXCEPT !.pc = "write", !.pending = counts]
    BY DEF Compute
<1>2. InRun /\ run.stages # <<>> /\ RunIs
    BY <1>1, ComputingIs DEF EnumerationInv
<1>3. FilesGrow /\ FilesAreOf(s)'
    BY <1>1, FilesStayOf DEF FilesGrow, SafeIn
<1>4. CASE write_dir(Command) = NoDir
    <2>1. IsStem(s, run.names[NextGraph].stem)
        BY <1>1, <1>2, NextIsOfSession, StemOfCounted
    <2>2. QED BY <2>1, <1>1, <1>2, <1>3, <1>4, EnumeratedIsSafe
<1>5. CASE write_dir(Command) # NoDir
    <2>1. /\ InRun' /\ run'.command = run.command /\ run'.stages = run.stages /\ run'.names = run.names
          /\ run'.enumeration = run.enumeration
        BY <1>1, <1>2, <1>5, WaitKeeps
    <2>2. DOMAIN run = RunFields
        BY <1>2 DEF RunIs
    <2>3. run'.library = run.library /\ run'.pc = "write"
        BY <1>1, <1>5, <2>2 DEF RunFields
    <2>4. NamesAreOf(s)'
        BY <2>1, <1>2, NamesStay
    <2>5. QED BY <2>1, <2>3, <2>4, <1>1, <1>2, <1>3, SafeGoesOn DEF SafeIn
<1>6. QED BY <1>4, <1>5

\* A file gets some of the counts of its graph, whether it is finished or not.
LEMMA WriteIsSafe ==
    ASSUME NEW s \in Sessions, SafeIn(s), Ordinary, EnumerationInv, run.pc = "write", results' = results,
           session' = session, NEW content, files' = Put(files, CacheFile(NextGraph), content),
           IsPart(content.counts, run.pending),
           run' = IdleRun \/ run' = Enumerated(run.pending)
    PROVE  SafeIn(s)'
<1> DEFINE g == run.library[NextGraph]
<1>1. /\ InRun /\ run.stages # <<>> /\ WaitingIs /\ Kind \in Kinds /\ run.names = run.library
      /\ CacheFile(NextGraph).name = per_graph_cache_name(Kind, g)
    BY WaitingFor DEF EnumerationInv
<1>2. /\ load_dir(Command, Kind) = NoDir /\ NextGraph \in DOMAIN run.library
      /\ CacheFile(NextGraph) \notin DOMAIN files /\ run.pending = preprocess_graph[Kind][g]
    BY <1>1 DEF WaitingIs
<1>3. Kind \in ToSet(run.stages)
    BY <1>1, StageParts DEF EnumerationInv, RunIs, Kind
<1>4. g \in CountedFiles({s})
    <2> DEFINE T == CountedFiles({s})
    <2>1. run.library \in Seq(T)
        BY <1>1, <1>2, <1>3 DEF SafeIn, LibraryIsOf
    <2> HIDE DEF T
    <2>2. g \in T
        BY <2>1, <1>2
    <2>3. QED BY <2>2 DEF T
<1>5. FilesAreOf(s)'
    BY <1>1, <1>2, <1>4, PutIsPart DEF SafeIn
<1>6. FilesGrow
    BY <1>2 DEF FilesGrow, Put
<1>7. CASE run' = IdleRun
    BY <1>5, <1>7, StoppedIsSafe
<1>8. CASE run' = Enumerated(run.pending)
    <2>1. IsStem(s, run.names[NextGraph].stem)
        BY <1>1, <1>4, StemOfCounted
    <2>2. QED BY <2>1, <1>1, <1>5, <1>6, <1>8, EnumeratedIsSafe DEF EnumerationInv
<1>9. QED BY <1>7, <1>8

\* The enumerations that are loaded go by stems of the session.
LEMMA LoadIsSafe ==
    ASSUME NEW s \in Sessions, SafeIn(s), Ordinary, EnumerationInv, LoadEnumeration
    PROVE  SafeIn(s)'
<1> DEFINE dir    == load_dir(Command, Kind)
           loaded == read(dir, <<Kind>>, Command.format)
<1>1. /\ InRun /\ Kind \in Kinds /\ dir # NoDir
      /\ InRun' /\ run'.command = run.command /\ run'.stages = run.stages /\ run'.library = run.library
      /\ \A i \in DOMAIN run'.enumeration : run'.names[i].stem \in DOMAIN loaded
    BY LoadingIs DEF EnumerationInv
<1>2. files' = files /\ results' = results /\ session' = session
    BY DEF LoadEnumeration
<1>3. \A n \in DOMAIN loaded : IsStem(s, n)
    BY <1>1, ReadIsPart DEF SafeIn, Ordinary
<1>4. Command.run = "filter"
    <2>1. Command.run # "preprocess"
        BY <1>1 DEF load_dir
    <2>2. QED BY <2>1, <1>1 DEF EnumerationInv, RunIs
<1> HIDE DEF loaded, dir
<1>5. NamesAreOf(s)'
    BY <1>1, <1>3 DEF NamesAreOf, IsStem
<1>6. FilesGrow /\ FilesAreOf(s)'
    BY <1>2, FilesStayOf DEF FilesGrow, SafeIn
<1>7. QED BY <1>1, <1>2, <1>4, <1>5, <1>6, SafeGoesOn DEF SafeIn

\* A run goes on to its next kind.
LEMMA NextStageIsSafe ==
    ASSUME NEW s, SafeIn(s), RunIs, InRun, run.stages # <<>>, files' = files, session' = session,
           results' = results,
           \/ run' = [run EXCEPT !.stages = Tail(@), !.enumeration = <<>>] /\ run.pc = "graphs"
           \/ run' = [run EXCEPT !.pc = "graphs", !.stages = Tail(@), !.enumeration = <<>>]
    PROVE  SafeIn(s)'
<1>1. InRun' /\ run'.command = run.command /\ run'.enumeration = <<>>
    BY NextStageKeeps
<1>2. DOMAIN run = RunFields
    BY DEF RunIs
<1>3. run'.library = run.library /\ run'.stages = Tail(run.stages) /\ run'.pc = "graphs"
    BY <1>2 DEF RunFields
<1>4. ToSet(run'.stages) \subseteq ToSet(run.stages)
    BY <1>3, StageParts DEF RunIs
<1>5. FilesGrow /\ FilesAreOf(s)'
    BY FilesStayOf DEF FilesGrow, SafeIn
<1>6. NamesAreOf(s)'
    BY <1>1, NoNames
<1>7. QED BY <1>1, <1>3, <1>4, <1>5, <1>6, SafeGoesOn DEF SafeIn

\* Enumerations that are all there are compared next, or the next kind is begun.
LEMMA DoneIsSafe ==
    ASSUME NEW s, SafeIn(s), EnumerationInv, EnumerationDone
    PROVE  SafeIn(s)'
<1>1. /\ InRun /\ run.stages # <<>> /\ run.pc = "graphs" /\ files' = files /\ results' = results
      /\ session' = session
    BY DEF EnumerationDone, InRun
<1>2. CASE Command.run = "preprocess"
    <2>1. run' = [run EXCEPT !.stages = Tail(@), !.enumeration = <<>>]
        BY <1>2 DEF EnumerationDone
    <2>2. QED BY <2>1, <1>1, NextStageIsSafe DEF EnumerationInv
<1>3. CASE Command.run # "preprocess"
    <2>1. run' = [run EXCEPT !.pc = "filter"]
        BY <1>3 DEF EnumerationDone
    <2>2. /\ InRun' /\ run'.command = run.command /\ run'.stages = run.stages
          /\ run'.names = run.names /\ run'.enumeration = run.enumeration
        BY <1>1, <2>1, FilterNextKeeps DEF EnumerationInv
    <2>3. DOMAIN run = RunFields /\ Command.run = "filter"
        BY <1>1, <1>3 DEF EnumerationInv, RunIs
    <2>4. run'.library = run.library
        BY <2>1, <2>3 DEF RunFields
    <2>5. FilesGrow /\ FilesAreOf(s)'
        BY <1>1, FilesStayOf DEF FilesGrow, SafeIn
    <2>6. NamesAreOf(s)'
        BY <1>1, <2>2, NamesStay
    <2>7. QED BY <1>1, <2>2, <2>3, <2>4, <2>5, <2>6, SafeGoesOn DEF SafeIn
<1>4. QED BY <1>2, <1>3

\* A library file that was cut short asks for less than its graph has, so what is discarded
\* by it would be discarded by the whole counts.
LEMMA FilterStageIsSafe ==
    ASSUME NEW s \in Sessions, SafeIn(s), Ordinary, EnumerationInv, VerdictInv, FilterStage
    PROVE  SafeIn(s)'
<1> DEFINE loaded   == read(library_dir(Command, Kind), <<Kind>>, Command.format)
           last(q)  == Max({i \in DOMAIN run.enumeration : run.names[i].stem = q})
           stems    == {run.names[i].stem : i \in DOMAIN run.enumeration}
           features(r) == post_process(Kind, run.enumeration[last(r[1])])
           answer(r) == [l \in DOMAIN loaded |-> can_be_filtered(features(r), loaded[l])]
           flags    == [r \in stems \X {Kind} |-> answer(r)]
<1>1. /\ run.pc = "filter" /\ files' = files /\ session' = session
      /\ run' = [run EXCEPT !.pc = "graphs", !.stages = Tail(@), !.enumeration = <<>>]
      /\ results' = [r \in DOMAIN results \cup DOMAIN flags |->
                        IF r \in DOMAIN flags THEN flags[r] ELSE results[r]]
    BY DEF FilterStage
<1>2. InRun /\ run.stages # <<>> /\ Kind \in Kinds /\ Kind \in ToSet(stages(Command)) /\ Command.run = "filter"
    <2>1. InRun /\ run.stages # <<>>
        BY <1>1 DEF InRun, EnumerationInv, RunIs
    <2>2. QED BY <1>1, <2>1, StageParts DEF EnumerationInv, RunIs, Kind, SafeIn, CommandsAreOf
<1>3. run'.command = run.command /\ run'.enumeration = <<>> /\ InRun'
    BY <1>1, <1>2, NextStageKeeps DEF EnumerationInv
<1>4. Command' = Command
    BY <1>3 DEF Command
<1>5. ASSUME NEW r \in DOMAIN flags, NEW l \in DOMAIN flags[r]
      PROVE  IsSafe(s, files, Command, r, l, flags[r][l])
    <2> DEFINE q == r[1]
    <2>1. r \in stems \X {Kind} /\ q \in stems /\ r[2] = Kind /\ flags[r] = answer(r)
        OBVIOUS
    <2>2. last(q) \in DOMAIN run.enumeration /\ run.names[last(q)].stem = q
        BY <1>2, <2>1, LastIs DEF EnumerationInv
    <2> HIDE DEF last
    <2>3. AreCountsOf(files, run.enumeration[last(q)], q, Kind)
        BY <1>2, <2>2 DEF VerdictInv, EnumerationIs
    <2>4. l \in DOMAIN loaded
        BY <2>1
    <2>5. IsStem(s, l) /\ IsPart(loaded[l], preprocess_graph[Kind][FileNamed(l)])
        BY <1>2, <2>4, ReadIsPart DEF SafeIn, Ordinary
    <2> HIDE DEF loaded
    <2>6. flags[r][l] = can_be_filtered(features(r), loaded[l])
        BY <2>1, <2>4
    <2>7. features(r) = PostProcessed(Command, Kind, run.enumeration[last(q)])
        BY DEF post_process, PostProcessed
    <2>8. IsStem(s, q)
        BY <1>2, <2>2 DEF SafeIn, NamesAreOf
    <2> HIDE DEF features, flags, q
    <2>9. q = r[1]
        BY DEF q
    <2>10. IntactIn(files, q, Kind) /\ flags[r][l] =>
              ~HasEnough(PostProcessed(Command, Kind, preprocess_graph[Kind][FileNamed(q)]),
                         preprocess_graph[Kind][FileNamed(l)])
        BY <2>3, <2>5, <2>6, <2>7, PartIsCovered DEF AreCountsOf
    <2>11. QED BY <1>2, <2>1, <2>5, <2>8, <2>9, <2>10 DEF IsSafe
<1>6. ASSUME NEW r \in DOMAIN results, NEW l \in DOMAIN results[r]
      PROVE  IsSafe(s, files, Command, r, l, results[r][l])
    BY <1>2 DEF SafeIn, VerdictsAreSafe
<1> HIDE DEF flags
<1>7. \A r \in DOMAIN results' : \A l \in DOMAIN results'[r] : IsSafe(s, files, Command, r, l, results'[r][l])
    BY <1>1, <1>5, <1>6
<1>8. VerdictsAreSafe(s)'
    BY <1>1, <1>4, <1>7 DEF VerdictsAreSafe
<1>9. DOMAIN run = RunFields
    BY <1>2 DEF EnumerationInv, RunIs
<1>10. run'.library = run.library /\ run'.stages = Tail(run.stages) /\ run'.pc = "graphs"
    BY <1>1, <1>9 DEF RunFields
<1>11. ToSet(run'.stages) \subseteq ToSet(run.stages)
    BY <1>2, <1>10, StageParts DEF EnumerationInv, RunIs
<1>12. CommandsAreOf(s)'
    BY <1>1, <1>2, <1>4, <1>10 DEF SafeIn, CommandsAreOf
<1>13. LibraryIsOf(s)'
    BY <1>2, <1>4, <1>10, <1>11 DEF SafeIn, LibraryIsOf
<1>14. FilesAreOf(s)' /\ NamesAreOf(s)'
    BY <1>1, <1>3, FilesStayOf, NoNames DEF SafeIn
<1>15. QED BY <1>8, <1>12, <1>13, <1>14 DEF SafeIn

\* Runs over enumerations discard what they may.
LEMMA SafeKept ==
    ASSUME NEW s \in Sessions, SafeIn(s), Ordinary, EnumerationInv, VerdictInv, EnumerationNext
    PROVE  SafeIn(s)'
<1>1. CASE StartRun
    BY <1>1, StartRunIsSafe
<1>2. CASE CacheHit
    BY <1>2, CacheHitIsSafe
<1>3. CASE Compute
    BY <1>3, ComputeIsSafe
<1>4. CASE WriteCache
    <2> DEFINE content == [counts |-> run.pending, state |-> "whole"]
    <2>1. /\ run.pc = "write" /\ files' = Put(files, CacheFile(NextGraph), content)
          /\ run' = Enumerated(run.pending) /\ results' = results /\ session' = session
        BY <1>4 DEF WriteCache
    <2>2. content.counts = run.pending
        OBVIOUS
    <2> HIDE DEF content
    <2>3. IsPart(content.counts, run.pending)
        BY <2>2, WholeIsPart
    <2>4. QED BY <2>1, <2>3, WriteIsSafe
<1>5. CASE WriteBreaks
    <2>1. /\ run.pc = "write" /\ (run' = IdleRun \/ run' = Enumerated(run.pending))
          /\ results' = results /\ session' = session
        BY <1>5 DEF WriteBreaks
    <2>2. PICK content \in Broken(run.pending, Command.format) : files' = Put(files, CacheFile(NextGraph), content)
        BY <1>5 DEF WriteBreaks
    <2>3. IsPart(content.counts, run.pending)
        BY BrokenIsPart
    <2>4. QED BY <2>1, <2>2, <2>3, WriteIsSafe
<1>6. CASE LoadEnumeration
    BY <1>6, LoadIsSafe
<1>7. CASE EnumerationDone
    BY <1>7, DoneIsSafe
<1>8. CASE FilterStage
    BY <1>8, FilterStageIsSafe
<1>9. CASE Finish \/ Abort
    <2>1. run' = IdleRun /\ files' = files /\ session' = session
        BY <1>9 DEF Finish, Abort
    <2>2. FilesAreOf(s)'
        BY <2>1, FilesStayOf DEF SafeIn
    <2>3. QED BY <2>1, <2>2, StoppedIsSafe
<1>10. QED BY <1>1, <1>2, <1>3, <1>4, <1>5, <1>6, <1>7, <1>8, <1>9 DEF EnumerationNext, RunStep

\* The runs of the other families take commands, and leave the rest alone.
LEMMA OthersTakeCommands ==
    ASSUME Next
    PROVE  \/ EnumerationNext
           \/ /\ UNCHANGED <<files, results, run>>
              /\ session' = session \/ (session # <<>> /\ session' = Tail(session))
<1>1. CASE PatternNext
    BY <1>1, PatternsLeaveFiles, PatternStepTakesCommands
<1>2. CASE LibraryNext /\ UNCHANGED <<files, results, run, patternVars>>
    BY <1>2, LoadsTakeCommands
<1>3. QED BY <1>1, <1>2 DEF Next

\* The invariant holds before the first command.
LEMMA SafeInitially == Init => SafeInv
<1> SUFFICES ASSUME Init PROVE SafeInv
    OBVIOUS
<1>1. files = <<>> /\ run = IdleRun /\ session \in Sessions
    BY DEF Init, EnumerationInit
<1>2. DOMAIN files = {} /\ ~InRun /\ run.pc # "filter"
    BY <1>1 DEF InRun, IdleRun
<1>3. CommandsAreOf(session)
    BY <1>1, <1>2, SessionsAssumption DEF CommandsAreOf
<1>4. SafeIn(session)
    BY <1>2, <1>3 DEF SafeIn, FilesAreOf, LibraryIsOf, NamesAreOf, VerdictsAreSafe
<1>5. QED BY <1>1, <1>4 DEF SafeInv

\* Every step of the program keeps it.
LEMMA SafeInvKept == Ordinary /\ EnumerationInv /\ VerdictInv /\ SafeInv /\ [Next]_vars => SafeInv'
<1> SUFFICES ASSUME Ordinary, EnumerationInv, VerdictInv, SafeInv, [Next]_vars PROVE SafeInv'
    OBVIOUS
<1>1. PICK s \in Sessions : SafeIn(s)
    BY DEF SafeInv
<1>2. CASE EnumerationNext
    BY <1>1, <1>2, SafeKept DEF SafeInv
<1>3. CASE /\ UNCHANGED <<files, results, run>>
           /\ session' = session \/ (session # <<>> /\ session' = Tail(session))
    <2> DEFINE T == Commands(s)
    <2>1. session \in Seq(T)
        BY <1>1 DEF SafeIn, CommandsAreOf
    <2> HIDE DEF T
    <2>2. session' \in Seq(T)
        BY <2>1, <1>3
    <2>3. CommandsAreOf(s)'
        BY <2>2, <1>1, <1>3 DEF T, SafeIn, CommandsAreOf, InRun, Command
    <2>4. FilesAreOf(s)'
        BY <1>1, <1>3, FilesStayOf DEF SafeIn
    <2>5. LibraryIsOf(s)' /\ NamesAreOf(s)' /\ VerdictsAreSafe(s)'
        BY <1>1, <1>3 DEF SafeIn, LibraryIsOf, NamesAreOf, VerdictsAreSafe, InRun, Command
    <2>6. QED BY <2>3, <2>4, <2>5 DEF SafeIn, SafeInv
<1>4. CASE UNCHANGED vars
    <2>1. UNCHANGED <<files, results, run>> /\ session' = session
        BY <1>4 DEF vars, enumerationVars
    <2>2. QED BY <2>1, <1>3
<1>5. QED BY <1>2, <1>3, <1>4, OthersTakeCommands

-----------------------------------------------------------------------------
(* Runs over enumerations: occurring graphs survive.                       *)

\* What the enumerations of a graph are.
LEMMA CountsAre ==
    ASSUME NEW f \in InputFiles
    PROVE  /\ preprocess_graph["motif_cache"][f] = MotifCounts(graph_of[f])
           /\ preprocess_graph["path_cache"][f] = PathCounts(graph_of[f])
<1> DEFINE counts(kind, file) ==
             LET g == graph_of[file] IN
             IF kind = "motif_cache"
             THEN CountsOf([S \in MotifGroups(g) |-> motif_identifier(g, S)])
             ELSE CountsOf([r \in RecordedPaths(g) |-> PathNumber(g, r[1], r[2][2])])
           both == [kind \in {"path_cache", "motif_cache"} |-> [file \in InputFiles |-> counts(kind, file)]]
<1>1. preprocess_graph = Table(both)
    BY DEF preprocess_graph
<1>2. counts("motif_cache", f) = MotifCounts(graph_of[f])
    BY DEF MotifCounts
<1>3. counts("path_cache", f) = PathCounts(graph_of[f])
    BY DEF PathCounts, PathNumberOf
<1> HIDE DEF counts
<1>4. both["motif_cache"][f] = counts("motif_cache", f) /\ both["path_cache"][f] = counts("path_cache", f)
    OBVIOUS
<1> HIDE DEF both
<1>5. QED BY <1>1, <1>2, <1>3, <1>4, TableIs

\* Does a graph occur in another?
LEMMA OccursIs ==
    ASSUME NEW induced \in BOOLEAN, NEW l \in InputFiles, NEW q \in InputFiles, <<l, q>> \in Occurs[induced]
    PROVE  \E o : OccursAt(o, graph_of[l], graph_of[q], induced)
<1> DEFINE pairs(i) == {e \in InputFiles \X InputFiles : Embeddings(graph_of[e[1]], graph_of[e[2]], i) # {}}
           both == [i \in BOOLEAN |-> pairs(i)]
<1>1. Occurs = Table(both)
    BY Zenon DEF Occurs
<1> HIDE DEF pairs
<1>2. both[induced] = pairs(induced)
    OBVIOUS
<1> HIDE DEF both
<1>3. <<l, q>> \in pairs(induced)
    BY <1>1, <1>2, TableIs
<1>4. Embeddings(graph_of[l], graph_of[q], induced) # {}
    BY <1>3 DEF pairs
<1>5. QED BY <1>4, OccurrenceIs

\* A stem of a session names a graph of it.
LEMMA StemNames ==
    ASSUME NEW s \in Sessions, StemsDiffer(Sessions), NEW stem, IsStem(s, stem)
    PROVE  FileNamed(stem) \in CountedFiles({s}) /\ FileNamed(stem) \in InputFiles
<1>1. PICK g \in CountedFiles({s}) : g.stem = stem
    BY DEF IsStem
<1>2. g \in Counted
    BY SessionCounts
<1>3. FileNamed(stem) = g
    BY <1>1, <1>2, StemIsOf
<1>4. QED BY <1>2, <1>3, CountedIs

\* The kinds of a command are those it asks for.
LEMMA StageIsAsked ==
    ASSUME NEW c, NEW kind \in ToSet(stages(c))
    PROVE  /\ kind \in {"path_cache", "motif_cache"}
           /\ kind = "path_cache" => c.paths
           /\ kind = "motif_cache" => c.motifs
<1> DEFINE a == IF c.paths THEN <<"path_cache">> ELSE <<>>
           b == IF c.motifs THEN <<"motif_cache">> ELSE <<>>
<1>1. stages(c) = a \o b
    BY DEF stages
<1>2. a = (IF c.paths THEN <<"path_cache">> ELSE <<>>) /\ b = (IF c.motifs THEN <<"motif_cache">> ELSE <<>>)
    OBVIOUS
<1> HIDE DEF a, b
<1>3. /\ a \in Seq(Kinds) /\ \A i \in 1 .. Len(a) : a[i] = "path_cache" /\ c.paths
      /\ b \in Seq(Kinds) /\ \A i \in 1 .. Len(b) : b[i] = "motif_cache" /\ c.motifs
    <2>1. "path_cache" \in Kinds /\ "motif_cache" \in Kinds
        BY DEF Kinds
    <2>2. <<"path_cache">> \in Seq(Kinds) /\ <<"motif_cache">> \in Seq(Kinds) /\ <<>> \in Seq(Kinds)
        BY <2>1
    <2>3. CASE c.paths /\ c.motifs
        BY <2>2, <2>3, <1>2
    <2>4. CASE c.paths /\ ~c.motifs
        BY <2>2, <2>4, <1>2
    <2>5. CASE ~c.paths /\ c.motifs
        BY <2>2, <2>5, <1>2
    <2>6. CASE ~c.paths /\ ~c.motifs
        BY <2>2, <2>6, <1>2
    <2>7. QED BY <2>3, <2>4, <2>5, <2>6
<1>4. PICK i \in DOMAIN (a \o b) : kind = (a \o b)[i]
    BY <1>1 DEF ToSet
<1>5. \/ i \in 1 .. Len(a) /\ kind = a[i]
      \/ i - Len(a) \in 1 .. Len(b) /\ kind = b[i - Len(a)]
    BY <1>3, <1>4
<1>6. QED BY <1>3, <1>5

\* What a file holds: a graph of the session's direction, without loops, whose vertices
\* and colours are numbers.
LEMMA SessionGraphIs ==
    ASSUME NEW s \in Sessions, NEW f \in CountedFiles({s}), NEW directed \in BOOLEAN,
           graph_of[f].directed = directed
    PROVE  /\ IsFiniteSet(Vertices(graph_of[f]))
           /\ Known(graph_of[f], directed) /\ NoLoops(graph_of[f])
           /\ \A v \in Vertices(graph_of[f]) : get_vertex_color(graph_of[f], v) \in Nat
           /\ ~directed => IsNumbered(graph_of[f])
<1> DEFINE g == graph_of[f]
<1>1. f \in InputFiles
    BY SessionCounts, CountedIs
<1>2. IsColoredGraph(g)
    BY <1>1, FilesHoldGraphs DEF IsGraph
<1>3. \A v \in Vertices(g) : get_vertex_color(g, v) \in Nat
    BY <1>1, ColorsAssumption
<1> HIDE DEF g
<1>4. IsFiniteSet(Vertices(g)) /\ vertex_count(g) \in Nat /\ Vertices(g) = 0 .. vertex_count(g) - 1
    BY <1>2, FS_CardinalityType DEF IsColoredGraph, vertex_count
<1>5. NoLoops(g)
    BY <1>2 DEF IsColoredGraph, NoLoops, is_edge
<1>6. g.directed = directed
    BY DEF g
<1>7. Known(g, directed)
    BY <1>2, <1>6 DEF Known, IsColoredGraph
<1>8. ~directed => IsNumbered(g)
    BY <1>3, <1>4, <1>6 DEF IsNumbered
<1>9. QED BY <1>3, <1>4, <1>5, <1>7, <1>8 DEF g

\* Where the conditions on a session hold, its comparisons discard no graph that occurs.
LEMMA OccurringIsKept ==
    ASSUME NEW s \in Sessions, StemsDiffer(Sessions), DirectionsAgree(s), ExpansionsFit(s),
           NEW fs, NEW c \in Commands(s), NEW r, NEW l, NEW verdict,
           IsSafe(s, fs, c, r, l, verdict), IntactIn(fs, r[1], r[2]), verdict
    PROVE  <<FileNamed(l), FileNamed(r[1])>> \notin Occurs[r[2] = "motif_cache" /\ ~c.non_induced]
<1> DEFINE lf == FileNamed(l)
           qf == FileNamed(r[1])
           kind == r[2]
           induced == kind = "motif_cache" /\ ~c.non_induced
<1>1. /\ c.run = "filter" /\ kind \in ToSet(stages(c)) /\ IsStem(s, r[1]) /\ IsStem(s, l)
      /\ ~HasEnough(PostProcessed(c, kind, preprocess_graph[kind][qf]), preprocess_graph[kind][lf])
    BY DEF IsSafe
<1>2. PICK directed \in BOOLEAN :
        /\ \A f \in CountedFiles({s}) : graph_of[f].directed = directed
        /\ c.is_directed = directed /\ (directed => ~c.paths)
    BY <1>1 DEF DirectionsAgree
<1>3. lf \in CountedFiles({s}) /\ lf \in InputFiles /\ qf \in CountedFiles({s}) /\ qf \in InputFiles
    BY <1>1, StemNames
<1> HIDE DEF lf, qf
<1>4. SUFFICES ASSUME <<lf, qf>> \in Occurs[induced] PROVE FALSE
    BY DEF lf, qf
<1>5. induced \in BOOLEAN
    OBVIOUS
<1> DEFINE L == graph_of[lf]
           Q == graph_of[qf]
<1>6. \E o : OccursAt(o, L, Q, induced)
    <2> HIDE DEF induced
    <2>1. QED BY <1>3, <1>4, <1>5, OccursIs
<1>7. PICK o : OccursAt(o, L, Q, induced)
    BY <1>6
<1>8. /\ IsFiniteSet(Vertices(L)) /\ Known(L, directed)
      /\ \A v \in Vertices(L) : get_vertex_color(L, v) \in Nat
      /\ ~directed => IsNumbered(L)
    BY <1>2, <1>3, SessionGraphIs
<1>9. /\ IsFiniteSet(Vertices(Q)) /\ Known(Q, directed) /\ NoLoops(Q)
      /\ \A v \in Vertices(Q) : get_vertex_color(Q, v) \in Nat
      /\ ~directed => IsNumbered(Q)
    BY <1>2, <1>3, SessionGraphIs
<1>10. /\ preprocess_graph["motif_cache"][lf] = MotifCounts(L) /\ preprocess_graph["path_cache"][lf] = PathCounts(L)
       /\ preprocess_graph["motif_cache"][qf] = MotifCounts(Q) /\ preprocess_graph["path_cache"][qf] = PathCounts(Q)
    BY <1>3, CountsAre
<1>11. /\ kind \in {"path_cache", "motif_cache"}
       /\ kind = "path_cache" => c.paths
       /\ kind = "motif_cache" => c.motifs
    BY <1>1, StageIsAsked
<1> HIDE DEF L, Q
<1>12. CASE kind = "path_cache"
    <2>1. IsNumbered(L) /\ IsNumbered(Q)
        BY <1>2, <1>8, <1>9, <1>11, <1>12
    <2>2. HasEnough(PathCounts(Q), PathCounts(L))
        <3> HIDE DEF induced
        <3>1. QED BY <2>1, <1>7, OccurrenceHasNoMorePaths
    <2>3. PostProcessed(c, kind, PathCounts(Q)) = PathCounts(Q)
        BY <1>12 DEF PostProcessed
    <2>4. QED BY <2>2, <2>3, <1>1, <1>10, <1>12
<1>13. CASE kind = "motif_cache" /\ ~c.non_induced
    <2>1. OccursAt(o, L, Q, TRUE)
        BY <1>7, <1>13 DEF OccursAt
    <2>2. HasEnough(MotifCounts(Q), MotifCounts(L))
        BY <2>1, <1>8, <1>9, InducedHasNoMore
    <2>3. PostProcessed(c, kind, MotifCounts(Q)) = MotifCounts(Q)
        BY <1>13 DEF PostProcessed
    <2>4. QED BY <2>2, <2>3, <1>1, <1>10, <1>13
<1>14. CASE kind = "motif_cache" /\ c.non_induced
    <2>1. OccursAt(o, L, Q, FALSE)
        BY <1>7, <1>14 DEF OccursAt
    <2>2. ExpansionFits(MotifCounts(Q), directed)
        BY <1>1, <1>2, <1>3, <1>10, <1>11, <1>14 DEF ExpansionsFit
    <2>3. HasEnough(expand(MotifCounts(Q), directed), MotifCounts(L))
        BY <2>1, <2>2, <1>8, <1>9, OccurringHasNoMore
    <2>4. PostProcessed(c, kind, MotifCounts(Q)) = expand(MotifCounts(Q), directed)
        BY <1>2, <1>14 DEF PostProcessed
    <2>5. QED BY <2>3, <2>4, <1>1, <1>10, <1>14
<1>15. QED BY <1>11, <1>12, <1>13, <1>14

\* Filtering is safe, for all libraries and all sessions whose graphs have stems that tell
\* them apart and one direction, which the commands know, and no run of which loads its
\* paths and computes its motifs or expands counts beyond 2^32: a graph that occurs in a
\* query graph is not discarded, whatever runs were stopped before, and though its own
\* cache file was cut short.
THEOREM OccurringGraphsSurvive ==
    ASSUME Ordinary, \A s \in Sessions : DirectionsAgree(s) /\ ExpansionsFit(s)
    PROVE  Spec => []FilteringIsSafe
<1>1. EnumerationInv /\ SafeInv => FilteringIsSafe
    <2> SUFFICES ASSUME EnumerationInv, SafeInv, run # IdleRun,
                        NEW r \in DOMAIN results, Intact(r[1], r[2]),
                        NEW l \in DOMAIN results[r], results[r][l]
                 PROVE  <<FileNamed(l), FileNamed(r[1])>> \notin Occurs[r[2] = "motif_cache" /\ ~Command.non_induced]
        BY DEF FilteringIsSafe
    <2>1. PICK s \in Sessions : SafeIn(s)
        BY DEF SafeInv
    <2>2. InRun
        BY DEF EnumerationInv, RunIs
    <2>3. Command \in Commands(s) /\ IsSafe(s, files, Command, r, l, results[r][l])
        BY <2>1, <2>2 DEF SafeIn, CommandsAreOf, VerdictsAreSafe
    <2>4. IntactIn(files, r[1], r[2])
        BY DEF Intact, IntactIn
    <2>5. QED BY <2>3, <2>4, OccurringIsKept DEF Ordinary
<1>2. Ordinary /\ EnumerationInv /\ VerdictInv /\ SafeInv /\ [Next]_vars => SafeInv'
    BY SafeInvKept
<1>3. Ordinary /\ EnumerationInv /\ VerdictInv /\ [Next]_vars => VerdictInv'
    BY VerdictInvKept
<1>4. Spec => []VerdictInv
    BY <1>3, EnumerationInitially, EnumerationInvariant, PTL DEF Spec
<1>5. Spec => []SafeInv
    BY <1>2, <1>4, SafeInitially, EnumerationInvariant, PTL DEF Spec
<1>6. QED BY <1>1, <1>5, EnumerationInvariant, PTL

-----------------------------------------------------------------------------
(* Types.                                                                  *)

FilesHoldCounts ==
    \A f \in DOMAIN files : IsCounts(files[f].counts) /\ files[f].state \in {"whole", "broken", "unreadable"}

ResultsAreFlags == \A r \in DOMAIN results : results[r] \in [DOMAIN results[r] -> BOOLEAN]

\* There is a name for every enumeration, and for the one that waits.
RunHasCounts ==
    InRun =>
        /\ IsSuffix(run.stages, stages(Command))
        /\ run.library \in Seq(InputFiles)
        /\ Len(run.names) \in Nat /\ Len(run.enumeration) <= Len(run.names)
        /\ \A i \in DOMAIN run.enumeration : IsCounts(run.enumeration[i])
        /\ run.pc = "write" => IsCounts(run.pending) /\ NextGraph <= Len(run.names)

\* What a command sequence has left is its end.
SessionIsLeft == \E s \in Sessions : IsSuffix(session, s)

\* So is what a run over patterns has still to search; it has outputs while it writes.
PhasesAreLeft ==
    InPatternRun =>
        /\ IsSuffix(job.phases, phases(job.command))
        /\ job.pc # "write" => job.outputs = <<>>

VerdictsAreFlags == \A b \in DOMAIN verdicts : verdicts[b] \in [DOMAIN verdicts[b] -> BOOLEAN]

MapsHaveStates == \A f \in DOMAIN map_files : map_files[f].state \in {"whole", "altered", "torn", "unreadable"}

\* One run at a time.
OneAtATime ==
    /\ run = IdleRun \/ job = NoJob
    /\ loading = NotLoading \/ (run = IdleRun /\ job = NoJob)

\* What a filter walks through is finite.
StoreIsFinite == \A s \in DOMAIN store : IsFiniteSet(DOMAIN store[s].index)

CacheIsFinite == job.pc = "filter" => IsFiniteSet(DOMAIN job.cache) /\ DOMAIN job.cache \subseteq Int

EnumerationTypes == FilesHoldCounts /\ ResultsAreFlags /\ RunHasCounts

PatternTypes == PhasesAreLeft /\ VerdictsAreFlags /\ StoreIsFinite /\ CacheIsFinite

TypeInv == EnumerationTypes /\ PatternTypes /\ SessionIsLeft /\ MapsHaveStates /\ OneAtATime

\* Suffixes, place by place.
LEMMA SuffixIs ==
    ASSUME NEW T, NEW s \in Seq(T), NEW t \in Seq(T)
    PROVE  IsSuffix(s, t) <=> Len(s) <= Len(t) /\ \A i \in 1 .. Len(s) : s[i] = t[i + (Len(t) - Len(s))]
<1> DEFINE m == Len(s)
           n == Len(t)
           u == Reverse(s)
           v == Reverse(t)
<1>1. m \in Nat /\ n \in Nat
    OBVIOUS
<1>2. /\ u = [i \in 1 .. m |-> s[(m - i) + 1]] /\ Len(u) = m /\ DOMAIN u = 1 .. m
      /\ v = [i \in 1 .. n |-> t[(n - i) + 1]] /\ Len(v) = n /\ DOMAIN v = 1 .. n
    BY <1>1 DEF Reverse
<1> HIDE DEF u, v
<1>3. IsSuffix(s, t) <=> m <= n /\ SubSeq(u, 1, m) = SubSeq(v, 1, m)
    BY <1>2 DEF IsSuffix, IsPrefix, u, v
<1>4. CASE m <= n
    <2>1. /\ SubSeq(u, 1, m) = [i \in 1 .. m |-> u[i]] /\ SubSeq(v, 1, m) = [i \in 1 .. m |-> v[i]]
        BY <1>1 DEF SubSeq
    <2>2. SubSeq(u, 1, m) = SubSeq(v, 1, m) <=> \A i \in 1 .. m : u[i] = v[i]
        BY <2>1
    <2>3. \A i \in 1 .. m : u[i] = s[(m - i) + 1] /\ v[i] = t[(n - i) + 1]
        <3> HIDE DEF m, n
        <3>1. \A i \in 1 .. m : i \in 1 .. n
            BY <1>1, <1>4
        <3>2. QED BY <3>1, <1>2
    <2>4. ASSUME \A i \in 1 .. m : s[(m - i) + 1] = t[(n - i) + 1], NEW i \in 1 .. m
          PROVE  s[i] = t[i + (n - m)]
        <3>1. (m - i) + 1 \in 1 .. m /\ (m - ((m - i) + 1)) + 1 = i /\ (n - ((m - i) + 1)) + 1 = i + (n - m)
            BY <1>1
        <3> HIDE DEF m, n
        <3>2. QED BY <2>4, <3>1
    <2>5. ASSUME \A i \in 1 .. m : s[i] = t[i + (n - m)], NEW i \in 1 .. m
          PROVE  s[(m - i) + 1] = t[(n - i) + 1]
        <3>1. (m - i) + 1 \in 1 .. m /\ ((m - i) + 1) + (n - m) = (n - i) + 1
            BY <1>1
        <3> HIDE DEF m, n
        <3>2. QED BY <2>5, <3>1
    <2>6. QED BY <1>3, <1>4, <2>2, <2>3, <2>4, <2>5
<1>5. QED BY <1>3, <1>4

LEMMA SelfIsSuffix == ASSUME NEW T, NEW s \in Seq(T) PROVE IsSuffix(s, s)
<1>1. Len(s) \in Nat /\ \A i \in 1 .. Len(s) : i + (Len(s) - Len(s)) = i
    OBVIOUS
<1>2. QED BY <1>1, SuffixIs

LEMMA TailIsSuffix ==
    ASSUME NEW T, NEW s \in Seq(T), NEW t \in Seq(T), s # <<>>, IsSuffix(s, t)
    PROVE  IsSuffix(Tail(s), t)
<1> DEFINE m == Len(s)
           n == Len(t)
<1>1. m \in Nat \ {0} /\ n \in Nat /\ Tail(s) \in Seq(T) /\ Len(Tail(s)) = m - 1
      /\ \A i \in 1 .. m - 1 : Tail(s)[i] = s[i + 1]
    OBVIOUS
<1>2. m <= n /\ \A i \in 1 .. m : s[i] = t[i + (n - m)]
    BY SuffixIs
<1> HIDE DEF m, n
<1>3. ASSUME NEW i \in 1 .. m - 1 PROVE Tail(s)[i] = t[i + (n - (m - 1))]
    <2>1. i + 1 \in 1 .. m /\ (i + 1) + (n - m) = i + (n - (m - 1))
        BY <1>1
    <2>2. QED BY <2>1, <1>1, <1>2
<1>4. m - 1 <= n
    BY <1>1, <1>2
<1>5. QED BY <1>1, <1>3, <1>4, SuffixIs DEF n

\* What is taken from a command sequence leaves its end.
LEMMA SessionLeft ==
    ASSUME SessionIsLeft, session \in Seq(AllCommands), session' = session \/ (session # <<>> /\ session' = Tail(session))
    PROVE  SessionIsLeft'
<1>1. PICK s \in Sessions : IsSuffix(session, s)
    BY DEF SessionIsLeft
<1>2. s \in Seq(AllCommands)
    <2>1. s \in Seq(Commands(s))
        BY SessionsAssumption
    <2>2. Commands(s) \subseteq AllCommands
        BY DEF AllCommands
    <2> HIDE DEF AllCommands
    <2>3. QED BY <2>1, <2>2
<1> HIDE DEF AllCommands
<1>3. IsSuffix(session', s)
    BY <1>1, <1>2, TailIsSuffix
<1>4. QED BY <1>3 DEF SessionIsLeft

\* A count of which digits are lost is a count.
LEMMA BrokenHasCounts ==
    ASSUME NEW counts, IsCounts(counts), NEW format, NEW content \in Broken(counts, format)
    PROVE  IsCounts(content.counts) /\ content.state \in {"broken", "unreadable"}
<1> DEFINE row(S) == [counts |-> Restrict(counts, S), state |-> "broken"]
           rows == {row(S) : S \in (SUBSET DOMAIN counts) \ {DOMAIN counts}}
           some(S, k, n) == [id \in S \cup {k} |-> IF id = k THEN n ELSE counts[id]]
           cut(S, k, n) == [counts |-> some(S, k, n), state |-> "broken"]
           starts(n) == {n \div tens : tens \in PowersOfTen} \ {0}
           others(k) == SUBSET (DOMAIN counts \ {k})
           cutsOf(k) == UNION {{cut(S, k, n) : S \in others(k)} : n \in starts(counts[k])}
           cuts == UNION {cutsOf(k) : k \in DOMAIN counts}
           Good == IsCounts(content.counts) /\ content.state \in {"broken", "unreadable"}
<1>1. Broken(counts, format) = {[counts |-> <<>>, state |-> "unreadable"]}
                                   \cup IF format = "csv" THEN rows \cup cuts ELSE {}
    BY Zenon DEF Broken
<1>2. \A id \in DOMAIN counts : counts[id] \in 0 .. COUNT_LIMIT - 1
    BY DEF IsCounts
<1>3. ASSUME content \in rows PROVE Good
    <2>1. PICK S \in SUBSET DOMAIN counts : content = row(S)
        BY <1>3
    <2>2. content.counts = Restrict(counts, S) /\ content.state = "broken"
        BY <2>1
    <2>3. QED BY <2>2, <1>2 DEF IsCounts, Restrict
<1>4. ASSUME content \in cuts PROVE Good
    <2>1. PICK d \in DOMAIN counts : content \in cutsOf(d)
        BY <1>4
    <2> DEFINE N == starts(counts[d])
    <2>2. \E n \in N : content \in {cut(S, d, n) : S \in others(d)}
        <3> HIDE DEF N
        <3>1. content \in UNION {{cut(S, d, n) : S \in others(d)} : n \in N}
            BY <2>1 DEF N
        <3>2. QED BY <3>1
    <2>3. PICK n \in N : content \in {cut(S, d, n) : S \in others(d)}
        BY <2>2
    <2>4. n \in 0 .. COUNT_LIMIT - 1
        <3>1. PICK tens \in PowersOfTen : n = counts[d] \div tens
            BY <2>3
        <3>2. ASSUME NEW m \in Nat PROVE m \div tens \in Nat /\ m \div tens <= m
            BY <3>1 DEF PowersOfTen
        <3>3. counts[d] \in 0 .. COUNT_LIMIT - 1
            BY <1>2
        <3> HIDE DEF N
        <3>4. QED BY <3>1, <3>2, <3>3, LimitAssumption
    <2> HIDE DEF N
    <2>5. PICK S \in others(d) : content = cut(S, d, n)
        BY <2>3
    <2>6. content.counts = some(S, d, n) /\ content.state = "broken"
        BY <2>5
    <2>7. \A id \in S : id \in DOMAIN counts
        BY <2>5
    <2>8. QED BY <2>4, <2>6, <2>7, <1>2 DEF IsCounts
<1> HIDE DEF rows, cuts, Good
<1>5. content = [counts |-> <<>>, state |-> "unreadable"] \/ content \in rows \/ content \in cuts
    BY <1>1
<1>6. ASSUME content = [counts |-> <<>>, state |-> "unreadable"] PROVE Good
    BY <1>6 DEF IsCounts, Good
<1>7. QED BY <1>3, <1>4, <1>5, <1>6 DEF Good

\* A file that is written has counts.
LEMMA PutHasCounts ==
    ASSUME FilesHoldCounts, NEW x, NEW content, files' = Put(files, x, content),
           IsCounts(content.counts), content.state \in {"whole", "broken", "unreadable"}
    PROVE  FilesHoldCounts'
<1>1. /\ DOMAIN files' = DOMAIN files \cup {x}
      /\ files'[x] = content
      /\ \A f \in DOMAIN files \ {x} : files'[f] = files[f]
    BY DEF Put
<1>2. QED BY <1>1 DEF FilesHoldCounts, IsCounts

LEMMA PairIn == ASSUME NEW T, NEW x \in T, NEW y \in T PROVE <<>> \in Seq(T) /\ <<x>> \in Seq(T) /\ <<x, y>> \in Seq(T)
OBVIOUS

LEMMA StagesAreKinds == \A s \in StageLists : s \in Seq(Kinds)
<1>1. "path_cache" \in Kinds /\ "motif_cache" \in Kinds
    BY DEF Kinds
<1> HIDE DEF Kinds
<1>2. /\ <<>> \in Seq(Kinds) /\ <<"path_cache">> \in Seq(Kinds) /\ <<"motif_cache">> \in Seq(Kinds)
      /\ <<"path_cache", "motif_cache">> \in Seq(Kinds)
    BY <1>1, PairIn
<1>3. QED BY <1>2 DEF StageLists

\* A run that stopped has nothing.
LEMMA StoppedHasNoCounts == ASSUME run' = IdleRun PROVE RunHasCounts'
BY StoppedRunIs DEF RunHasCounts

\* One more enumeration has a name.
LEMMA EnumeratedHasCounts ==
    ASSUME RunIs, InRun, RunHasCounts, NEW counts, IsCounts(counts), NextGraph <= Len(run.names),
           run' = Enumerated(counts)
    PROVE  RunHasCounts'
<1>1. /\ InRun' /\ run'.pc = "graphs"
      /\ run'.command = run.command /\ run'.stages = run.stages /\ run'.names = run.names
      /\ run'.library = run.library
      /\ Len(run.enumeration) \in Nat /\ DOMAIN run.enumeration = 1 .. Len(run.enumeration)
      /\ run'.enumeration \in Seq(ToSet(run'.enumeration))
      /\ DOMAIN run'.enumeration = 1 .. NextGraph
      /\ run'.enumeration[NextGraph] = counts
      /\ \A i \in DOMAIN run.enumeration : run'.enumeration[i] = run.enumeration[i]
    BY EnumeratedIs
<1>2. Command' = Command
    BY <1>1 DEF Command
<1>3. Len(run'.enumeration) = NextGraph
    BY <1>1 DEF NextGraph
<1>4. \A i \in 1 .. NextGraph : i = NextGraph \/ i \in DOMAIN run.enumeration
    BY <1>1 DEF NextGraph
<1>5. \A i \in DOMAIN run'.enumeration : IsCounts(run'.enumeration[i])
    BY <1>1, <1>4 DEF RunHasCounts
<1>6. QED BY <1>1, <1>2, <1>3, <1>5 DEF RunHasCounts, IsCounts

\* A run starts with all its kinds.
LEMMA StartRunTypes ==
    ASSUME session \in Seq(AllCommands), StartRun
    PROVE  RunHasCounts' /\ ResultsAreFlags'
<1> DEFINE c == Head(session)
<1>1. session # <<>> /\ c.run \in {"preprocess", "filter"} /\ results' = <<>>
    BY DEF StartRun
<1>2. c \in AllCommands
    <2> HIDE DEF AllCommands
    <2>1. QED BY <1>1
<1>3. PICK names \in load_library(c) :
          run' = [pc |-> "graphs", command |-> c, stages |-> stages(c), names |-> names, library |-> names,
                  enumeration |-> <<>>, pending |-> <<>>]
    BY DEF StartRun
<1> HIDE DEF c
<1>4. /\ run'.pc = "graphs" /\ Command' = c /\ run'.stages = stages(c)
      /\ run'.names = names /\ run'.library = names /\ run'.enumeration = <<>>
    BY <1>3 DEF Command
<1>5. names \in Seq(InputFiles)
    <2>1. CASE NeedsLibrary(c)
        <3>1. c.input \in DOMAIN Inputs
            BY <2>1, <1>1, <1>2, CachingIs
        <3>2. names \in SetToSeqs(DOMAIN Inputs[c.input])
            BY <2>1 DEF load_library
        <3>3. QED BY <3>1, <3>2, ListingIs
    <2>2. CASE ~NeedsLibrary(c)
        BY <2>2 DEF load_library
    <2>3. QED BY <2>1, <2>2
<1>6. IsSuffix(stages(c), stages(c))
    BY StagesAre, StagesAreKinds, SelfIsSuffix
<1>7. Len(names) \in Nat /\ Len(<<>>) = 0 /\ DOMAIN <<>> = {}
    BY <1>5
<1>8. RunHasCounts'
    BY <1>4, <1>5, <1>6, <1>7 DEF RunHasCounts
<1>9. ResultsAreFlags'
    BY <1>1, <1>7 DEF ResultsAreFlags
<1>10. QED BY <1>8, <1>9

\* A graph that was computed has counts.
LEMMA ComputeTypes ==
    ASSUME CountsFit, RunIs, RunHasCounts, Compute
    PROVE  RunHasCounts'
<1> DEFINE counts == preprocess_graph[Kind][run.library[NextGraph]]
<1>1. /\ Computing /\ NextGraph \in DOMAIN run.library
      /\ run' = IF write_dir(Command) = NoDir THEN Enumerated(counts)
                ELSE [run EXCEPT !.pc = "write", !.pending = counts]
    BY DEF Compute
<1>2. InRun /\ run.stages # <<>> /\ NextGraph <= Len(run.names)
    BY <1>1, ComputingIs DEF Computing
<1>3. Kind \in Kinds /\ DOMAIN run = RunFields
    BY <1>2, StageParts DEF RunIs, Kind
<1>4. run.library[NextGraph] \in InputFiles
    BY <1>1, <1>2 DEF RunHasCounts
<1>5. IsCounts(counts)
    BY <1>3, <1>4 DEF CountsFit, Kinds
<1> HIDE DEF counts
<1>6. CASE write_dir(Command) = NoDir
    BY <1>1, <1>2, <1>5, <1>6, EnumeratedHasCounts
<1>7. CASE write_dir(Command) # NoDir
    <2>1. run' = [run EXCEPT !.pc = "write", !.pending = counts]
        BY <1>1, <1>7
    <2>2. /\ run'.pc = "write" /\ run'.pending = counts /\ run'.command = run.command
          /\ run'.stages = run.stages /\ run'.names = run.names
          /\ run'.library = run.library /\ run'.enumeration = run.enumeration
        BY <2>1, <1>3 DEF RunFields
    <2>3. Command' = Command /\ NextGraph' = NextGraph
        BY <2>2 DEF Command, NextGraph
    <2>4. QED BY <2>2, <2>3, <1>2, <1>5 DEF RunHasCounts, IsCounts
<1>8. QED BY <1>6, <1>7

\* So has one that was loaded.
LEMMA LoadTypes ==
    ASSUME FilesAre, RunIs, FilesHoldCounts, RunHasCounts, LoadEnumeration
    PROVE  RunHasCounts'
<1> DEFINE dir    == load_dir(Command, Kind)
           loaded == read(dir, <<Kind>>, Command.format)
           n      == Cardinality(DOMAIN loaded)
<1>1. InRun /\ run.stages # <<>>
    BY DEF LoadEnumeration, InRun
<1>2. PICK order \in SetToSeqs(DOMAIN loaded) :
         run' = [run EXCEPT !.pc = "filter",
                    !.names = [i \in DOMAIN order |-> [stem |-> order[i], ext |-> ""]],
                    !.enumeration = [i \in DOMAIN order |-> loaded[order[i]]]]
    BY DEF LoadEnumeration
<1>3. DOMAIN run = RunFields
    BY <1>1 DEF RunIs
<1>4. n \in Nat
    BY ReadsFinitelyMany, FS_CardinalityType
<1>5. order \in [1 .. n -> DOMAIN loaded]
    BY DEF SetToSeqs
<1>6. ASSUME NEW l \in DOMAIN loaded PROVE IsCounts(loaded[l])
    <2> DEFINE matching == MatchingFiles(dir, <<Kind>>, Command.format)
               f == CHOOSE f \in matching : graph_name(f, <<Kind>>) = l
    <2>1. loaded[l] = files[f].counts /\ \E h \in matching : graph_name(h, <<Kind>>) = l
        BY DEF read
    <2>2. f \in matching /\ matching \subseteq DOMAIN files
        BY <2>1 DEF MatchingFiles
    <2> HIDE DEF matching, f, loaded
    <2>3. QED BY <2>1, <2>2 DEF FilesHoldCounts
<1> HIDE DEF loaded, dir, n
<1> DEFINE names == [i \in DOMAIN order |-> [stem |-> order[i], ext |-> ""]]
           e     == [i \in DOMAIN order |-> loaded[order[i]]]
<1>7. /\ \A i \in 1 .. n : IsCounts(e[i])
      /\ DOMAIN e = 1 .. n /\ DOMAIN names = 1 .. n
    BY <1>5, <1>6
<1> HIDE DEF names, e
<1>8. /\ run'.pc = "filter"
      /\ run'.command = run.command /\ run'.stages = run.stages /\ run'.library = run.library
      /\ run'.names = names /\ run'.enumeration = e
    BY <1>2, <1>3 DEF RunFields, names, e
<1>9. Len(names) = n /\ Len(e) = n
    BY <1>4, <1>7
<1>10. Command' = Command
    BY <1>8 DEF Command
<1>11. QED BY <1>1, <1>4, <1>7, <1>8, <1>9, <1>10 DEF RunHasCounts, IsCounts

\* A run goes on to the next kind.
LEMMA NextStageTypes ==
    ASSUME RunIs, InRun, run.stages # <<>>, RunHasCounts,
           \/ run' = [run EXCEPT !.stages = Tail(@), !.enumeration = <<>>] /\ run.pc = "graphs"
           \/ run' = [run EXCEPT !.pc = "graphs", !.stages = Tail(@), !.enumeration = <<>>]
    PROVE  RunHasCounts'
<1>1. DOMAIN run = RunFields /\ run.stages \in StageLists
    BY DEF RunIs
<1>2. /\ run'.pc = "graphs" /\ run'.command = run.command /\ run'.stages = Tail(run.stages)
      /\ run'.names = run.names /\ run'.library = run.library /\ run'.enumeration = <<>>
    BY <1>1 DEF RunFields
<1>3. Command' = Command
    BY <1>2 DEF Command
<1>4. IsSuffix(Tail(run.stages), stages(Command))
    BY <1>1, StagesAre, StagesAreKinds, TailIsSuffix DEF RunHasCounts
<1>5. Len(<<>>) = 0 /\ DOMAIN <<>> = {}
    OBVIOUS
<1>6. QED BY <1>2, <1>3, <1>4, <1>5 DEF RunHasCounts

LEMMA DoneTypes ==
    ASSUME RunIs, RunHasCounts, EnumerationDone
    PROVE  RunHasCounts'
<1>1. InRun /\ run.stages # <<>> /\ run.pc = "graphs"
    BY DEF EnumerationDone, InRun
<1>2. CASE run' = [run EXCEPT !.stages = Tail(@), !.enumeration = <<>>]
    BY <1>1, <1>2, NextStageTypes
<1>3. CASE run' = [run EXCEPT !.pc = "filter"]
    <2>1. DOMAIN run = RunFields
        BY <1>1 DEF RunIs
    <2>2. /\ run'.pc = "filter" /\ run'.command = run.command /\ run'.stages = run.stages
          /\ run'.names = run.names /\ run'.library = run.library /\ run'.enumeration = run.enumeration
        BY <1>3, <2>1 DEF RunFields
    <2>3. Command' = Command
        BY <2>2 DEF Command
    <2>4. QED BY <2>2, <2>3, <1>1 DEF RunHasCounts, IsCounts
<1>4. QED BY <1>2, <1>3 DEF EnumerationDone

LEMMA FilteredOrNot == ASSUME NEW a, NEW b PROVE can_be_filtered(a, b) \in BOOLEAN
BY DEF can_be_filtered

LEMMA FilterStageTypes ==
    ASSUME RunIs, RunHasCounts, ResultsAreFlags, FilterStage
    PROVE  RunHasCounts' /\ ResultsAreFlags'
<1> DEFINE loaded   == read(library_dir(Command, Kind), <<Kind>>, Command.format)
           last(q)  == Max({i \in DOMAIN run.enumeration : run.names[i].stem = q})
           stems    == {run.names[i].stem : i \in DOMAIN run.enumeration}
           features(r) == post_process(Kind, run.enumeration[last(r[1])])
           answer(r) == [l \in DOMAIN loaded |-> can_be_filtered(features(r), loaded[l])]
           flags    == [r \in stems \X {Kind} |-> answer(r)]
<1>1. /\ run.pc = "filter"
      /\ run' = [run EXCEPT !.pc = "graphs", !.stages = Tail(@), !.enumeration = <<>>]
      /\ results' = [r \in DOMAIN results \cup DOMAIN flags |->
                        IF r \in DOMAIN flags THEN flags[r] ELSE results[r]]
    BY DEF FilterStage
<1>2. RunHasCounts'
    <2>1. InRun /\ run.stages # <<>>
        BY <1>1 DEF InRun, RunIs
    <2>2. QED BY <1>1, <2>1, NextStageTypes
<1>3. ASSUME NEW r \in DOMAIN flags PROVE flags[r] \in [DOMAIN flags[r] -> BOOLEAN]
    <2>1. flags[r] = answer(r)
        OBVIOUS
    <2> HIDE DEF features, loaded
    <2>2. answer(r) \in [DOMAIN answer(r) -> BOOLEAN]
        BY FilteredOrNot
    <2> HIDE DEF answer
    <2>3. QED BY <2>1, <2>2
<1> HIDE DEF flags
<1>4. ResultsAreFlags'
    BY <1>1, <1>3 DEF ResultsAreFlags
<1>5. QED BY <1>2, <1>4

\* The types of runs over enumerations are kept.
LEMMA EnumerationTypesKept ==
    ASSUME CountsFit, session \in Seq(AllCommands), EnumerationInv, EnumerationTypes, EnumerationNext
    PROVE  EnumerationTypes'
<1> USE DEF EnumerationTypes
<1>1. FilesAre /\ RunIs
    BY DEF EnumerationInv
<1>2. ASSUME files' = files PROVE FilesHoldCounts'
    BY <1>2 DEF FilesHoldCounts, IsCounts
<1>3. ASSUME results' = results PROVE ResultsAreFlags'
    BY <1>3 DEF ResultsAreFlags
<1>4. CASE StartRun
    BY <1>2, <1>4, StartRunTypes DEF StartRun
<1>5. CASE CacheHit
    <2> DEFINE matching == MatchingFiles(write_dir(Command), per_graph_cache_name(Kind, run.names[NextGraph]), Command.format)
    <2>1. Computing /\ files' = files /\ results' = results
        BY <1>5 DEF CacheHit
    <2>2. PICK f \in matching : run' = Enumerated(files[f].counts)
        BY <1>5 DEF CacheHit
    <2>3. f \in DOMAIN files
        BY DEF MatchingFiles
    <2>4. IsCounts(files[f].counts)
        BY <2>3 DEF FilesHoldCounts
    <2>5. InRun /\ NextGraph <= Len(run.names)
        <3>1. NextGraph <= Len(run.names) /\ run.pc = "graphs"
            BY <2>1, Zenon DEF Computing
        <3>2. QED BY <3>1 DEF InRun
    <2>6. QED BY <1>1, <1>2, <1>3, <2>1, <2>2, <2>4, <2>5, EnumeratedHasCounts
<1>6. CASE Compute
    <2>1. files' = files /\ results' = results
        BY <1>6 DEF Compute
    <2>2. QED BY <1>1, <1>2, <1>3, <1>6, <2>1, ComputeTypes
<1>7. ASSUME run.pc = "write" PROVE InRun /\ IsCounts(run.pending) /\ NextGraph <= Len(run.names)
    BY <1>7 DEF InRun, RunHasCounts
<1>8. CASE WriteCache
    <2> DEFINE content == [counts |-> run.pending, state |-> "whole"]
    <2>1. /\ run.pc = "write" /\ files' = Put(files, CacheFile(NextGraph), content)
          /\ run' = Enumerated(run.pending) /\ results' = results
        BY <1>8 DEF WriteCache
    <2>2. content.counts = run.pending /\ content.state = "whole"
        OBVIOUS
    <2> HIDE DEF content
    <2>3. FilesHoldCounts'
        BY <1>7, <2>1, <2>2, PutHasCounts
    <2>4. RunHasCounts'
        BY <1>1, <1>7, <2>1, EnumeratedHasCounts
    <2>5. QED BY <1>3, <2>1, <2>3, <2>4
<1>9. CASE WriteBreaks
    <2>1. /\ run.pc = "write" /\ (run' = IdleRun \/ run' = Enumerated(run.pending))
          /\ results' = results
        BY <1>9 DEF WriteBreaks
    <2>2. PICK content \in Broken(run.pending, Command.format) : files' = Put(files, CacheFile(NextGraph), content)
        BY <1>9 DEF WriteBreaks
    <2>3. IsCounts(content.counts) /\ content.state \in {"broken", "unreadable"}
        BY <1>7, <2>1, BrokenHasCounts
    <2>4. FilesHoldCounts'
        BY <2>2, <2>3, PutHasCounts
    <2>5. RunHasCounts'
        BY <1>1, <1>7, <2>1, EnumeratedHasCounts, StoppedHasNoCounts
    <2>6. QED BY <1>3, <2>1, <2>4, <2>5
<1>10. CASE LoadEnumeration
    <2>1. files' = files /\ results' = results
        BY <1>10 DEF LoadEnumeration
    <2>2. QED BY <1>1, <1>2, <1>3, <1>10, <2>1, LoadTypes
<1>11. CASE EnumerationDone
    <2>1. files' = files /\ results' = results
        BY <1>11 DEF EnumerationDone
    <2>2. QED BY <1>1, <1>2, <1>3, <1>11, <2>1, DoneTypes
<1>12. CASE FilterStage
    <2>1. files' = files
        BY <1>12 DEF FilterStage
    <2>2. QED BY <1>1, <1>2, <1>12, <2>1, FilterStageTypes
<1>13. CASE Finish \/ Abort
    <2>1. run' = IdleRun /\ files' = files /\ results' = results
        BY <1>13 DEF Finish, Abort
    <2>2. QED BY <1>2, <1>3, <2>1, StoppedHasNoCounts
<1>14. QED BY <1>4, <1>5, <1>6, <1>8, <1>9, <1>10, <1>11, <1>12, <1>13 DEF EnumerationNext, RunStep

\* What a set of numbers is folded to, the largest last.
FoldsTo(g, base, step, s) == g[s] = IF s = {} THEN base ELSE step[Max(s)][g[s \ {Max(s)}]]

LEMMA LargestIn == ASSUME NEW S, IsFiniteSet(S), S \subseteq Int, NEW s \in SUBSET S, s # {} PROVE Max(s) \in s
<1>1. IsFiniteSet(s) /\ s \subseteq Int
    BY FS_Subset
<1>2. QED BY <1>1, LargestOfSet

LEMMA FoldExists ==
    ASSUME NEW S, IsFiniteSet(S), S \subseteq Int, NEW base, NEW step
    PROVE  \E g : \A s \in SUBSET S : FoldsTo(g, base, step, s)
<1> DEFINE UpTo(g, n) == \A s \in SUBSET S : Cardinality(s) <= n => FoldsTo(g, base, step, s)
           N == {n \in Nat : \E g : UpTo(g, n)}
<1>1. \A s \in SUBSET S : IsFiniteSet(s) /\ Cardinality(s) \in Nat
    BY FS_Subset, FS_CardinalityType
<1>2. 0 \in N
    <2> DEFINE g == [s \in SUBSET S |-> base]
    <2>1. ASSUME NEW s \in SUBSET S, Cardinality(s) <= 0 PROVE s = {}
        BY <1>1, <2>1, FS_EmptySet
    <2>2. UpTo(g, 0)
        BY <2>1 DEF FoldsTo
    <2>3. QED BY <2>2
<1>3. ASSUME NEW n \in Nat, n \in N PROVE n + 1 \in N
    <2>1. PICK g : UpTo(g, n)
        BY <1>3
    <2> DEFINE h == [s \in SUBSET S |-> IF s = {} THEN base ELSE step[Max(s)][g[s \ {Max(s)}]]]
    <2>2. ASSUME NEW s \in SUBSET S, Cardinality(s) <= n PROVE h[s] = g[s]
        BY <2>1, <2>2 DEF FoldsTo
    <2>3. ASSUME NEW s \in SUBSET S, Cardinality(s) <= n + 1 PROVE FoldsTo(h, base, step, s)
        <3>1. CASE s = {}
            BY <3>1 DEF FoldsTo
        <3>2. CASE s # {}
            <4>1. s \ {Max(s)} \in SUBSET S /\ Cardinality(s \ {Max(s)}) <= n
                <5>1. Max(s) \in s
                    BY <3>2, LargestIn
                <5>2. IsFiniteSet(s) /\ Cardinality(s) \in Nat
                    BY <1>1
                <5>3. Cardinality(s \ {Max(s)}) = Cardinality(s) - 1
                    BY <5>1, <5>2, FS_RemoveElement
                <5>4. Cardinality(s \ {Max(s)}) <= n
                    BY <1>3, <2>3, <5>2, <5>3
                <5>5. QED BY <5>4
            <4>2. h[s \ {Max(s)}] = g[s \ {Max(s)}]
                BY <2>2, <4>1
            <4>3. QED BY <3>2, <4>2 DEF FoldsTo
        <3>3. QED BY <3>1, <3>2
    <2>4. UpTo(h, n + 1)
        BY <2>3
    <2> HIDE DEF h, UpTo
    <2>5. QED BY <2>4
<1> HIDE DEF N
<1>4. Cardinality(S) \in N
    BY <1>1, <1>2, <1>3, NumberInduction
<1>5. PICK g : UpTo(g, Cardinality(S))
    BY <1>4 DEF N
<1>6. \A s \in SUBSET S : FoldsTo(g, base, step, s)
    BY <1>5, FS_Subset
<1>7. QED BY <1>6

\* What no step leaves is not left.
LEMMA FoldStays ==
    ASSUME NEW S, IsFiniteSet(S), S \subseteq Int, NEW F, NEW base \in F, NEW step,
           \A x \in S : \A r \in F : step[x][r] \in F,
           NEW g, \A s \in SUBSET S : FoldsTo(g, base, step, s)
    PROVE  \A s \in SUBSET S : g[s] \in F
<1> DEFINE P == {s \in SUBSET S : g[s] \in F}
<1>1. ASSUME NEW s \in SUBSET S, \A x \in s : s \ {x} \in P PROVE s \in P
    <2>1. CASE s = {}
        BY <2>1 DEF FoldsTo
    <2>2. CASE s # {}
        <3>1. Max(s) \in s
            BY <2>2, LargestIn
        <3>2. g[s \ {Max(s)}] \in F
            BY <1>1, <3>1
        <3>3. QED BY <2>2, <3>1, <3>2 DEF FoldsTo
    <2>3. QED BY <2>1, <2>2
<1> HIDE DEF P
<1>2. \A s \in SUBSET S : s \in P
    BY <1>1, SubsetInduction
<1>3. QED BY <1>2 DEF P

IsPruned(d, found, graph, is_induced) ==
    is_check_relevant(d, found.sources) /\ Embeddings(found.pattern, graph, is_induced) = {}

OneSearch(d, found, graph, is_induced) ==
    IF IsPruned(d, found, graph, is_induced) THEN apply_prune(d, found.sources) ELSE d

LEMMA PruneIs == ASSUME NEW D, NEW d \in [D -> BOOLEAN], NEW s PROVE apply_prune(d, s) \in [D -> BOOLEAN]
<1>1. apply_prune(d, s) = [i \in D |-> d[i] \/ i \in s]
    BY DEF apply_prune
<1>2. QED BY <1>1

\* PatternGraphFilter gives every pattern a flag.
LEMMA FilterGivesFlags ==
    ASSUME NEW cache, IsFiniteSet(DOMAIN cache), DOMAIN cache \subseteq Int, NEW graph, NEW is_induced
    PROVE  filter(cache, graph, is_induced) \in [DOMAIN cache -> BOOLEAN]
<1> DEFINE D == DOMAIN cache
           F == [D -> BOOLEAN]
           base == [k \in D |-> FALSE]
           after(k, d) == OneSearch(d, cache[k], graph, is_induced)
           step == [k \in D |-> [d \in F |-> after(k, d)]]
           Folds(g) == g = [s \in SUBSET D |-> IF s = {} THEN base ELSE after(Max(s), g[s \ {Max(s)}])]
           iter == CHOOSE g : Folds(g)
<1>1. filter(cache, graph, is_induced) = iter[D]
    BY DEF filter, FoldLeft, MapThenFoldSet, OneSearch, IsPruned
<1>2. base \in F
    OBVIOUS
<1>3. ASSUME NEW k \in D, NEW d \in F PROVE after(k, d) \in F
    BY PruneIs DEF OneSearch
<1>4. \A k \in D : \A d \in F : step[k][d] = after(k, d)
    OBVIOUS
<1> HIDE DEF base, after, step, F
<1>5. \A k \in D : \A d \in F : step[k][d] \in F
    BY <1>3, <1>4
<1>6. \A s \in SUBSET D : s # {} => Max(s) \in D /\ s \ {Max(s)} \in SUBSET D
    BY LargestIn
<1>7. PICK h : \A s \in SUBSET D : FoldsTo(h, base, step, s)
    BY FoldExists
<1>8. \A s \in SUBSET D : h[s] \in F
    BY <1>2, <1>5, <1>7, FoldStays
<1> DEFINE g == [s \in SUBSET D |-> h[s]]
<1>9. Folds(g)
    <2>1. \A s \in SUBSET D : g[s] = h[s]
        OBVIOUS
    <2>2. g = [s \in SUBSET D |-> g[s]]
        BY <2>1
    <2> HIDE DEF g
    <2>3. ASSUME NEW s \in SUBSET D PROVE g[s] = IF s = {} THEN base ELSE after(Max(s), g[s \ {Max(s)}])
        BY <1>4, <1>6, <1>7, <1>8, <2>1 DEF FoldsTo
    <2>4. QED BY <2>2, <2>3
<1> HIDE DEF g
<1>10. Folds(iter)
    <2> HIDE DEF Folds
    <2>1. QED BY <1>9 DEF iter
<1> HIDE DEF iter
<1>11. \A s \in SUBSET D : iter[s] = IF s = {} THEN base ELSE after(Max(s), iter[s \ {Max(s)}])
    BY <1>10
<1> DEFINE P == {s \in SUBSET D : iter[s] \in F}
<1>12. ASSUME NEW s \in SUBSET D, \A x \in s : s \ {x} \in P PROVE s \in P
    <2>1. CASE s = {}
        BY <2>1, <1>2, <1>11
    <2>2. CASE s # {}
        <3>1. Max(s) \in s
            BY <2>2, LargestIn
        <3>2. iter[s \ {Max(s)}] \in F
            BY <1>12, <3>1
        <3>3. QED BY <2>2, <3>1, <3>2, <1>3, <1>11
    <2>3. QED BY <2>1, <2>2
<1> HIDE DEF P
<1>13. \A s \in SUBSET D : s \in P
    BY <1>12, SubsetInduction
<1>14. iter[D] \in F
    BY <1>13 DEF P
<1>15. QED BY <1>1, <1>14 DEF F

\* A run over patterns goes on with the same search, or writes what it found.
LEMMA PhasesStay ==
    ASSUME InPatternRun, PhasesAreLeft, job'.command = job.command, job'.phases = job.phases,
           job'.pc = "write" \/ (job'.outputs = job.outputs /\ job.pc # "write")
    PROVE  PhasesAreLeft'
BY DEF PhasesAreLeft

LEMMA SearchStarts ==
    ASSUME FlowInv, Calculate, PhasesAreLeft
    PROVE  PhasesAreLeft'
<1> DEFINE color_map == map_colors((IF Phase = "multi" THEN <<>>
                                      ELSE <<graph_of[job.command.background]>>) \o job.library)
           l == [i \in DOMAIN job.library |-> recolor_graph(job.library[i], color_map)]
<1>1. job.pc = "phase"
    BY DEF Calculate
<1>2. PICK to_process \in ToProcess :
         job' = [job EXCEPT !.pc = "search", !.next = 0, !.to_process = to_process,
                    !.color_map = color_map, !.library = l]
    BY DEF Calculate
<1> HIDE DEF l, color_map
<1>3. InPatternRun /\ DOMAIN job = JobFields
    BY <1>1 DEF FlowInv, JobIs, InPatternRun
<1>4. job'.command = job.command /\ job'.phases = job.phases /\ job'.outputs = job.outputs
    BY <1>2, <1>3 DEF JobFields
<1>5. QED BY <1>1, <1>3, <1>4, PhasesStay

\* A worker leaves everything of the run but its counter.
LEMMA WorkersLeave ==
    ASSUME FlowInv, NEW t \in DOMAIN worker, WorkerStep(t)
    PROVE  /\ job.pc = "search" /\ InPatternRun
           /\ job'.pc = job.pc /\ job'.command = job.command /\ job'.phases = job.phases /\ job'.outputs = job.outputs
           /\ UNCHANGED <<store, verdicts>>
<1>1. job.pc = "search" /\ InPatternRun /\ DOMAIN job = JobFields
    BY WorkersSearch DEF FlowInv, JobIs
<1>2. job' = job \/ job' = [job EXCEPT !.next = job.next + 1]
    BY DEF WorkerStep, StartWorker, Claim, FindPattern, WorkerFails
<1>3. UNCHANGED <<store, verdicts>>
    BY DEF WorkerStep, StartWorker, Claim, FindPattern, WorkerFails
<1>4. job'.pc = job.pc /\ job'.command = job.command /\ job'.phases = job.phases /\ job'.outputs = job.outputs
    BY <1>1, <1>2 DEF JobFields
<1>5. QED BY <1>1, <1>3, <1>4

\* An index of an output file has a row for some of the outputs.
LEMMA StoreStays ==
    ASSUME StoreIsFinite, NEW stored, IsFiniteSet(DOMAIN stored.index), store' = Put(store, Stamp, stored)
    PROVE  StoreIsFinite'
<1>1. /\ DOMAIN store' = DOMAIN store \cup {Stamp}
      /\ \A s \in DOMAIN store' : store'[s] = IF s = Stamp THEN stored ELSE store[s]
    BY DEF Put
<1>2. QED BY <1>1 DEF StoreIsFinite

LEMMA StoredIsFinite == ASSUME StoreIsFinite PROVE IsFiniteSet(DOMAIN Stored.index)
<1>1. CASE Stamp \in DOMAIN store
    BY <1>1 DEF Stored, StoreIsFinite
<1>2. CASE Stamp \notin DOMAIN store
    <2>1. DOMAIN Stored.index = {}
        BY <1>2 DEF Stored, EmptyStore
    <2>2. QED BY <2>1, FS_EmptySet
<1>3. QED BY <1>1, <1>2

LEMMA WritePatternTypes ==
    ASSUME FlowInv, StoreIsFinite, PhasesAreLeft, WritePattern
    PROVE  StoreIsFinite' /\ PhasesAreLeft' /\ job'.pc = "write"
<1> DEFINE patterns == Put(Stored.patterns, job.written, job.outputs[job.written + 1].pattern)
           stored == [Stored EXCEPT !.whole = FALSE, !.patterns = patterns]
<1>1. /\ job.pc = "write" /\ job' = [job EXCEPT !.written = job.written + 1]
      /\ store' = Put(store, Stamp, stored)
    BY DEF WritePattern
<1>2. InPatternRun /\ DOMAIN job = JobFields
    BY <1>1 DEF FlowInv, JobIs, InPatternRun
<1>3. job'.pc = "write" /\ job'.command = job.command /\ job'.phases = job.phases
    BY <1>1, <1>2 DEF JobFields
<1> HIDE DEF patterns
<1>4. DOMAIN Stored = {"patterns", "index", "library", "whole"}
    BY StoredIs DEF FlowInv, EmptyStore
<1>5. stored.index = Stored.index
    BY <1>4
<1> HIDE DEF stored
<1>6. StoreIsFinite'
    BY <1>1, <1>5, StoredIsFinite, StoreStays
<1>7. QED BY <1>2, <1>3, <1>6, PhasesStay

LEMMA WriteIndexTypes ==
    ASSUME FlowInv, StoreIsFinite, PhasesAreLeft, WriteIndex
    PROVE  StoreIsFinite' /\ PhasesAreLeft' /\ job'.pc = "phase"
<1> DEFINE stored == [Stored EXCEPT !.whole = TRUE, !.index = index(job.outputs), !.library = job.names]
<1>1. /\ job.pc = "write" /\ store' = Put(store, Stamp, stored)
      /\ job' = [job EXCEPT !.pc = "phase", !.phases = Tail(job.phases), !.outputs = <<>>, !.written = 0]
    BY DEF WriteIndex
<1>2. /\ InPatternRun /\ DOMAIN job = JobFields
      /\ job.phases \in Seq({"multi", "single", "results"}) /\ job.phases # <<>>
    BY <1>1 DEF FlowInv, JobIs, InPatternRun
<1>3. /\ job'.pc = "phase" /\ job'.command = job.command /\ job'.phases = Tail(job.phases)
      /\ job'.outputs = <<>>
    BY <1>1, <1>2 DEF JobFields
<1>4. IsSuffix(Tail(job.phases), phases(job.command))
    BY <1>2, PhasesType, TailIsSuffix DEF PhasesAreLeft
<1>5. PhasesAreLeft'
    BY <1>3, <1>4 DEF PhasesAreLeft
<1>6. DOMAIN Stored = {"patterns", "index", "library", "whole"}
    BY StoredIs DEF FlowInv, EmptyStore
<1>7. stored.index = index(job.outputs)
    BY <1>6
<1> HIDE DEF stored
<1>8. IsFiniteSet(DOMAIN index(job.outputs))
    <2>1. Len(job.outputs) \in Nat
        BY <1>1 DEF FlowInv, FindsAre, AllFoundIn
    <2>2. DOMAIN index(job.outputs) \subseteq 0 .. Len(job.outputs) - 1
        BY DEF index
    <2>3. IsFiniteSet(0 .. Len(job.outputs) - 1)
        BY <2>1, FS_Interval
    <2>4. QED BY <2>2, <2>3, FS_Subset
<1>9. StoreIsFinite'
    BY <1>1, <1>7, <1>8, StoreStays
<1>10. QED BY <1>3, <1>5, <1>9

\* The patterns a filter goes through are those of an index.
LEMMA StartFilterTypes ==
    ASSUME StoreIsFinite, StartPatternFilter
    PROVE  job'.pc = "filter" /\ CacheIsFinite'
<1>1. PICK s \in DOMAIN store : \E order \in SetToSeqs(DOMAIN store[s].index) : \E backgrounds :
          job' = [pc |-> "filter", command |-> Head(session), backgrounds |-> backgrounds,
                  cache |-> [k \in DOMAIN order |->
                      Found(store[s].patterns[order[k]], store[s].index[order[k]])]]
    BY DEF StartPatternFilter
<1> DEFINE S == DOMAIN store[s].index
<1>2. PICK order \in SetToSeqs(S) : \E backgrounds :
          job' = [pc |-> "filter", command |-> Head(session), backgrounds |-> backgrounds,
                  cache |-> [k \in DOMAIN order |->
                      Found(store[s].patterns[order[k]], store[s].index[order[k]])]]
    BY <1>1
<1>3. Cardinality(S) \in Nat
    BY FS_CardinalityType DEF StoreIsFinite
<1>4. DOMAIN order = 1 .. Cardinality(S)
    BY DEF SetToSeqs
<1>5. job'.pc = "filter" /\ DOMAIN job'.cache = 1 .. Cardinality(S)
    BY <1>2, <1>4
<1> HIDE DEF S
<1>6. IsFiniteSet(1 .. Cardinality(S)) /\ 1 .. Cardinality(S) \subseteq Int
    BY <1>3, FS_Interval
<1>7. QED BY <1>5, <1>6 DEF CacheIsFinite

LEMMA FilterBackgroundTypes ==
    ASSUME FlowInv, CacheIsFinite, VerdictsAreFlags, FilterBackground
    PROVE  job'.pc = "filter" /\ CacheIsFinite' /\ VerdictsAreFlags'
<1> DEFINE b == Head(job.backgrounds)
           flags == filter(job.cache, graph_of[b], job.command.is_induced)
<1>1. /\ job.pc = "filter" /\ job' = [job EXCEPT !.backgrounds = Tail(job.backgrounds)]
      /\ verdicts' = Put(verdicts, b, flags)
    BY DEF FilterBackground
<1>2. DOMAIN job = {"pc", "command", "backgrounds", "cache"}
    BY <1>1 DEF FlowInv, JobIs
<1>3. job'.pc = "filter" /\ job'.cache = job.cache
    BY <1>1, <1>2
<1>4. CacheIsFinite'
    BY <1>1, <1>3 DEF CacheIsFinite
<1>5. flags \in [DOMAIN job.cache -> BOOLEAN]
    BY <1>1, FilterGivesFlags DEF CacheIsFinite
<1> HIDE DEF flags, b
<1>6. flags \in [DOMAIN flags -> BOOLEAN]
    BY <1>5
<1>7. /\ DOMAIN verdicts' = DOMAIN verdicts \cup {b}
      /\ \A a \in DOMAIN verdicts' : verdicts'[a] = IF a = b THEN flags ELSE verdicts[a]
    BY <1>1 DEF Put
<1>8. VerdictsAreFlags'
    <2> SUFFICES ASSUME NEW a \in DOMAIN verdicts' PROVE verdicts'[a] \in [DOMAIN verdicts'[a] -> BOOLEAN]
        BY DEF VerdictsAreFlags
    <2>1. CASE a = b
        BY <2>1, <1>6, <1>7
    <2>2. CASE a # b
        BY <2>2, <1>7 DEF VerdictsAreFlags
    <2>3. QED BY <2>1, <2>2
<1>9. QED BY <1>3, <1>4, <1>8

\* The types of runs over patterns are kept.
LEMMA PatternTypesKept ==
    ASSUME FlowInv, PatternTypes, PatternNext
    PROVE  PatternTypes'
<1> USE DEF PatternTypes
<1>1. ASSUME store' = store PROVE StoreIsFinite'
    BY <1>1 DEF StoreIsFinite
<1>2. ASSUME verdicts' = verdicts \/ verdicts' = <<>> PROVE VerdictsAreFlags'
    BY <1>2 DEF VerdictsAreFlags
<1>3. ASSUME job'.pc # "filter" PROVE CacheIsFinite'
    BY <1>3 DEF CacheIsFinite
<1>4. ASSUME job'.pc \in {"idle", "filter"} PROVE PhasesAreLeft'
    BY <1>4 DEF PhasesAreLeft, InPatternRun
<1>5. CASE StartPatternRun
    <2> DEFINE c == Head(session)
    <2>1. store' = store /\ verdicts' = verdicts
        BY <1>5 DEF StartPatternRun
    <2>2. job'.pc = "phase" /\ job'.command = c /\ job'.phases = phases(c) /\ job'.outputs = <<>>
        BY <1>5 DEF StartPatternRun
    <2> HIDE DEF c
    <2>3. IsSuffix(phases(c), phases(c))
        BY PhasesType, SelfIsSuffix
    <2>4. PhasesAreLeft'
        BY <2>2, <2>3 DEF PhasesAreLeft
    <2>5. QED BY <1>1, <1>2, <1>3, <2>1, <2>2, <2>4
<1>6. CASE Calculate
    <2>1. store' = store /\ verdicts' = verdicts
        BY <1>6 DEF Calculate
    <2>2. job'.pc = "search"
        <3>1. job.pc = "phase"
            BY <1>6 DEF Calculate
        <3>2. "pc" \in DOMAIN job
            BY <3>1 DEF FlowInv, JobIs, InPatternRun, JobFields
        <3>3. QED BY <1>6, <3>2 DEF Calculate
    <2>3. QED BY <1>1, <1>2, <1>3, <1>6, <2>1, <2>2, SearchStarts
<1>7. CASE \E t \in DOMAIN worker : WorkerStep(t)
    <2>1. PICK t \in DOMAIN worker : WorkerStep(t)
        BY <1>7
    <2>2. QED BY <1>1, <1>2, <1>3, <2>1, WorkersLeave, PhasesStay
<1>8. CASE MergeResults
    <2>1. job.pc = "search" /\ store' = store /\ verdicts' = verdicts
        BY <1>8 DEF MergeResults
    <2>2. InPatternRun /\ DOMAIN job = JobFields
        BY <2>1 DEF FlowInv, JobIs, InPatternRun
    <2>3. job'.pc = "write" /\ job'.command = job.command /\ job'.phases = job.phases
        BY <1>8, <2>2 DEF MergeResults, JobFields
    <2>4. QED BY <1>1, <1>2, <1>3, <2>1, <2>2, <2>3, PhasesStay
<1>9. CASE Rethrow \/ FinishPatternRun \/ AbortPatternRun
    <2>1. job' = NoJob /\ store' = store /\ verdicts' = verdicts
        BY <1>9 DEF Rethrow, FinishPatternRun, AbortPatternRun
    <2>2. job'.pc = "idle"
        BY <2>1 DEF NoJob
    <2>3. QED BY <1>1, <1>2, <1>3, <1>4, <2>1, <2>2
<1>10. CASE WritePattern
    <2>1. verdicts' = verdicts
        BY <1>10 DEF WritePattern
    <2>2. QED BY <1>2, <1>3, <1>10, <2>1, WritePatternTypes
<1>11. CASE WriteIndex
    <2>1. verdicts' = verdicts
        BY <1>11 DEF WriteIndex
    <2>2. QED BY <1>2, <1>3, <1>11, <2>1, WriteIndexTypes
<1>12. CASE StartPatternFilter
    <2>1. store' = store /\ verdicts' = <<>>
        BY <1>12 DEF StartPatternFilter
    <2>2. QED BY <1>1, <1>2, <1>4, <1>12, <2>1, StartFilterTypes
<1>13. CASE NoIndex
    <2>1. store' = store /\ verdicts' = <<>> /\ job' = job /\ job = NoJob
        BY <1>13 DEF NoIndex
    <2>2. job'.pc = "idle"
        BY <2>1 DEF NoJob
    <2>3. QED BY <1>1, <1>2, <1>3, <1>4, <2>1, <2>2
<1>14. CASE FilterBackground
    <2>1. store' = store
        BY <1>14 DEF FilterBackground
    <2>2. QED BY <1>1, <1>4, <1>14, <2>1, FilterBackgroundTypes
<1>15. QED BY <1>5, <1>6, <1>7, <1>8, <1>9, <1>10, <1>11, <1>12, <1>13, <1>14 DEF PatternNext

\* A color map is saved whole or torn.
LEMMA MapsStay ==
    ASSUME MapsHaveStates, NEW content, content.state \in {"whole", "altered", "torn", "unreadable"},
           map_files' = Put(map_files, SavedMap, content)
    PROVE  MapsHaveStates'
<1>1. /\ DOMAIN map_files' = DOMAIN map_files \cup {SavedMap}
      /\ \A f \in DOMAIN map_files' : map_files'[f] = IF f = SavedMap THEN content ELSE map_files[f]
    BY DEF Put
<1>2. QED BY <1>1 DEF MapsHaveStates

LEMMA MapTypesKept ==
    ASSUME MapsHaveStates, LibraryNext
    PROVE  MapsHaveStates'
<1>1. ASSUME map_files' = map_files PROVE MapsHaveStates'
    BY <1>1 DEF MapsHaveStates
<1>2. CASE StartLoad \/ LoadRefused \/ ReadGraph \/ ReadFails \/ EndLoad \/ AbortLoad
    <2>1. map_files' = map_files
        BY <1>2 DEF StartLoad, LoadRefused, ReadGraph, ReadFails, EndLoad, AbortLoad
    <2>2. QED BY <1>1, <2>1
<1>3. CASE SaveMap
    <2> DEFINE content == Saved(loading.color_map)
    <2>1. map_files' = Put(map_files, SavedMap, content)
        BY <1>3 DEF SaveMap
    <2>2. content.state \in {"whole", "altered", "torn", "unreadable"}
        BY SavedOrTorn
    <2> HIDE DEF content
    <2>3. QED BY <2>1, <2>2, MapsStay
<1>4. CASE SaveBreaks
    <2>1. PICK content \in Torn(loading.color_map) : map_files' = Put(map_files, SavedMap, content)
        BY <1>4 DEF SaveBreaks
    <2>2. content.state \in {"torn", "unreadable"}
        BY <2>1, SavedOrTorn
    <2>3. QED BY <2>1, <2>2, MapsStay
<1>5. QED BY <1>2, <1>3, <1>4 DEF LibraryNext

\* A pattern run starts while nothing else runs.
LEMMA OneStartsAlone ==
    ASSUME FlowInv, OneAtATime, PatternNext
    PROVE  run = IdleRun
<1>1. ASSUME job.pc # "idle" PROVE run = IdleRun
    BY <1>1 DEF OneAtATime, NoJob
<1>2. CASE StartPatternRun \/ StartPatternFilter \/ NoIndex
    BY <1>2 DEF StartPatternRun, StartPatternFilter, NoIndex
<1>3. CASE Calculate \/ MergeResults \/ Rethrow \/ WritePattern \/ WriteIndex \/ FilterBackground \/ FinishPatternRun
    BY <1>1, <1>3 DEF Calculate, MergeResults, Rethrow, WritePattern, WriteIndex, FilterBackground, FinishPatternRun
<1>4. CASE \E t \in DOMAIN worker : WorkerStep(t)
    BY <1>1, <1>4, WorkersSearch
<1>5. CASE AbortPatternRun
    BY <1>5 DEF AbortPatternRun, OneAtATime
<1>6. QED BY <1>2, <1>3, <1>4, <1>5 DEF PatternNext

LEMMA OneAtATimeKept ==
    ASSUME FlowInv, OneAtATime, [Next]_vars
    PROVE  OneAtATime'
<1>1. CASE job = NoJob /\ loading = NotLoading /\ UNCHANGED <<patternVars, filesOfLoads>>
    BY <1>1 DEF OneAtATime, patternVars, filesOfLoads, NoJob, NotLoading
<1>2. CASE loading = NotLoading /\ PatternNext /\ UNCHANGED filesOfLoads
    <2>1. run = IdleRun /\ run' = run
        BY <1>2, OneStartsAlone, PatternsLeaveFiles
    <2>2. loading' = NotLoading
        BY <1>2 DEF filesOfLoads
    <2>3. QED BY <2>1, <2>2 DEF OneAtATime, IdleRun, NotLoading
<1>3. CASE run = IdleRun /\ job = NoJob /\ UNCHANGED <<run, patternVars>>
    BY <1>3 DEF OneAtATime, patternVars, IdleRun, NoJob
<1>4. CASE UNCHANGED vars
    <2>1. UNCHANGED <<run, job, loading>>
        BY <1>4 DEF vars, enumerationVars, patternVars, filesOfLoads
    <2>2. QED BY <2>1 DEF OneAtATime, IdleRun, NoJob, NotLoading
<1>5. QED BY <1>1, <1>2, <1>3, <1>4 DEF Next

\* The types hold before the first command, and every step keeps them.
LEMMA TypesInitially == Init => TypeInv
<1> SUFFICES ASSUME Init PROVE TypeInv
    OBVIOUS
<1>1. /\ files = <<>> /\ results = <<>> /\ run = IdleRun /\ job = NoJob /\ store = <<>> /\ verdicts = <<>>
      /\ loading = NotLoading /\ session \in Sessions
      /\ map_files = [f \in DOMAIN GivenMaps |-> [color_map |-> GivenMaps[f], state |-> "whole"]]
    BY DEF Init, EnumerationInit, PatternInit, LibraryInit
<1>2. ~InRun /\ ~InPatternRun /\ job.pc # "filter"
    BY <1>1 DEF InRun, IdleRun, InPatternRun, NoJob
<1>3. EnumerationTypes
    BY <1>1, <1>2 DEF EnumerationTypes, FilesHoldCounts, ResultsAreFlags, RunHasCounts
<1>4. PatternTypes
    BY <1>1, <1>2 DEF PatternTypes, PhasesAreLeft, VerdictsAreFlags, StoreIsFinite, CacheIsFinite
<1>5. SessionIsLeft
    BY <1>1, SessionsAssumption, SelfIsSuffix DEF SessionIsLeft
<1>6. MapsHaveStates /\ OneAtATime
    BY <1>1 DEF MapsHaveStates, OneAtATime
<1>7. QED BY <1>3, <1>4, <1>5, <1>6 DEF TypeInv

LEMMA TypesKept == CountsFit /\ FlowInv /\ EnumerationInv /\ TypeInv /\ [Next]_vars => TypeInv'
<1> SUFFICES ASSUME CountsFit, FlowInv, EnumerationInv, TypeInv, [Next]_vars PROVE TypeInv'
    OBVIOUS
<1>1. EnumerationTypes /\ PatternTypes /\ SessionIsLeft /\ MapsHaveStates /\ OneAtATime
    BY DEF TypeInv
<1>2. session \in Seq(AllCommands)
    BY DEF FlowInv, JobIs
<1>3. OneAtATime'
    BY <1>1, OneAtATimeKept
<1>4. ASSUME session' = session \/ (session # <<>> /\ session' = Tail(session)) PROVE SessionIsLeft'
    BY <1>1, <1>2, <1>4, SessionLeft
<1>5. ASSUME UNCHANGED <<files, results, run>> PROVE EnumerationTypes'
    BY <1>1, <1>5 DEF EnumerationTypes, FilesHoldCounts, ResultsAreFlags, RunHasCounts, InRun, Command, NextGraph, IsCounts
<1>6. ASSUME UNCHANGED patternVars PROVE PatternTypes'
    BY <1>1, <1>6 DEF patternVars, PatternTypes, PhasesAreLeft, InPatternRun, VerdictsAreFlags, StoreIsFinite, CacheIsFinite
<1>7. ASSUME map_files' = map_files PROVE MapsHaveStates'
    BY <1>1, <1>7 DEF MapsHaveStates
<1>8. CASE EnumerationNext /\ UNCHANGED <<patternVars, filesOfLoads>>
    <2>1. EnumerationTypes'
        BY <1>1, <1>2, <1>8, EnumerationTypesKept
    <2>2. map_files' = map_files
        BY <1>8 DEF filesOfLoads
    <2>3. QED BY <1>3, <1>4, <1>6, <1>7, <1>8, <2>1, <2>2, RunsTakeCommands DEF TypeInv
<1>9. CASE PatternNext /\ UNCHANGED filesOfLoads
    <2>1. PatternTypes'
        BY <1>1, <1>9, PatternTypesKept
    <2>2. UNCHANGED <<files, results, run>>
        BY <1>9, PatternsLeaveFiles
    <2>3. map_files' = map_files
        BY <1>9 DEF filesOfLoads
    <2>4. QED BY <1>3, <1>4, <1>5, <1>7, <1>9, <2>1, <2>2, <2>3, PatternStepTakesCommands DEF TypeInv
<1>10. CASE LibraryNext /\ UNCHANGED <<files, results, run, patternVars>>
    <2>1. MapsHaveStates'
        BY <1>1, <1>10, MapTypesKept
    <2>2. UNCHANGED <<files, results, run>> /\ UNCHANGED patternVars
        BY <1>10
    <2>3. QED BY <1>3, <1>4, <1>5, <1>6, <1>10, <2>1, <2>2, LoadsTakeCommands DEF TypeInv
<1>11. CASE UNCHANGED vars
    <2>1. UNCHANGED <<files, results, run>> /\ UNCHANGED patternVars /\ map_files' = map_files /\ session' = session
        BY <1>11 DEF vars, enumerationVars, patternVars, filesOfLoads
    <2>2. QED BY <1>3, <1>4, <1>5, <1>6, <1>7, <2>1 DEF TypeInv
<1>12. QED BY <1>8, <1>9, <1>10, <1>11 DEF Next

\* Of three families, one runs.
LEMMA OneRuns ==
    ASSUME OneAtATime
    PROVE  Cardinality({r \in {<<"run", run.pc>>, <<"job", job.pc>>, <<"load", loading.pc>>} : r[2] # "idle"}) <= 1
<1> DEFINE R == {r \in {<<"run", run.pc>>, <<"job", job.pc>>, <<"load", loading.pc>>} : r[2] # "idle"}
<1>1. \E x : R \subseteq {x}
    <2>1. CASE run = IdleRun /\ job = NoJob
        <3>1. run.pc = "idle" /\ job.pc = "idle"
            BY <2>1 DEF IdleRun, NoJob
        <3>2. R \subseteq {<<"load", loading.pc>>}
            BY <3>1
        <3>3. QED BY <3>2
    <2>2. CASE run = IdleRun /\ loading = NotLoading
        <3>1. run.pc = "idle" /\ loading.pc = "idle"
            BY <2>2 DEF IdleRun, NotLoading
        <3>2. R \subseteq {<<"job", job.pc>>}
            BY <3>1
        <3>3. QED BY <3>2
    <2>3. CASE job = NoJob /\ loading = NotLoading
        <3>1. job.pc = "idle" /\ loading.pc = "idle"
            BY <2>3 DEF NoJob, NotLoading
        <3>2. R \subseteq {<<"run", run.pc>>}
            BY <3>1
        <3>3. QED BY <3>2
    <2>4. QED BY <2>1, <2>2, <2>3 DEF OneAtATime
<1> HIDE DEF R
<1>2. PICK x : R \subseteq {x}
    BY <1>1
<1>3. IsFiniteSet({x}) /\ Cardinality({x}) = 1
    BY FS_Singleton
<1>4. Cardinality(R) <= 1
    BY <1>2, <1>3, FS_Subset
<1>5. QED BY <1>4 DEF R

LEMMA TypesAreCorrect == FlowInv /\ EnumerationInv /\ GraphmlInv /\ TypeInv => TypeOK
<1> SUFFICES ASSUME FlowInv, EnumerationInv, GraphmlInv, TypeInv PROVE TypeOK
    OBVIOUS
<1>1. EnumerationTypeOK
    <2>1. FilesHoldCounts /\ ResultsAreFlags /\ RunHasCounts /\ SessionIsLeft
        BY DEF TypeInv, EnumerationTypes
    <2>2. run # IdleRun => InRun
        BY DEF EnumerationInv, RunIs
    <2>3. run # IdleRun => run.pc \in {"graphs", "write", "filter"}
        BY <2>2 DEF InRun
    <2>4. QED BY <2>1, <2>2, <2>3, Zenon
          DEF EnumerationTypeOK, FilesHoldCounts, ResultsAreFlags, RunHasCounts, SessionIsLeft
<1>2. PatternTypeOK
    <2>1. PhasesAreLeft /\ VerdictsAreFlags
        BY DEF TypeInv, PatternTypes
    <2>2. job.pc \in {"idle", "phase", "search", "write", "filter"} /\ (job.pc # "search" => worker = <<>>)
        BY DEF FlowInv, JobIs
    <2>3. ASSUME InPatternRun PROVE IsSuffix(job.phases, phases(job.command)) /\ job.written \in 0 .. Len(job.outputs)
        <3>1. CASE job.pc = "write"
            BY <2>1, <2>3, <3>1 DEF PhasesAreLeft, FlowInv, FindsAre
        <3>2. CASE job.pc # "write"
            <4>1. job.outputs = <<>> /\ job.written = 0
                BY <2>1, <2>3, <3>2 DEF PhasesAreLeft, InPatternRun, FlowInv, FindsAre
            <4>2. Len(job.outputs) = 0 /\ 0 \in 0 .. 0
                BY <4>1
            <4>3. QED BY <2>1, <2>3, <4>1, <4>2 DEF PhasesAreLeft
        <3>3. QED BY <3>1, <3>2
    <2>4. ASSUME NEW t \in DOMAIN worker
          PROVE  /\ worker[t].pc \in {"start", "claim", "work", "done", "failed"}
                 /\ worker[t].pc = "work" => worker[t].claim \in 0 .. Claims - 1
        <3>1. WorkerIs(t)
            BY WorkersSearch DEF FlowInv, ClaimsAre
        <3>2. QED BY <3>1 DEF WorkerIs
    <2>5. QED BY <2>1, <2>2, <2>3, <2>4 DEF PatternTypeOK, InPatternRun, VerdictsAreFlags
<1>3. LibraryTypeOK
    <2>1. MapsHaveStates
        BY DEF TypeInv
    <2>2. loading.pc \in {"idle", "read"}
        BY DEF GraphmlInv, LoadInProgress, NotLoading
    <2>3. \A load \in libraries : load.saved \in DOMAIN map_files \cup {NoPath} /\ load.lineage \subseteq DOMAIN map_files
        BY DEF GraphmlInv, MapsAre, LoadedIs, LoadIs
    <2>4. QED BY <2>1, <2>2, <2>3 DEF LibraryTypeOK, MapsHaveStates
<1>4. OneAtATime
    BY DEF TypeInv
<1>5. QED BY <1>1, <1>2, <1>3, <1>4, OneRuns DEF TypeOK

\* Where no count is too large to be kept, the state of the program has its type: one
\* family of runs is at work, and with all it needs; what files, verdicts and maps hold
\* has the form in which it is read again, also where runs stopped.
THEOREM TypesStayCorrect == ASSUME CountsFit PROVE Spec => []TypeOK
<1>1. CountsFit /\ FlowInv /\ EnumerationInv /\ TypeInv /\ [Next]_vars => TypeInv'
    BY TypesKept
<1>2. FlowInv /\ EnumerationInv /\ TypeInv /\ [Next]_vars => TypeInv'
    BY <1>1
<1>3. Spec => []TypeInv
    BY <1>2, TypesInitially, FlowInvariant, EnumerationInvariant, PTL DEF Spec
<1>4. Spec => []GraphmlInv
    BY FlowInvariant, GraphmlInitially, GraphmlKept, PTL DEF Spec
<1>5. QED BY <1>3, <1>4, TypesAreCorrect, FlowInvariant, EnumerationInvariant, PTL

=============================================================================
