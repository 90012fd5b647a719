-------------------------- MODULE MCGroupEnumeration --------------------------
(* Small graphs for GpuEnumeration, how many workers share them, and a     *)
(* count map whose keys collide.                                           *)
EXTENDS GpuEnumeration

\* An undirected graph from its colours, in vertex order, and half its edges.
U(colors, half) ==
    [color |-> [v \in 0 .. Len(colors) - 1 |-> colors[v + 1]],
     edges |-> half \cup {<<e[2], e[1]>> : e \in half}, directed |-> FALSE]

D(colors, arcs) ==
    [color |-> [v \in 0 .. Len(colors) - 1 |-> colors[v + 1]],
     edges |-> arcs, directed |-> TRUE]

\* A triangle with a tail at two corners; a 4-cycle with a tail; a 4-cycle with
\* a hub; a triangle and a claw that share two corners; too few vertices; none.
Bull   == U(<<1, 1, 2, 1, 2>>, {<<0, 1>>, <<0, 2>>, <<1, 2>>, <<1, 3>>, <<2, 4>>})
Banner == U(<<1, 2, 1, 1, 2>>, {<<0, 1>>, <<1, 2>>, <<2, 3>>, <<3, 0>>, <<0, 4>>})
Wheel  == U(<<1, 1, 1, 1, 2>>, {<<0, 1>>, <<1, 2>>, <<2, 3>>, <<3, 0>>,
                               <<4, 0>>, <<4, 1>>, <<4, 2>>, <<4, 3>>})
Claw   == U(<<1, 1, 1, 2, 1, 2>>, {<<0, 1>>, <<0, 2>>, <<0, 3>>, <<1, 4>>, <<1, 5>>,
                                  <<2, 3>>, <<2, 4>>})
Edge   == U(<<1, 1>>, {<<0, 1>>})
None   == U(<<>>, {})

\* A directed graph with a 2-cycle, a 3-cycle and arcs both into and out of it.
Knot   == D(<<1, 1, 2, 1, 1>>, {<<0, 1>>, <<1, 0>>, <<1, 2>>, <<2, 0>>, <<3, 0>>, <<2, 4>>})
\* Three vertices in a row, both ways, with an end each.
Double == D(<<1, 1, 1, 1>>, {<<0, 1>>, <<1, 0>>, <<1, 2>>, <<1, 3>>})

Job(g, k, t) == [graph |-> g, kind |-> k, threads |-> t, backend |-> "cpu"]

GpuJob(g, k) == [graph |-> g, kind |-> k, threads |-> 1, backend |-> "cuda"]

MCJobs == {Job(Bull, "motifs", 2), Job(Banner, "motifs", 2), Job(Knot, "motifs", 2),
           Job(Wheel, "motifs", 1), Job(Claw, "motifs", 1), Job(Edge, "motifs", 3),
           Job(Bull, "paths", 2), Job(Banner, "paths", 1), Job(None, "paths", 1),
           GpuJob(Bull, "motifs"), GpuJob(Knot, "motifs"), GpuJob(Bull, "paths"),
           GpuJob(Banner, "paths"), GpuJob(Edge, "motifs"),
           [Job(Edge, "paths", 1) EXCEPT !.backend = "missing"]}

DirectedPathJobs == {Job(Double, "paths", 2)}

\* Identifiers, numbered: the order does not matter.
AllIds == UNION {{GroupNumber[j][x] : x \in Groups[j]} : j \in {i \in Jobs : i.backend = "cuda"}}

IdNumber == FoldSet(LAMBDA id, ids : Append(ids, id), <<>>, AllIds)

NumberOf == Table([id \in AllIds |-> (CHOOSE i \in DOMAIN IdNumber : IdNumber[i] = id) - 1])

\* Halves of three bits; 7 is an identifier's lower half.
MCHalves(id) == [high |-> (NumberOf[id] + 5) \div 8, low |-> (NumberOf[id] + 5) % 8]

\* All identifiers start at two keys, one of which is the reserved one.
MCHash(id, seed) == IF seed = 0 THEN 6 + (NumberOf[id] % 2) ELSE NumberOf[id] \div 2
=============================================================================
