---------------------------- MODULE GroupCounting ----------------------------
(***************************************************************************)
(* What the proof that GroupEnumeration keeps its promise leans on: which  *)
(* tuples a root emits, said of adjacency alone, and the inductive         *)
(* invariant of the workers.                                               *)
(***************************************************************************)
EXTENDS GroupEnumeration

-----------------------------------------------------------------------------
(* One root.                                                               *)

\* The vertices that come after the root in the order of degrees.
Later(g, index, root) == {v \in Vertices(g) : index[v] > index[root]}

\* The array of marks tells depth one from the rest.
MarksDepthOne(g, visited, root) ==
    \A w \in Vertices(g) :
        is_not_at_depth_one(visited, root, w) <=> root # w /\ ~adjacent(g, root, w)

\* What tuple <<a, b, c>> of each kind says of the edges between its vertices and the root.
HasShape(g, r, kind, a, b, c) ==
    /\ adjacent(g, r, a)
    /\ \/ /\ kind = "111"
          /\ adjacent(g, r, b) /\ adjacent(g, r, c)
          /\ a < b /\ b < c
       \/ /\ kind = "112"
          /\ adjacent(g, r, b) /\ ~adjacent(g, r, c)
          /\ a # b /\ adjacent(g, a, c) /\ (adjacent(g, b, c) => a < b)
       \/ /\ kind = "122"
          /\ ~adjacent(g, r, b) /\ ~adjacent(g, r, c)
          /\ adjacent(g, a, b) /\ adjacent(g, a, c) /\ b < c
       \/ /\ kind = "123"
          /\ ~adjacent(g, r, b) /\ ~adjacent(g, r, c)
          /\ adjacent(g, a, b) /\ adjacent(g, b, c) /\ ~adjacent(g, a, c)

\* S is r and three others.
IsFour(S, r, a, b, c) ==
    /\ S = {r, a, b, c}
    /\ r # a /\ r # b /\ r # c /\ a # b /\ a # c /\ b # c

\* Some tuple of the other vertices of S has a shape.
HasSomeShape(g, r, S) ==
    \E a, b, c : /\ IsFour(S, r, a, b, c)
                 /\ \E kind \in {"111", "112", "122", "123"} : HasShape(g, r, kind, a, b, c)

\* The vertices of a group, from the tuple it is emitted as.
GroupOf(root, e) == {root, e[2][1], e[2][2], e[2][3]}

\* The groups in which the root comes first.
GroupsFrom(g, index, root) ==
    {S \in MotifGroups(g) : root \in S /\ S \ {root} \subseteq Later(g, index, root)}

-----------------------------------------------------------------------------
(* All roots.                                                              *)

\* Directed paths are recorded more than once when two arcs join the same vertices.
PathJobsAreUndirected == \A j \in Jobs : j.kind = "paths" => ~j.graph.directed

\* The positions somebody holds, and those that were worked on.
OpenPositions == {worker[i].idx : i \in {k \in DOMAIN worker : worker[k].pc = "work"}}

FinishedPositions == {p \in DOMAIN m_node_order : p < next_idx} \ OpenPositions

\* The groups that are counted at positions of P.
GroupsAt(P) == {x \in Groups[job] : GroupPosition(m_order_index, x) \in P}

\* R has one record under id for every element of X: those of T that m numbers id,
\* which F matches one to one with the entries of E.
AreRecords(E, T, F, n, m, id, R, X) ==
    /\ F \in Bijection(E, T)
    /\ \A e \in E : n[e] = m[F[e]]
    /\ \A r : r \in R <=> \E e \in E : n[e] = id /\ r = <<id, e>>
    /\ \A x : x \in X <=> x \in T /\ m[x] = id

\* A worker's marks are of roots that were worked on.
MarksAreOfFinishedRoots ==
    job # NoJob /\ job.kind = "motifs" =>
        \A i \in DOMAIN worker : worker[i].pc \in {"claim", "work"} =>
            \A v \in Vertices(Graph) :
                \/ worker[i].bfs_visited[v] = -1
                \/ \E p \in FinishedPositions :
                      worker[i].bfs_visited[v] \div 4 = m_node_order[p]

\* The calling thread joins as many workers as it meant to start.
AllAreJoined == main = "join" => Len(worker) = thread_count

\* The groups with one number among them.
NumberedAt(P, id) == {x \in GroupsAt(P) : GroupNumber[job][x] = id}

\* What is recorded under a number.
RecordedAs(recorded, id) == {r \in recorded : r[1] = id}

\* What the workers' maps have under a number, added up.
Total(id) == SumFunction([i \in DOMAIN worker |-> at(worker[i].local_map, id)])

\* The numbers in the workers' maps, and those of groups.
NumbersCounted == UNION {DOMAIN worker[i].local_map : i \in DOMAIN worker}

NumbersOf(groups) == {GroupNumber[job][x] : x \in groups}

\* CountsAreOfFinishedRoots, number by number.
CountsPerNumber ==
    job # NoJob =>
        /\ NumbersCounted = NumbersOf(GroupsAt(FinishedPositions))
        /\ \A id \in NumbersOf(Groups[job]) :
              Total(id) % COUNT_LIMIT =
                  Cardinality(NumberedAt(FinishedPositions, id)) % COUNT_LIMIT

CountInv ==
    /\ MarksAreOfFinishedRoots
    /\ AllAreJoined
    /\ CountsPerNumber
=============================================================================
