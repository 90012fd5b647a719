-------------------------- MODULE PatternBeamProofs --------------------------
(***************************************************************************)
(* Theorems about PatternBeam, for all graphs and limits: the histogram of *)
(* a state is exact after any absorptions, the pattern of a state is the   *)
(* one its match induces, and the beam stays within its bounds.            *)
(***************************************************************************)
EXTENDS PatternBeam, FiniteLemmas, SequenceTheorems

-----------------------------------------------------------------------------
(* The update of a histogram, as one function of the neighbours added.     *)

\* What the fields of a histogram hold.
Histograms(g) ==
    [match : SUBSET Vertices(g), candidates : SUBSET Vertices(g),
     neighbours : [Vertices(g) -> Int], outside : [Vertices(g) -> [Vertices(g) -> Int]]]

\* The caches of candidate w once it was added because of the vertex absorbed.
CountAfter(h, w) == IF w \in h.candidates THEN h.neighbours[w] + 1 ELSE 1

\* What its sum over vertices outside the match is then.
OutsideAfter(g, h, absorbed, w) ==
    IF w \in h.candidates THEN [h.outside[w] EXCEPT ![absorbed] = @ - 1] ELSE OutsideOf(g, h.match, w)

\* The histogram after the vertices of s were added.
Added(g, h, absorbed, s) ==
    [match      |-> h.match,
     candidates |-> h.candidates \cup s,
     neighbours |-> [w \in Vertices(g) |-> IF w \in s THEN CountAfter(h, w) ELSE h.neighbours[w]],
     outside    |-> [w \in Vertices(g) |->
                        IF w \in s THEN OutsideAfter(g, h, absorbed, w) ELSE h.outside[w]]]

\* It is a histogram.
LEMMA AddedType ==
    ASSUME NEW g, NEW h \in Histograms(g), NEW a \in Vertices(g), NEW s \in SUBSET Vertices(g)
    PROVE  Added(g, h, a, s) \in Histograms(g)
<1>1. \A w \in Vertices(g) : CountAfter(h, w) \in Int
    BY DEF CountAfter, Histograms
<1>2. \A w \in Vertices(g) : OutsideAfter(g, h, a, w) \in [Vertices(g) -> Int]
    BY DEF OutsideAfter, OutsideOf, Histograms
<1>3. QED BY <1>1, <1>2 DEF Added, Histograms

\* One more vertex is what add_vertex_neighbour_to_candidate adds.
LEMMA AddOne ==
    ASSUME NEW g, NEW h \in Histograms(g), NEW a \in Vertices(g), NEW s \in SUBSET Vertices(g),
           NEW x \in s
    PROVE  add_vertex_neighbour_to_candidate(g, Added(g, h, a, s \ {x}), x, a) = Added(g, h, a, s)
<1> DEFINE V == Vertices(g)
           k == Added(g, h, a, s \ {x})
           l == Added(g, h, a, s)
           new == add_vertex_neighbour_to_candidate(g, k, x, a)
<1>1. /\ k \in Histograms(g) /\ l \in Histograms(g)
      /\ k.match = h.match /\ l.match = h.match
      /\ k.candidates \cup {x} = l.candidates
      /\ x \in k.candidates <=> x \in h.candidates
      /\ \A w \in V \ {x} : k.neighbours[w] = l.neighbours[w] /\ k.outside[w] = l.outside[w]
      /\ k.neighbours[x] = h.neighbours[x] /\ k.outside[x] = h.outside[x]
      /\ l.neighbours[x] = CountAfter(h, x) /\ l.outside[x] = OutsideAfter(g, h, a, x)
    <2>1. k \in Histograms(g) /\ l \in Histograms(g)
        BY AddedType
    <2>2. /\ k.match = h.match /\ l.match = h.match
          /\ k.candidates = h.candidates \cup (s \ {x}) /\ l.candidates = h.candidates \cup s
        BY DEF Added
    <2>3. \A w \in V :
              /\ k.neighbours[w] = IF w \in s \ {x} THEN CountAfter(h, w) ELSE h.neighbours[w]
              /\ k.outside[w] = IF w \in s \ {x} THEN OutsideAfter(g, h, a, w) ELSE h.outside[w]
              /\ l.neighbours[w] = IF w \in s THEN CountAfter(h, w) ELSE h.neighbours[w]
              /\ l.outside[w] = IF w \in s THEN OutsideAfter(g, h, a, w) ELSE h.outside[w]
        BY DEF Added
    <2> HIDE DEF k, l
    <2>4. QED BY <2>1, <2>2, <2>3
<1>2. x \in V /\ a \in V
    OBVIOUS
<1> HIDE DEF k, l
<1>3. CASE x \notin h.candidates
    <2> DEFINE o == [u \in V |-> IF u \in get_neighbours(g, x, FALSE) \ k.match THEN 1 ELSE 0]
    <2>1. o = OutsideAfter(g, h, a, x) /\ CountAfter(h, x) = 1
        BY <1>1, <1>3 DEF OutsideAfter, OutsideOf, CountAfter
    <2>2. new = [k EXCEPT !.candidates = @ \cup {x}, !.neighbours[x] = 1, !.outside[x] = o]
        BY <1>1, <1>3 DEF add_vertex_neighbour_to_candidate
    <2> HIDE DEF o, new
    <2>3. /\ new.match = l.match /\ new.candidates = l.candidates
          /\ new.neighbours = [k.neighbours EXCEPT ![x] = 1]
          /\ new.outside = [k.outside EXCEPT ![x] = o]
          /\ new = [match |-> new.match, candidates |-> new.candidates,
                     neighbours |-> new.neighbours, outside |-> new.outside]
        BY <1>1, <2>2 DEF Histograms
    <2>4. new.neighbours = l.neighbours
        BY <1>1, <1>2, <2>1, <2>3 DEF Histograms
    <2>5. new.outside = l.outside
        BY <1>1, <1>2, <2>1, <2>3 DEF Histograms
    <2>6. new = l
        BY <1>1, <2>3, <2>4, <2>5 DEF Histograms
    <2>7. QED BY <2>6 DEF new, k, l
<1>4. CASE x \in h.candidates
    <2>1. /\ l.neighbours[x] = k.neighbours[x] + 1
          /\ l.outside[x] = [k.outside[x] EXCEPT ![a] = @ - 1]
        BY <1>1, <1>4 DEF OutsideAfter, CountAfter
    <2>2. new = [k EXCEPT !.neighbours[x] = @ + 1, !.outside[x][a] = @ - 1]
        BY <1>1, <1>4 DEF add_vertex_neighbour_to_candidate
    <2>3. k.candidates = l.candidates
        BY <1>1, <1>4
    <2> HIDE DEF new
    <2>4. /\ new.match = l.match /\ new.candidates = l.candidates
          /\ new.neighbours = [k.neighbours EXCEPT ![x] = @ + 1]
          /\ new.outside = [k.outside EXCEPT ![x][a] = @ - 1]
          /\ new = [match |-> new.match, candidates |-> new.candidates,
                     neighbours |-> new.neighbours, outside |-> new.outside]
        BY <1>1, <2>2, <2>3 DEF Histograms
    <2>5. new.neighbours = l.neighbours
        BY <1>1, <1>2, <2>1, <2>4 DEF Histograms
    <2>6. new.outside = l.outside
        <3>1. /\ new.outside[x] = [k.outside[x] EXCEPT ![a] = @ - 1]
              /\ \A w \in V \ {x} : new.outside[w] = k.outside[w]
              /\ new.outside = [w \in V |-> new.outside[w]]
            BY <1>1, <1>2, <2>4 DEF Histograms
        <3>2. \A w \in V : new.outside[w] = l.outside[w]
            BY <1>1, <2>1, <3>1
        <3>3. l.outside = [w \in V |-> l.outside[w]]
            BY <1>1 DEF Histograms
        <3> HIDE DEF V
        <3>4. QED BY <3>1, <3>2, <3>3
    <2>7. new = l
        BY <1>1, <2>4, <2>5, <2>6 DEF Histograms
    <2>8. QED BY <2>7 DEF new, k, l
<1>5. QED BY <1>3, <1>4

\* k obeys the recursion by which the vertices of S are added to h.
IsAddition(g, h, a, S, k) ==
    k = [s \in SUBSET S |->
            IF s = {} THEN h
            ELSE add_vertex_neighbour_to_candidate(g, k[s \ {Some(s)}], Some(s), a)]

\* add_all_vertex_neighbours_to_candidate adds them all, in whatever order.
LEMMA AddAll ==
    ASSUME NEW g, IsFiniteSet(Vertices(g)), NEW h \in Histograms(g), NEW a \in Vertices(g),
           NEW reversed \in BOOLEAN
    PROVE  add_all_vertex_neighbours_to_candidate(g, h, a, reversed)
             = Added(g, h, a, get_neighbours(g, a, reversed) \ h.match)
<1> DEFINE S == get_neighbours(g, a, reversed) \ h.match
           iter == CHOOSE k : IsAddition(g, h, a, S, k)
           sum == [s \in SUBSET S |-> Added(g, h, a, s)]
<1>1. S \subseteq Vertices(g) /\ IsFiniteSet(S)
    BY FS_Subset DEF get_neighbours
<1>2. add_all_vertex_neighbours_to_candidate(g, h, a, reversed) = iter[S]
    BY DEF add_all_vertex_neighbours_to_candidate, FoldSet, MapThenFoldSet, Some, IsAddition
<1>3. Added(g, h, a, {}) = h
    BY DEF Added, Histograms
<1> HIDE DEF S
<1>4. \A s \in (SUBSET S) \ {{}} :
          /\ Some(s) \in s
          /\ add_vertex_neighbour_to_candidate(g, Added(g, h, a, s \ {Some(s)}), Some(s), a)
               = Added(g, h, a, s)
    BY <1>1, AddOne, SomeElement
<1>5. IsAddition(g, h, a, S, sum)
    BY <1>3, <1>4 DEF IsAddition
<1> HIDE DEF sum
<1>6. IsAddition(g, h, a, S, iter)
    BY <1>5
<1> HIDE DEF iter
<1> DEFINE P == {s \in SUBSET S : iter[s] = Added(g, h, a, s)}
<1>7. ASSUME NEW s \in SUBSET S, \A x \in s : s \ {x} \in P PROVE s \in P
    <2>1. iter[s] = IF s = {} THEN h
                    ELSE add_vertex_neighbour_to_candidate(g, iter[s \ {Some(s)}], Some(s), a)
        BY <1>6 DEF IsAddition
    <2>2. s # {} => iter[s \ {Some(s)}] = Added(g, h, a, s \ {Some(s)})
        BY <1>4, <1>7
    <2>3. QED BY <1>3, <1>4, <2>1, <2>2
<1> HIDE DEF P
<1>8. \A s \in SUBSET S : s \in P
    BY <1>1, <1>7, SubsetInduction
<1>9. QED BY <1>2, <1>8 DEF P, S

-----------------------------------------------------------------------------
(* A histogram stays exact.                                                *)

\* The caches of a candidate hold what a fresh computation would.
CachesAt(g, h, M, w) ==
    /\ h.neighbours[w] = Cardinality(get_neighbours(g, w, FALSE) \cap M)
    /\ h.outside[w] = OutsideOf(g, M, w)

\* What HistogramsAreExact says of one histogram and the vertices it absorbed.
ExactFor(g, h, M) ==
    /\ h \in Histograms(g)
    /\ h.match = M /\ h.candidates = Around(g, M)
    /\ ~g.directed => \A w \in h.candidates : CachesAt(g, h, M, w)

\* A vertex is around a match when it is off it and a neighbour of one of it.
LEMMA AroundHas ==
    ASSUME NEW g, NEW M \in SUBSET Vertices(g), NEW w
    PROVE  w \in Around(g, M) <=>
             /\ w \notin M
             /\ \E v \in M : w \in get_neighbours(g, v, FALSE) \/ w \in get_neighbours(g, v, TRUE)
<1> DEFINE Rows(v) == get_neighbours(g, v, FALSE) \cup get_neighbours(g, v, TRUE)
           All == UNION {Rows(v) : v \in M}
<1>1. Around(g, M) = All \ M
    BY DEF Around
<1> HIDE DEF Rows
<1>2. w \in All <=> \E v \in M : w \in Rows(v)
    OBVIOUS
<1> HIDE DEF All
<1>3. QED BY <1>1, <1>2 DEF Rows

\* Vertices around a match that grows by one: those around it before and the new one's
\* neighbours, less the match.
LEMMA AroundGrows ==
    ASSUME NEW g, NEW M \in SUBSET Vertices(g), NEW v \in Vertices(g)
    PROVE  /\ Around(g, M) \in SUBSET Vertices(g)
           /\ Around(g, M \cup {v}) = (Around(g, M) \cup get_neighbours(g, v, FALSE)
                                         \cup get_neighbours(g, v, TRUE)) \ (M \cup {v})
<1> DEFINE F == get_neighbours(g, v, FALSE)
           B == get_neighbours(g, v, TRUE)
           A == Around(g, M)
           C == Around(g, M \cup {v})
<1>1. \A w : w \in A <=>
          w \notin M /\ \E u \in M : w \in get_neighbours(g, u, FALSE) \/ w \in get_neighbours(g, u, TRUE)
    BY AroundHas
<1>2. \A w : w \in C <=>
          /\ w \notin M \cup {v}
          /\ \E u \in M \cup {v} : w \in get_neighbours(g, u, FALSE) \/ w \in get_neighbours(g, u, TRUE)
    <2> DEFINE N == M \cup {v}
    <2>1. N \in SUBSET Vertices(g)
        OBVIOUS
    <2> HIDE DEF N
    <2>2. \A w : w \in Around(g, N) <=>
              /\ w \notin N
              /\ \E u \in N : w \in get_neighbours(g, u, FALSE) \/ w \in get_neighbours(g, u, TRUE)
        BY <2>1, AroundHas
    <2>3. QED BY <2>2 DEF N
<1>3. \A w : w \in C <=> w \in (A \cup F \cup B) \ (M \cup {v})
    BY <1>1, <1>2
<1>4. A \subseteq Vertices(g)
    <2>1. \A u : /\ get_neighbours(g, u, FALSE) \subseteq Vertices(g)
                 /\ get_neighbours(g, u, TRUE) \subseteq Vertices(g)
        BY DEF get_neighbours
    <2> HIDE DEF A
    <2>2. QED BY <1>1, <2>1
<1> HIDE DEF A, C, F, B
<1>5. C = (A \cup F \cup B) \ (M \cup {v})
    BY <1>3
<1>6. QED BY <1>4, <1>5 DEF A, C, F, B

\* In an undirected graph rows and reversed rows are the same, and symmetric.
LEMMA UndirectedRows ==
    ASSUME NEW g, IsColoredGraph(g), ~g.directed, NEW v \in Vertices(g)
    PROVE  /\ get_neighbours(g, v, TRUE) = get_neighbours(g, v, FALSE)
           /\ \A w \in Vertices(g) :
                 w \in get_neighbours(g, v, FALSE) <=> v \in get_neighbours(g, w, FALSE)
BY DEF IsColoredGraph, get_neighbours

\* A histogram whose match is empty.
LEMMA EmptyIsExact ==
    ASSUME NEW g
    PROVE  ExactFor(g, EmptyHistogram(g), {})
<1>1. EmptyHistogram(g) \in Histograms(g)
    BY DEF EmptyHistogram, Histograms
<1>2. EmptyHistogram(g).match = {} /\ EmptyHistogram(g).candidates = {}
    BY DEF EmptyHistogram
<1>3. Around(g, {}) = {}
    BY DEF Around
<1>4. QED BY <1>1, <1>2, <1>3 DEF ExactFor

\* The vertex absorbed leaves the candidates and its caches.
Erased(g, h, v) ==
    [h EXCEPT !.match = @ \cup {v}, !.candidates = @ \ {v}, !.neighbours[v] = 0,
              !.outside[v] = [u \in Vertices(g) |-> 0]]

\* Erasing a vertex from a histogram leaves a histogram whose match has it.
LEMMA ErasedIs ==
    ASSUME NEW g, NEW h \in Histograms(g), NEW v \in Vertices(g)
    PROVE  /\ Erased(g, h, v) \in Histograms(g)
           /\ Erased(g, h, v).match = h.match \cup {v}
           /\ Erased(g, h, v).candidates = h.candidates \ {v}
           /\ \A w \in Vertices(g) \ {v} : /\ Erased(g, h, v).neighbours[w] = h.neighbours[w]
                                           /\ Erased(g, h, v).outside[w] = h.outside[w]
<1> DEFINE o == [u \in Vertices(g) |-> 0]
<1>1. o \in [Vertices(g) -> Int]
    OBVIOUS
<1> HIDE DEF o
<1>2. [h.neighbours EXCEPT ![v] = 0] \in [Vertices(g) -> Int]
    BY DEF Histograms
<1>3. [h.outside EXCEPT ![v] = o] \in [Vertices(g) -> [Vertices(g) -> Int]]
    BY <1>1 DEF Histograms
<1>4. Erased(g, h, v) = [match |-> h.match \cup {v}, candidates |-> h.candidates \ {v},
                         neighbours |-> [h.neighbours EXCEPT ![v] = 0],
                         outside |-> [h.outside EXCEPT ![v] = o]]
    <2>1. h = [match |-> h.match, candidates |-> h.candidates, neighbours |-> h.neighbours,
               outside |-> h.outside]
        BY DEF Histograms
    <2>2. Erased(g, h, v) = [h EXCEPT !.match = @ \cup {v}, !.candidates = @ \ {v},
                                      !.neighbours[v] = 0, !.outside[v] = o]
        BY DEF Erased, o
    <2>3. QED BY <2>1, <2>2
<1>5. Erased(g, h, v) \in Histograms(g)
    BY <1>2, <1>3, <1>4 DEF Histograms
<1>6. QED BY <1>4, <1>5 DEF Histograms

\* The histogram that results in an undirected graph.
WithRow(g, h, M, v) ==
    Added(g, Erased(g, h, v), v, get_neighbours(g, v, FALSE) \ (M \cup {v}))

\* The caches of one candidate of an undirected graph after v was absorbed.
LEMMA CachesStayExact ==
    ASSUME NEW g, IsColoredGraph(g), ~g.directed, NEW M \in SUBSET Vertices(g), NEW h,
           ExactFor(g, h, M), NEW v \in Vertices(g) \ M,
           NEW w \in Around(g, M \cup {v})
    PROVE  CachesAt(g, WithRow(g, h, M, v), M \cup {v}, w)
<1> DEFINE e == Erased(g, h, v)
           N(u) == get_neighbours(g, u, FALSE)
           k == Added(g, e, v, N(v) \ (M \cup {v}))
           V == Vertices(g)
<1>1. /\ e \in Histograms(g) /\ h \in Histograms(g)
      /\ e.match = M \cup {v} /\ e.candidates = Around(g, M) \ {v}
      /\ h.candidates = Around(g, M)
      /\ \A u \in V \ {v} : e.neighbours[u] = h.neighbours[u] /\ e.outside[u] = h.outside[u]
    BY ErasedIs DEF ExactFor
<1>2. w \in V /\ w # v /\ w \notin M
      /\ (w \in Around(g, M) \/ w \in N(v))
    <2> DEFINE A == Around(g, M)
               B == Around(g, M \cup {v})
               C == get_neighbours(g, v, FALSE)
    <2>1. B = (A \cup C \cup get_neighbours(g, v, TRUE)) \ (M \cup {v}) /\ A \subseteq V
        BY AroundGrows
    <2>2. get_neighbours(g, v, TRUE) = C /\ C \subseteq V
        BY UndirectedRows DEF get_neighbours
    <2> HIDE DEF A, C
    <2>3. w \in (A \cup C \cup C) \ (M \cup {v})
        BY <2>1, <2>2
    <2>4. QED BY <2>1, <2>2, <2>3 DEF A, C
<1>3. w \in Around(g, M) => /\ h.neighbours[w] = Cardinality(N(w) \cap M)
                            /\ h.outside[w] = OutsideOf(g, M, w)
    BY <1>1 DEF ExactFor, CachesAt
<1>4. w \in N(v) <=> v \in N(w)
    BY <1>2, UndirectedRows
<1>5. IsFiniteSet(N(w) \cap M)
    <2>1. N(w) \cap M \subseteq V /\ IsFiniteSet(V)
        BY DEF get_neighbours, IsColoredGraph
    <2>2. QED BY <2>1, FS_Subset
<1>6. /\ k.neighbours[w] = IF w \in N(v) THEN CountAfter(e, w) ELSE e.neighbours[w]
      /\ k.outside[w] = IF w \in N(v) THEN OutsideAfter(g, e, v, w) ELSE e.outside[w]
    BY <1>2 DEF Added
<1>7. w \notin Around(g, M) => N(w) \cap M = {}
    <2>1. \A u \in V : u \in N(w) <=> w \in N(u)
        BY <1>2, UndirectedRows
    <2>2. w \notin Around(g, M) => \A u \in M : w \notin N(u)
        BY <1>2, AroundHas
    <2>3. QED BY <2>1, <2>2
<1>8. \A u \in V : N(u) \subseteq V
    BY DEF get_neighbours
<1> HIDE DEF N, k, e
<1>9. CASE w \notin N(v)
    <2>1. w \in Around(g, M) /\ k.neighbours[w] = h.neighbours[w] /\ k.outside[w] = h.outside[w]
        BY <1>1, <1>2, <1>6, <1>9
    <2>2. N(w) \cap (M \cup {v}) = N(w) \cap M /\ N(w) \ (M \cup {v}) = N(w) \ M
        BY <1>4, <1>9
    <2>3. OutsideOf(g, M \cup {v}, w) = OutsideOf(g, M, w)
        BY <2>2 DEF OutsideOf, N
    <2>4. QED BY <1>3, <2>1, <2>2, <2>3 DEF k, e, N, CachesAt, WithRow
<1>10. CASE w \in N(v) /\ w \in Around(g, M)
    <2>1. k.neighbours[w] = h.neighbours[w] + 1 /\ k.outside[w] = [h.outside[w] EXCEPT ![v] = @ - 1]
        BY <1>1, <1>2, <1>6, <1>10 DEF CountAfter, OutsideAfter
    <2>2. N(w) \cap (M \cup {v}) = (N(w) \cap M) \cup {v} /\ v \notin N(w) \cap M
        BY <1>4, <1>10
    <2>3. Cardinality(N(w) \cap (M \cup {v})) = Cardinality(N(w) \cap M) + 1
        <3> DEFINE A == N(w) \cap M
        <3>1. IsFiniteSet(A) /\ v \notin A
            BY <1>5, <2>2
        <3> HIDE DEF A
        <3>2. Cardinality(A \cup {v}) = Cardinality(A) + 1
            BY <3>1, FS_AddElement
        <3>3. QED BY <2>2, <3>2 DEF A
    <2>4. [OutsideOf(g, M, w) EXCEPT ![v] = @ - 1] = OutsideOf(g, M \cup {v}, w)
        <3> DEFINE a == OutsideOf(g, M, w)
                   b == OutsideOf(g, M \cup {v}, w)
        <3>1. /\ a \in [V -> Int] /\ b \in [V -> Int]
              /\ \A u \in V : /\ a[u] = IF u \in N(w) \ M THEN 1 ELSE 0
                             /\ b[u] = IF u \in N(w) \ (M \cup {v}) THEN 1 ELSE 0
            BY DEF OutsideOf, N
        <3>2. a[v] = 1 /\ b[v] = 0 /\ \A u \in V \ {v} : a[u] = b[u]
            BY <1>4, <1>10, <3>1
        <3> HIDE DEF a, b
        <3>3. [a EXCEPT ![v] = @ - 1] = b
            BY <3>1, <3>2
        <3>4. QED BY <3>3 DEF a, b
    <2>5. QED BY <1>3, <1>10, <2>1, <2>3, <2>4 DEF k, e, N, CachesAt, WithRow
<1>11. CASE w \in N(v) /\ w \notin Around(g, M)
    <2>1. k.neighbours[w] = 1 /\ k.outside[w] = OutsideOf(g, M \cup {v}, w)
        BY <1>1, <1>2, <1>6, <1>11 DEF CountAfter, OutsideAfter
    <2>2. N(w) \cap (M \cup {v}) = {v}
        BY <1>4, <1>7, <1>11
    <2>3. QED BY <2>1, <2>2, FS_Singleton DEF k, e, N, CachesAt, WithRow
<1>12. QED BY <1>2, <1>9, <1>10, <1>11

\* Absorbing any vertex off the match keeps a histogram exact.
LEMMA AbsorbKeepsExact ==
    ASSUME NEW g, IsColoredGraph(g), NEW M \in SUBSET Vertices(g), NEW h,
           ExactFor(g, h, M), NEW v \in Vertices(g) \ M
    PROVE  ExactFor(g, absorb_vertex(g, h, v), M \cup {v})
<1> DEFINE e == Erased(g, h, v)
           F == get_neighbours(g, v, FALSE) \ (M \cup {v})
           B == get_neighbours(g, v, TRUE) \ (M \cup {v})
           k == Added(g, e, v, F)
           l == Added(g, k, v, B)
<1>1. /\ e \in Histograms(g) /\ e.match = M \cup {v} /\ e.candidates = Around(g, M) \ {v}
    BY ErasedIs DEF ExactFor
<1>2. IsFiniteSet(Vertices(g)) /\ g.directed \in BOOLEAN
    BY DEF IsColoredGraph
<1>3. F \in SUBSET Vertices(g) /\ B \in SUBSET Vertices(g)
    BY DEF get_neighbours
<1>4. add_all_vertex_neighbours_to_candidate(g, e, v, FALSE) = k
    BY <1>1, <1>2, AddAll
<1>5. k \in Histograms(g) /\ k.match = M \cup {v} /\ k.candidates = (Around(g, M) \ {v}) \cup F
    <2>1. k \in Histograms(g)
        BY <1>1, <1>3, AddedType
    <2>2. QED BY <1>1, <2>1 DEF Added
<1>6. /\ Around(g, M \cup {v}) = (Around(g, M) \ {v}) \cup F \cup B
      /\ v \notin F \cup B
    <2>0. v \in Vertices(g)
        OBVIOUS
    <2>1. Around(g, M \cup {v}) = (Around(g, M) \cup get_neighbours(g, v, FALSE)
                                    \cup get_neighbours(g, v, TRUE)) \ (M \cup {v})
        BY <2>0, AroundGrows, ZenonT(40)
    <2> DEFINE A == Around(g, M)
               C == Around(g, M \cup {v})
               Fv == get_neighbours(g, v, FALSE)
               Bv == get_neighbours(g, v, TRUE)
    <2>2. C = (A \cup Fv \cup Bv) \ (M \cup {v})
        BY <2>1
    <2>3. A \cap M = {}
        BY DEF Around
    <2> HIDE DEF A, C, Fv, Bv
    <2>4. C = (A \ {v}) \cup (Fv \ (M \cup {v})) \cup (Bv \ (M \cup {v}))
        BY <2>2, <2>3
    <2>5. QED BY <2>4 DEF A, C, Fv, Bv
<1> HIDE DEF e
<1>7. CASE ~g.directed
    <2>1. absorb_vertex(g, h, v) = k
        BY <1>4, <1>7 DEF absorb_vertex, Erased, e
    <2>2. k.candidates = Around(g, M \cup {v})
        <3>1. k.candidates = (Around(g, M) \ {v}) \cup F
            BY <1>5
        <3>2. Around(g, M \cup {v}) = (Around(g, M) \ {v}) \cup F
            BY <1>7, <1>6, UndirectedRows
        <3>3. QED BY <3>1, <3>2
    <2>3. \A w \in k.candidates : CachesAt(g, k, M \cup {v}, w)
        <3>1. k = WithRow(g, h, M, v)
            BY DEF e, k, F, WithRow
        <3> HIDE DEF k
        <3>2. QED BY <1>7, <2>2, <3>1, CachesStayExact
    <2> HIDE DEF k
    <2>4. QED BY <1>5, <2>1, <2>2, <2>3 DEF ExactFor
<1>8. CASE g.directed
    <2>1. add_all_vertex_neighbours_to_candidate(g, k, v, TRUE) = l
        <3> HIDE DEF k
        <3>1. QED BY <1>2, <1>5, AddAll
    <2>2. absorb_vertex(g, h, v) = l
        BY <1>4, <1>8, <2>1 DEF absorb_vertex, Erased, e
    <2> HIDE DEF k
    <2>3. l \in Histograms(g) /\ l.match = M \cup {v} /\ l.candidates = k.candidates \cup B
        <3>1. l \in Histograms(g)
            BY <1>3, <1>5, AddedType
        <3>2. QED BY <1>5, <3>1 DEF Added
    <2>4. l.candidates = Around(g, M \cup {v})
        BY <1>5, <1>6, <2>3
    <2> HIDE DEF l
    <2>5. QED BY <1>8, <2>2, <2>3, <2>4 DEF ExactFor
<1>9. QED BY <1>2, <1>7, <1>8

-----------------------------------------------------------------------------
(* A state.                                                                *)

\* The vertices of a path.
On(path) == {path[i] : i \in DOMAIN path}

\* The colours along a path.
ColorsOf(g, path) == [i \in DOMAIN path |-> get_vertex_color(g, path[i])]

\* The edges g induces on a path, between positions in it, which are from 0.
Induced(g, path) ==
    {<<e[1] - 1, e[2] - 1>> : e \in
        {e \in (DOMAIN path) \X (DOMAIN path) : is_edge(g, path[e[1]], path[e[2]])}}

\* Each vertex after the first is next to an earlier one.
Grown(g, path) ==
    \A i \in 2 .. Len(path) : path[i] \in Around(g, {path[k] : k \in 1 .. i - 1})

\* A path of a match: vertices that are all different, grown one by one.
IsMatchPath(g, path) ==
    path \in Seq(Vertices(g)) /\ IsInjective(path) /\ Grown(g, path)

\* What a state consists of.
IsRecord(s) ==
    s = [path |-> s.path, pattern |-> s.pattern, hist |-> s.hist,
         color_log_prob |-> s.color_log_prob, beam_score |-> s.beam_score,
         score_valid |-> s.score_valid]

\* What StatesAreInducedMatches and HistogramsAreExact say of one state.
StateFits(g, s) ==
    /\ IsRecord(s)
    /\ IsMatchPath(g, s.path)
    /\ s.pattern = Pattern(ColorsOf(g, s.path), Induced(g, s.path))
    /\ s.color_log_prob = ColorsOf(g, s.path)
    /\ ExactFor(g, s.hist, On(s.path))
    /\ s.score_valid \in BOOLEAN

\* A path and one more vertex.
LEMMA Appended ==
    ASSUME NEW V, NEW path \in Seq(V), NEW v \in V
    PROVE  /\ Append(path, v) \in Seq(V) /\ Len(Append(path, v)) = Len(path) + 1
           /\ Len(path) \in Nat /\ DOMAIN path = 1 .. Len(path)
           /\ DOMAIN Append(path, v) = 1 .. Len(path) + 1
           /\ \A i \in 1 .. Len(path) : Append(path, v)[i] = path[i]
           /\ Append(path, v)[Len(path) + 1] = v
           /\ On(Append(path, v)) = On(path) \cup {v}
<1>1. /\ Append(path, v) \in Seq(V) /\ Len(Append(path, v)) = Len(path) + 1
      /\ Len(path) \in Nat /\ DOMAIN path = 1 .. Len(path)
      /\ DOMAIN Append(path, v) = 1 .. Len(path) + 1
      /\ \A i \in 1 .. Len(path) : Append(path, v)[i] = path[i]
      /\ Append(path, v)[Len(path) + 1] = v
    OBVIOUS
<1>2. \A w : w \in On(Append(path, v)) <=> w \in On(path) \cup {v}
    BY <1>1 DEF On
<1>3. QED BY <1>1, <1>2

\* The colours of the longer path.
LEMMA ColorsAppended ==
    ASSUME NEW g, NEW path \in Seq(Vertices(g)), NEW v \in Vertices(g)
    PROVE  Append(ColorsOf(g, path), get_vertex_color(g, v)) = ColorsOf(g, Append(path, v))
<1> DEFINE a == ColorsOf(g, path)
           c == get_vertex_color(g, v)
           b == ColorsOf(g, Append(path, v))
           C == {get_vertex_color(g, w) : w \in Vertices(g)}
           n == Len(path)
<1>1. /\ a \in Seq(C) /\ Len(a) = n /\ c \in C /\ n \in Nat
      /\ \A i \in 1 .. n : a[i] = get_vertex_color(g, path[i])
    BY Appended DEF ColorsOf
<1>2. /\ b \in Seq(C) /\ Len(b) = n + 1
      /\ \A i \in 1 .. n : b[i] = get_vertex_color(g, path[i])
      /\ b[n + 1] = c
    <2>1. /\ DOMAIN Append(path, v) = 1 .. n + 1 /\ n \in Nat
          /\ \A i \in 1 .. n : Append(path, v)[i] = path[i]
          /\ Append(path, v)[n + 1] = v
          /\ \A i \in 1 .. n + 1 : Append(path, v)[i] \in Vertices(g)
        BY Appended
    <2>2. QED BY <2>1 DEF ColorsOf
<1> HIDE DEF a, b, c, C, n
<1>3. Append(a, c) = b
    BY <1>1, <1>2
<1>4. QED BY <1>3 DEF a, b, c

\* An induced edge is one of the graph between two positions.
LEMMA InducedHas ==
    ASSUME NEW g, NEW path, NEW p
    PROVE  p \in Induced(g, path) <=>
             \E i, k \in DOMAIN path : p = <<i - 1, k - 1>> /\ is_edge(g, path[i], path[k])
<1> DEFINE D == DOMAIN path
           Pairs == {e \in D \X D : is_edge(g, path[e[1]], path[e[2]])}
<1>1. p \in Induced(g, path) <=> \E e \in Pairs : p = <<e[1] - 1, e[2] - 1>>
    BY DEF Induced
<1>2. ASSUME NEW i \in D, NEW k \in D
      PROVE  <<i, k>> \in Pairs <=> is_edge(g, path[i], path[k])
    OBVIOUS
<1>3. \A e \in Pairs : e[1] \in D /\ e[2] \in D /\ e = <<e[1], e[2]>>
    OBVIOUS
<1> HIDE DEF Pairs, D
<1>4. ASSUME NEW e \in Pairs, p = <<e[1] - 1, e[2] - 1>>
      PROVE  \E i, k \in D : p = <<i - 1, k - 1>> /\ is_edge(g, path[i], path[k])
    <2>1. is_edge(g, path[e[1]], path[e[2]])
        BY <1>2, <1>3
    <2>2. QED BY <1>3, <1>4, <2>1
<1>5. ASSUME NEW i \in D, NEW k \in D, p = <<i - 1, k - 1>>, is_edge(g, path[i], path[k])
      PROVE  \E e \in Pairs : p = <<e[1] - 1, e[2] - 1>>
    BY <1>2, <1>5
<1>6. QED BY <1>1, <1>4, <1>5 DEF D

\* An edge found by expand_one_state is one between the new vertex and an earlier one.
LEMMA NewEdgesHas ==
    ASSUME NEW s, s.path \in Seq(Vertices(search_graph)), NEW v, NEW p
    PROVE  p \in new_edges(s, v) <=>
             \E i \in 1 .. Len(s.path) :
                 \/ is_edge(search_graph, v, s.path[i]) /\ p = <<Len(s.path), i - 1>>
                 \/ ~is_directed /\ is_edge(search_graph, v, s.path[i]) /\ p = <<i - 1, Len(s.path)>>
                 \/ is_directed /\ is_edge(search_graph, s.path[i], v) /\ p = <<i - 1, Len(s.path)>>
<1> DEFINE n == Len(s.path)
           Of(i) == (IF is_edge(search_graph, v, s.path[i + 1])
                     THEN {<<n, i>>} \cup IF is_directed THEN {} ELSE {<<i, n>>} ELSE {})
                    \cup (IF is_directed /\ is_edge(search_graph, s.path[i + 1], v) THEN {<<i, n>>} ELSE {})
           Between(i) == \/ is_edge(search_graph, v, s.path[i]) /\ p = <<n, i - 1>>
                         \/ ~is_directed /\ is_edge(search_graph, v, s.path[i]) /\ p = <<i - 1, n>>
                         \/ is_directed /\ is_edge(search_graph, s.path[i], v) /\ p = <<i - 1, n>>
<1>1. new_edges(s, v) = UNION {Of(i) : i \in 0 .. n - 1}
    BY DEF new_edges
<1>2. n \in Nat
    OBVIOUS
<1>3. \A i \in 1 .. n : p \in Of(i - 1) <=> Between(i)
    <2> SUFFICES ASSUME NEW i \in 1 .. n PROVE p \in Of(i - 1) <=> Between(i)
        OBVIOUS
    <2>1. (i - 1) + 1 = i
        BY <1>2
    <2>2. QED BY <2>1
<1> HIDE DEF Of, Between, n
<1>4. p \in new_edges(s, v) <=> \E i \in 0 .. n - 1 : p \in Of(i)
    BY <1>1
<1>5. (\E i \in 0 .. n - 1 : p \in Of(i)) <=> \E i \in 1 .. n : p \in Of(i - 1)
    <2>1. \A i \in 0 .. n - 1 : i + 1 \in 1 .. n /\ (i + 1) - 1 = i
        BY <1>2
    <2>2. \A i \in 1 .. n : i - 1 \in 0 .. n - 1
        BY <1>2
    <2>3. ASSUME NEW i \in 0 .. n - 1, p \in Of(i) PROVE \E k \in 1 .. n : p \in Of(k - 1)
        <3>1. p \in Of((i + 1) - 1)
            BY <2>1, <2>3
        <3>2. QED BY <2>1, <3>1
    <2>4. QED BY <2>2, <2>3
<1>6. p \in new_edges(s, v) <=> \E i \in 1 .. n : Between(i)
    BY <1>3, <1>4, <1>5
<1>7. QED BY <1>6 DEF Between, n

\* With them the edges are those of the longer path.
LEMMA EdgesStayInduced ==
    ASSUME NEW s, IsColoredGraph(search_graph), s.path \in Seq(Vertices(search_graph)),
           NEW v \in Vertices(search_graph)
    PROVE  Induced(search_graph, s.path) \cup new_edges(s, v)
             = Induced(search_graph, Append(s.path, v))
<1> DEFINE g == search_graph
           path == s.path
           n == Len(path)
           longer == Append(path, v)
<1>1. /\ n \in Nat /\ DOMAIN path = 1 .. n /\ DOMAIN longer = 1 .. n + 1
      /\ \A i \in 1 .. n : longer[i] = path[i] /\ path[i] \in Vertices(g)
      /\ longer[n + 1] = v /\ v \in Vertices(g)
    BY Appended
<1>2. ~is_edge(g, v, v)
    BY DEF IsColoredGraph, is_edge
<1>3. ~is_directed => \A u, w \in Vertices(g) : is_edge(g, u, w) <=> is_edge(g, w, u)
    BY DEF IsColoredGraph, is_directed
<1>4. ASSUME NEW p
      PROVE  p \in Induced(g, path) \cup new_edges(s, v) <=> p \in Induced(g, longer)
    <2>1. p \in Induced(g, path) <=>
              \E i, k \in 1 .. n : p = <<i - 1, k - 1>> /\ is_edge(g, path[i], path[k])
        BY <1>1, InducedHas
    <2>2. p \in Induced(g, longer) <=>
              \E i, k \in 1 .. n + 1 : p = <<i - 1, k - 1>> /\ is_edge(g, longer[i], longer[k])
        BY <1>1, InducedHas
    <2>3. p \in new_edges(s, v) <=>
              \E i \in 1 .. n :
                  \/ is_edge(g, v, path[i]) /\ p = <<n, i - 1>>
                  \/ ~is_directed /\ is_edge(g, v, path[i]) /\ p = <<i - 1, n>>
                  \/ is_directed /\ is_edge(g, path[i], v) /\ p = <<i - 1, n>>
        BY NewEdgesHas
    <2> HIDE DEF g, path, n, longer
    <2>4. p \in Induced(g, longer) <=>
              \/ \E i, k \in 1 .. n : p = <<i - 1, k - 1>> /\ is_edge(g, path[i], path[k])
              \/ \E i \in 1 .. n : p = <<n, i - 1>> /\ is_edge(g, v, path[i])
              \/ \E i \in 1 .. n : p = <<i - 1, n>> /\ is_edge(g, path[i], v)
        <3>1. ASSUME NEW i \in 1 .. n + 1, NEW k \in 1 .. n + 1,
                     p = <<i - 1, k - 1>>, is_edge(g, longer[i], longer[k])
              PROVE  \/ \E a, b \in 1 .. n : p = <<a - 1, b - 1>> /\ is_edge(g, path[a], path[b])
                     \/ \E a \in 1 .. n : p = <<n, a - 1>> /\ is_edge(g, v, path[a])
                     \/ \E a \in 1 .. n : p = <<a - 1, n>> /\ is_edge(g, path[a], v)
            <4>1. CASE i \in 1 .. n /\ k \in 1 .. n
                BY <1>1, <3>1, <4>1
            <4>2. CASE i = n + 1 /\ k \in 1 .. n
                <5>1. i - 1 = n
                    BY <1>1, <4>2
                <5>2. QED BY <1>1, <3>1, <4>2, <5>1
            <4>3. CASE i \in 1 .. n /\ k = n + 1
                <5>1. k - 1 = n
                    BY <1>1, <4>3
                <5>2. QED BY <1>1, <3>1, <4>3, <5>1
            <4>4. CASE i = n + 1 /\ k = n + 1
                BY <1>1, <1>2, <3>1, <4>4
            <4>5. QED BY <1>1, <4>1, <4>2, <4>3, <4>4
        <3>2. /\ 1 .. n \subseteq 1 .. n + 1 /\ n + 1 \in 1 .. n + 1 /\ (n + 1) - 1 = n
            BY <1>1
        <3>3. ASSUME \/ \E i, k \in 1 .. n : p = <<i - 1, k - 1>> /\ is_edge(g, path[i], path[k])
                     \/ \E i \in 1 .. n : p = <<n, i - 1>> /\ is_edge(g, v, path[i])
                     \/ \E i \in 1 .. n : p = <<i - 1, n>> /\ is_edge(g, path[i], v)
              PROVE  \E i, k \in 1 .. n + 1 : p = <<i - 1, k - 1>> /\ is_edge(g, longer[i], longer[k])
            <4>1. CASE \E i, k \in 1 .. n : p = <<i - 1, k - 1>> /\ is_edge(g, path[i], path[k])
                BY <1>1, <3>2, <4>1
            <4>2. CASE \E i \in 1 .. n : p = <<n, i - 1>> /\ is_edge(g, v, path[i])
                <5>1. PICK i \in 1 .. n : p = <<(n + 1) - 1, i - 1>> /\ is_edge(g, longer[n + 1], longer[i])
                    BY <1>1, <3>2, <4>2
                <5>2. QED BY <3>2, <5>1
            <4>3. CASE \E i \in 1 .. n : p = <<i - 1, n>> /\ is_edge(g, path[i], v)
                <5>1. PICK i \in 1 .. n : p = <<i - 1, (n + 1) - 1>> /\ is_edge(g, longer[i], longer[n + 1])
                    BY <1>1, <3>2, <4>3
                <5>2. QED BY <3>2, <5>1
            <4>4. QED BY <3>3, <4>1, <4>2, <4>3
        <3>4. QED BY <2>2, <3>1, <3>3
    <2>5. QED BY <1>1, <1>3, <2>1, <2>3, <2>4
<1> HIDE DEF g, path, longer
<1>5. Induced(g, path) \cup new_edges(s, v) = Induced(g, longer)
    BY <1>4
<1>6. QED BY <1>5 DEF g, path, longer

\* The state of one vertex.
LEMMA InitialFits ==
    ASSUME IsColoredGraph(search_graph), NEW v \in Vertices(search_graph)
    PROVE  /\ StateFits(search_graph, create_initial_state(v))
           /\ create_initial_state(v).score_valid = FALSE
<1> DEFINE g == search_graph
           s == create_initial_state(v)
           path == <<v>>
           c == get_vertex_color(g, v)
<1>1. /\ s.path = path /\ s.pattern = Pattern(<<c>>, {}) /\ s.color_log_prob = <<c>>
      /\ s.hist = absorb_vertex(g, EmptyHistogram(g), v) /\ s.score_valid = FALSE
      /\ IsRecord(s)
    BY DEF create_initial_state, IsRecord
<1>2. path \in Seq(Vertices(g)) /\ Len(path) = 1 /\ DOMAIN path = {1} /\ path[1] = v
    OBVIOUS
<1>3. On(path) = {v}
    BY DEF On
<1>4. IsMatchPath(g, path)
    <2>1. IsInjective(path)
        BY <1>2 DEF IsInjective
    <2>2. Grown(g, path)
        BY <1>2 DEF Grown
    <2>3. QED BY <1>2, <2>1, <2>2 DEF IsMatchPath
<1>5. ColorsOf(g, path) = <<c>>
    <2>1. ColorsOf(g, path) = [i \in {1} |-> get_vertex_color(g, path[i])]
        BY <1>2 DEF ColorsOf
    <2>2. \A i \in {1} : get_vertex_color(g, path[i]) = c
        BY <1>2
    <2>3. ColorsOf(g, path) = [i \in 1 .. 1 |-> c]
        BY <2>1, <2>2
    <2>4. QED BY <2>3
<1>6. Induced(g, path) = {}
    <2>1. ~is_edge(g, v, v)
        BY DEF IsColoredGraph, is_edge
    <2> HIDE DEF path, g
    <2>2. \A p : p \notin Induced(g, path)
        BY <1>2, <2>1, InducedHas
    <2>3. QED BY <2>2
<1>7. ExactFor(g, s.hist, On(path))
    <2>1. ExactFor(g, EmptyHistogram(g), {})
        BY EmptyIsExact
    <2> DEFINE e == EmptyHistogram(g)
               M == {}
    <2>2. M \in SUBSET Vertices(g) /\ v \in Vertices(g) \ M /\ ExactFor(g, e, M) /\ IsColoredGraph(g)
        BY <2>1
    <2> HIDE DEF e, M, g
    <2>3. ExactFor(g, absorb_vertex(g, e, v), M \cup {v})
        BY <2>2, AbsorbKeepsExact
    <2>4. M \cup {v} = {v}
        BY DEF M
    <2>5. s.hist = absorb_vertex(g, e, v)
        BY <1>1 DEF e
    <2> HIDE DEF s
    <2>6. QED BY <1>3, <2>3, <2>4, <2>5
<1> HIDE DEF s, path
<1>8. StateFits(g, s)
    BY <1>1, <1>4, <1>5, <1>6, <1>7 DEF StateFits
<1>9. QED BY <1>1, <1>8 DEF s

\* A match path takes any vertex around it.
LEMMA PathGrows ==
    ASSUME NEW g, NEW path, IsMatchPath(g, path), NEW v \in Around(g, On(path))
    PROVE  IsMatchPath(g, Append(path, v)) /\ v \in Vertices(g) \ On(path)
<1> DEFINE n == Len(path)
           longer == Append(path, v)
<1>1. path \in Seq(Vertices(g)) /\ IsInjective(path) /\ Grown(g, path)
    BY DEF IsMatchPath
<1>2. On(path) \in SUBSET Vertices(g)
    BY <1>1 DEF On
<1>3. v \in Vertices(g) \ On(path)
    <2>1. v \notin On(path)
        BY <1>2, AroundHas
    <2>2. \A u : /\ get_neighbours(g, u, FALSE) \subseteq Vertices(g)
                 /\ get_neighbours(g, u, TRUE) \subseteq Vertices(g)
        BY DEF get_neighbours
    <2>3. \E u \in On(path) : v \in get_neighbours(g, u, FALSE) \/ v \in get_neighbours(g, u, TRUE)
        <3> DEFINE M == On(path)
        <3>1. M \in SUBSET Vertices(g) /\ v \in Around(g, M)
            BY <1>2
        <3> HIDE DEF M
        <3>2. \A w : w \in Around(g, M) <=>
                  w \notin M /\ \E u \in M : w \in get_neighbours(g, u, FALSE) \/ w \in get_neighbours(g, u, TRUE)
            BY <3>1, AroundHas
        <3>3. \E u \in M : v \in get_neighbours(g, u, FALSE) \/ v \in get_neighbours(g, u, TRUE)
            BY <3>1, <3>2
        <3>4. QED BY <3>3 DEF M
    <2>4. QED BY <2>1, <2>2, <2>3
<1>4. /\ longer \in Seq(Vertices(g)) /\ Len(longer) = n + 1 /\ n \in Nat
      /\ DOMAIN path = 1 .. n /\ DOMAIN longer = 1 .. n + 1
      /\ \A i \in 1 .. n : longer[i] = path[i]
      /\ longer[n + 1] = v
    BY <1>1, <1>3, Appended
<1>5. \A i \in 1 .. n : path[i] # v
    BY <1>3, <1>4 DEF On
<1>6. {path[k] : k \in 1 .. n} = On(path)
    BY <1>4 DEF On
<1> HIDE DEF longer, n
<1>7. IsInjective(longer)
    BY <1>1, <1>4, <1>5 DEF IsInjective
<1>8. Grown(g, longer)
    <2> SUFFICES ASSUME NEW i \in 2 .. n + 1
                 PROVE  longer[i] \in Around(g, {longer[k] : k \in 1 .. i - 1})
        BY <1>4 DEF Grown
    <2>1. {longer[k] : k \in 1 .. i - 1} = {path[k] : k \in 1 .. i - 1}
        <3>1. \A k \in 1 .. i - 1 : longer[k] = path[k]
            BY <1>4
        <3>2. QED BY <3>1
    <2>2. CASE i \in 2 .. n
        BY <1>1, <1>4, <2>1, <2>2 DEF Grown, n
    <2>3. CASE i = n + 1
        <3>1. i - 1 = n
            BY <1>4, <2>3
        <3>2. {longer[k] : k \in 1 .. i - 1} = On(path)
            BY <1>6, <2>1, <3>1
        <3>3. QED BY <1>4, <2>3, <3>2
    <2>4. QED BY <1>4, <2>2, <2>3
<1>9. IsMatchPath(g, longer)
    BY <1>4, <1>7, <1>8 DEF IsMatchPath
<1>10. QED BY <1>3, <1>9 DEF longer

\* A state takes any of its candidates.
LEMMA ExpandedFits ==
    ASSUME NEW s, IsColoredGraph(search_graph), StateFits(search_graph, s),
           NEW v \in s.hist.candidates
    PROVE  /\ StateFits(search_graph, expand_one_state(s, v))
           /\ expand_one_state(s, v).score_valid = FALSE
<1> DEFINE g == search_graph
           t == expand_one_state(s, v)
           c == get_vertex_color(g, v)
           longer == Append(s.path, v)
<1>1. /\ IsMatchPath(g, s.path) /\ ExactFor(g, s.hist, On(s.path))
      /\ s.pattern = Pattern(ColorsOf(g, s.path), Induced(g, s.path))
      /\ s.color_log_prob = ColorsOf(g, s.path)
    BY DEF StateFits
<1>2. v \in Around(g, On(s.path))
    BY <1>1 DEF ExactFor
<1>3. IsMatchPath(g, longer) /\ v \in Vertices(g) \ On(s.path) /\ s.path \in Seq(Vertices(g))
    BY <1>1, <1>2, PathGrows DEF IsMatchPath
<1>4. s = [path |-> s.path, pattern |-> s.pattern, hist |-> s.hist,
           color_log_prob |-> s.color_log_prob, beam_score |-> s.beam_score,
           score_valid |-> s.score_valid]
    BY DEF StateFits, IsRecord
<1>5. t = [s EXCEPT !.pattern = Pattern(Append(s.pattern.colors, c), s.pattern.edges \cup new_edges(s, v)),
                    !.color_log_prob = Append(s.color_log_prob, c),
                    !.hist = absorb_vertex(g, s.hist, v),
                    !.path = longer,
                    !.score_valid = FALSE]
    BY <1>4 DEF expand_one_state
<1>6. /\ IsRecord(t) /\ t.path = longer /\ t.score_valid = FALSE
      /\ t.hist = absorb_vertex(g, s.hist, v)
      /\ t.color_log_prob = Append(s.color_log_prob, c)
      /\ t.pattern = Pattern(Append(s.pattern.colors, c), s.pattern.edges \cup new_edges(s, v))
    <2> HIDE DEF t, longer, g, c
    <2>1. t = [path |-> longer,
               pattern |-> Pattern(Append(s.pattern.colors, c), s.pattern.edges \cup new_edges(s, v)),
               hist |-> absorb_vertex(g, s.hist, v),
               color_log_prob |-> Append(s.color_log_prob, c),
               beam_score |-> s.beam_score,
               score_valid |-> FALSE]
        BY <1>4, <1>5
    <2>2. QED BY <2>1 DEF IsRecord
<1>7. s.pattern.colors = ColorsOf(g, s.path) /\ s.pattern.edges = Induced(g, s.path)
    BY <1>1 DEF Pattern
<1>8. Append(ColorsOf(g, s.path), c) = ColorsOf(g, longer)
    BY <1>3, ColorsAppended
<1>9. Induced(g, s.path) \cup new_edges(s, v) = Induced(g, longer)
    BY <1>3, EdgesStayInduced
<1>10. ExactFor(g, t.hist, On(longer))
    <2>1. On(longer) = On(s.path) \cup {v}
        BY <1>3, Appended
    <2>2. On(s.path) \in SUBSET Vertices(g)
        BY <1>3 DEF On
    <2> DEFINE M == On(s.path)
    <2>3. IsColoredGraph(g) /\ M \in SUBSET Vertices(g) /\ ExactFor(g, s.hist, M) /\ v \in Vertices(g) \ M
        BY <1>1, <1>3, <2>2
    <2> HIDE DEF M, g
    <2>4. ExactFor(g, absorb_vertex(g, s.hist, v), M \cup {v})
        BY <2>3, AbsorbKeepsExact
    <2> HIDE DEF t, longer
    <2>5. QED BY <1>6, <2>1, <2>4 DEF M
<1> HIDE DEF t, longer, c, g
<1>11. StateFits(g, t)
    <2>1. t.pattern = Pattern(ColorsOf(g, longer), Induced(g, longer))
        BY <1>6, <1>7, <1>8, <1>9
    <2>2. t.color_log_prob = ColorsOf(g, longer)
        BY <1>1, <1>6, <1>8
    <2>3. QED BY <1>3, <1>6, <1>10, <2>1, <2>2 DEF StateFits
<1>12. QED BY <1>6, <1>11 DEF t, g

\* A copy is a state like the one it was made from.
LEMMA CloneFits ==
    ASSUME NEW g, NEW s, StateFits(g, s)
    PROVE  StateFits(g, clone_state(s)) /\ clone_state(s).hist = s.hist
<1>1. s = [path |-> s.path, pattern |-> s.pattern, hist |-> s.hist,
           color_log_prob |-> s.color_log_prob, beam_score |-> s.beam_score,
           score_valid |-> s.score_valid]
    BY DEF StateFits, IsRecord
<1> DEFINE t == clone_state(s)
<1>2. t = [path |-> s.path, pattern |-> s.pattern, hist |-> s.hist,
           color_log_prob |-> s.color_log_prob, beam_score |-> s.beam_score,
           score_valid |-> FALSE]
    <2>1. t = [s EXCEPT !.score_valid = FALSE]
        BY DEF clone_state
    <2> HIDE DEF t
    <2>2. QED BY <1>1, <2>1
<1> HIDE DEF t
<1>3. /\ IsRecord(t) /\ t.path = s.path /\ t.pattern = s.pattern /\ t.hist = s.hist
      /\ t.color_log_prob = s.color_log_prob /\ t.score_valid = FALSE
    BY <1>2 DEF IsRecord
<1>4. QED BY <1>3 DEF StateFits, t

\* So is one that was scored.
LEMMA ScoredFits ==
    ASSUME NEW s, StateFits(search_graph, s)
    PROVE  StateFits(search_graph, Scored(s)) /\ Scored(s).beam_score = score_state(Scored(s))
<1>1. s = [path |-> s.path, pattern |-> s.pattern, hist |-> s.hist,
           color_log_prob |-> s.color_log_prob, beam_score |-> s.beam_score,
           score_valid |-> s.score_valid]
    BY DEF StateFits, IsRecord
<1> DEFINE t == Scored(s)
           score == score_state(s)
<1>2. t = [path |-> s.path, pattern |-> s.pattern, hist |-> s.hist,
           color_log_prob |-> s.color_log_prob, beam_score |-> score, score_valid |-> TRUE]
    <2>1. t = [s EXCEPT !.beam_score = score, !.score_valid = TRUE]
        BY DEF Scored
    <2> HIDE DEF t, score
    <2>2. QED BY <1>1, <2>1
<1> HIDE DEF t, score
<1>3. /\ IsRecord(t) /\ t.path = s.path /\ t.pattern = s.pattern /\ t.hist = s.hist
      /\ t.color_log_prob = s.color_log_prob /\ t.score_valid = TRUE /\ t.beam_score = score
    BY <1>2 DEF IsRecord
<1>4. score_state(t) = score
    BY <1>3 DEF score_state, edge_count, score
<1>5. QED BY <1>3, <1>4 DEF StateFits, t

-----------------------------------------------------------------------------
(* The seeds.                                                              *)

\* What is known of the graphs of a call whose graphs are not empty.
Sane ==
    /\ IsColoredGraph(job.background) /\ IsColoredGraph(search_graph)
    /\ \A v \in Vertices(search_graph) : get_vertex_color(search_graph, v) \in Nat
    /\ job.max_active \in Nat \ {0}
    /\ Vertices(search_graph) # {}

\* There is a colour, and every colour of the search graph has a vertex.
LEMMA ColorsHaveVertices ==
    ASSUME Sane
    PROVE  /\ IsFiniteSet(search_colors) /\ search_colors # {} /\ search_colors \subseteq Nat
           /\ \A c \in search_colors : /\ IsFiniteSet(vertices_by_color(c))
                                       /\ vertices_by_color(c) # {}
                                       /\ capacity(c) \in Nat \ {0}
<1>1. IsFiniteSet(Vertices(search_graph)) /\ Vertices(search_graph) # {}
    BY DEF Sane, IsColoredGraph
<1>2. search_colors # {}
    BY <1>1 DEF search_colors
<1>3. search_colors \subseteq Nat
    BY DEF Sane, search_colors, get_vertex_color
<1>4. IsFiniteSet(search_colors)
    <2> DEFINE f == search_graph.color
    <2>1. search_colors = {f[v] : v \in Vertices(search_graph)}
        BY DEF search_colors
    <2> HIDE DEF f
    <2>2. QED BY <1>1, <2>1, FiniteImage
<1>5. ASSUME NEW c \in search_colors
      PROVE  /\ IsFiniteSet(vertices_by_color(c)) /\ vertices_by_color(c) # {}
             /\ capacity(c) \in Nat \ {0}
    <2>1. vertices_by_color(c) \subseteq Vertices(search_graph)
        BY DEF vertices_by_color
    <2>2. vertices_by_color(c) # {}
        BY DEF search_colors, vertices_by_color, get_vertex_color
    <2>3. IsFiniteSet(vertices_by_color(c))
        BY <1>1, <2>1, FS_Subset
    <2>4. capacity(c) \in Nat /\ capacity(c) # 0
        BY <2>2, <2>3, FS_CardinalityType, FS_EmptySet DEF capacity
    <2>5. QED BY <2>2, <2>3, <2>4
<1>6. QED BY <1>2, <1>3, <1>4, <1>5

\* A colour the background has is there a positive number of times.
LEMMA CountsArePositive ==
    ASSUME Sane, absent_colors = {}
    PROVE  \A c \in search_colors : colors_count(c) \in Nat \ {0}
<1> SUFFICES ASSUME NEW c \in search_colors PROVE colors_count(c) \in Nat \ {0}
    OBVIOUS
<1> DEFINE S == {v \in Vertices(job.background) : get_vertex_color(job.background, v) = c}
<1>1. S \subseteq Vertices(job.background) /\ IsFiniteSet(Vertices(job.background))
    BY DEF Sane, IsColoredGraph
<1>2. colors_count(c) = Cardinality(S)
    BY DEF colors_count
<1> HIDE DEF S
<1>3. colors_count(c) \in Nat
    BY <1>1, <1>2, FS_Subset, FS_CardinalityType
<1>4. colors_count(c) # 0
    BY DEF absent_colors
<1>5. QED BY <1>3, <1>4

\* Colours in the order in which they are tried: at least one, and one alone when the
\* background lacks it.
LEMMA OrderIs ==
    ASSUME Sane, NEW order \in collect_sorted_colors_with_matches
    PROVE  \E n \in Nat \ {0} : /\ order \in [1 .. n -> search_colors] /\ Len(order) = n
                                /\ absent_colors # {} => n = 1
<1>1. CASE absent_colors # {}
    <2>1. order = <<Min(absent_colors)>>
        BY <1>1 DEF collect_sorted_colors_with_matches
    <2>2. absent_colors \subseteq search_colors
        BY DEF absent_colors
    <2>3. IsFiniteSet(absent_colors) /\ absent_colors \subseteq Int
        BY <2>2, ColorsHaveVertices, FS_Subset
    <2>4. Min(absent_colors) \in search_colors
        BY <1>1, <2>2, <2>3, SmallestOfSet
    <2>5. order \in [1 .. 1 -> search_colors] /\ Len(order) = 1
        BY <2>1, <2>4
    <2>6. QED BY <2>5
<1>2. CASE absent_colors = {}
    <2>1. order \in SetToSeqs(search_colors)
        BY <1>2 DEF collect_sorted_colors_with_matches
    <2>2. order \in [1 .. Cardinality(search_colors) -> search_colors]
        BY <2>1 DEF SetToSeqs
    <2>3. Cardinality(search_colors) \in Nat \ {0}
        BY ColorsHaveVertices, FS_CardinalityType, FS_EmptySet
    <2>4. Len(order) = Cardinality(search_colors)
        BY <2>2, <2>3
    <2>5. QED BY <1>2, <2>2, <2>3, <2>4
<1>3. QED BY <1>1, <1>2

\* So are the seeds.
AreSeeds(seeds) ==
    /\ Len(seeds) \in Nat \ {0}
    /\ seeds \in [1 .. Len(seeds) -> search_colors]
    /\ absent_colors # {} => Len(seeds) = 1

\* What is selected of the sorted colours is not empty, and each colour of it is there.
LEMMA SeedsAre ==
    ASSUME Sane, NEW order \in collect_sorted_colors_with_matches
    PROVE  AreSeeds(select_valid_seeds(order))
<1>1. PICK n \in Nat \ {0} : /\ order \in [1 .. n -> search_colors] /\ Len(order) = n
                             /\ absent_colors # {} => n = 1
    BY OrderIs
<1> DEFINE matches == CHOOSE m : m = [i \in 0 .. Len(order) |->
                                        IF i = 0 THEN 0 ELSE m[i - 1] + capacity(order[i])]
           enough == {i \in DOMAIN order : matches[i] >= initial_beam_size * SEED_MATCH_BUFFER_FACTOR}
           m == IF enough = {} THEN Len(order) ELSE Min(enough)
           seeds == SubSeq(order, 1, m)
<1>2. select_valid_seeds(order) = seeds
    BY DEF select_valid_seeds
<1>3. enough \subseteq 1 .. n
    BY <1>1
<1> HIDE DEF enough
<1>4. m \in 1 .. n
    <2>1. IsFiniteSet(1 .. n)
        BY <1>1, FS_Interval
    <2>2. IsFiniteSet(enough) /\ enough \subseteq Int
        <3>1. enough \in SUBSET (1 .. n)
            BY <1>3
        <3>2. IsFiniteSet(enough)
            BY <2>1, <3>1, FS_Subset
        <3>3. QED BY <3>1, <3>2
    <2>3. enough # {} => Min(enough) \in enough
        BY <2>2, SmallestOfSet
    <2>4. CASE enough = {}
        BY <1>1, <2>4
    <2>5. CASE enough # {}
        BY <1>3, <2>3, <2>5
    <2>6. QED BY <2>4, <2>5
<1> HIDE DEF m
<1>5. /\ Len(seeds) = m /\ seeds \in [1 .. m -> search_colors]
    <2>1. \A i \in 1 .. m : order[i] \in search_colors
        BY <1>1, <1>4
    <2>2. m \in Int /\ 1 \in Int /\ 1 <= m /\ m - 1 + 1 = m
        BY <1>4
    <2>3. /\ SubSeq(order, 1, m) \in Seq(search_colors)
          /\ Len(SubSeq(order, 1, m)) = IF 1 <= m THEN m - 1 + 1 ELSE 0
        BY <2>1, <2>2, SubSeqProperties
    <2> HIDE DEF seeds
    <2>4. seeds \in Seq(search_colors) /\ Len(seeds) = m
        BY <2>2, <2>3 DEF seeds
    <2>5. QED BY <2>4
<1> HIDE DEF seeds
<1>6. absent_colors # {} => m = 1
    BY <1>1, <1>4
<1>7. QED BY <1>1, <1>2, <1>4, <1>5, <1>6 DEF AreSeeds

\* Facts about numbers, cited where the numbers are large terms.
LEMMA SmallerIs == \A a, b \in Int : Smaller(a, b) \in {a, b} /\ Smaller(a, b) <= a /\ Smaller(a, b) <= b
BY DEF Smaller

\* What std::max returns.
LEMMA LargerIs == \A a, b \in Int : Larger(a, b) \in {a, b} /\ Larger(a, b) >= a /\ Larger(a, b) >= b
BY DEF Larger

\* When the background has all colours, the weights are positive.
LEMMA WeightsArePositive ==
    ASSUME Sane, absent_colors = {}, NEW seeds, AreSeeds(seeds), NEW i \in DOMAIN seeds
    PROVE  weight(seeds, i) \in Nat \ {0}
<1> DEFINE f == [k \in DOMAIN seeds |-> colors_count(seeds[k])]
           S == DOMAIN seeds \ {i}
           iter == CHOOSE g : IsProduct(f, S, g)
<1>1. DOMAIN seeds = 1 .. Len(seeds) /\ Len(seeds) \in Nat
      /\ \A k \in DOMAIN seeds : seeds[k] \in search_colors
    BY DEF AreSeeds
<1>2. IsFiniteSet(S)
    <2>1. IsFiniteSet(DOMAIN seeds)
        BY <1>1, FS_Interval
    <2>2. QED BY <2>1, FS_RemoveElement
<1>3. \A x \in S : f[x] \in Nat \ {0}
    BY <1>1, CountsArePositive
<1>4. weight(seeds, i) = iter[S]
    BY DEF weight, FoldFunctionOnSet, MapThenFoldSet, Some, IsProduct
<1> HIDE DEF f, S
<1>5. IsProduct(f, S, iter)
    BY <1>2, ProductExists
<1> HIDE DEF iter
<1>6. QED BY <1>2, <1>3, <1>4, <1>5, ProductType

\* The size of the initial beam is a number, possibly zero.
LEMMA TargetIs == ASSUME Sane PROVE initial_beam_size \in Nat
BY DEF Sane, initial_beam_size, INITIAL_BEAM_DIVISOR

\* In proportion to the weights, every seed gets a state, and none more than it has
\* vertices.
LEMMA AllocationFits ==
    ASSUME Sane, NEW seeds, AreSeeds(seeds), NEW alloc \in allocate_proportionally(seeds)
    PROVE  /\ DOMAIN alloc = DOMAIN seeds
           /\ \A i \in DOMAIN seeds : alloc[i] \in 1 .. capacity(seeds[i])
<1> DEFINE n == Len(seeds)
<1>1. /\ n \in Nat \ {0} /\ DOMAIN seeds = 1 .. n
      /\ \A i \in 1 .. n : seeds[i] \in search_colors
    BY DEF AreSeeds
<1>2. \A i \in 1 .. n : capacity(seeds[i]) \in Nat \ {0}
    BY <1>1, ColorsHaveVertices
<1>3. CASE absent_colors # {}
    <2>1. n = 1
        BY <1>3 DEF AreSeeds
    <2>2. alloc \in [DOMAIN seeds -> 1 .. capacity(seeds[1])]
        BY <1>3 DEF allocate_proportionally
    <2>3. \A i \in DOMAIN seeds : i = 1
        BY <1>1, <2>1
    <2> HIDE DEF n
    <2>4. QED BY <2>2, <2>3
<1>4. CASE absent_colors = {}
    <2> DEFINE w == [i \in DOMAIN seeds |-> weight(seeds, i)]
               total == SumFunction(w)
               round(i) == (2 * initial_beam_size * weight(seeds, i) + total) \div (2 * total)
    <2>1. alloc = [i \in DOMAIN seeds |-> Larger(1, Smaller(round(i), capacity(seeds[i])))]
        BY <1>4 DEF allocate_proportionally
    <2>2. \A i \in DOMAIN seeds : w[i] \in Nat \ {0} /\ weight(seeds, i) = w[i]
        BY <1>4, WeightsArePositive
    <2>3. DOMAIN w = 1 .. n
        BY <1>1
    <2> HIDE DEF w
    <2>4. total \in Nat /\ total # 0
        <3>1. IsFiniteSet(1 .. n) /\ 1 \in 1 .. n /\ IsFiniteSet((1 .. n) \ {1})
            <4>1. n \in Int /\ 1 \in Int /\ 1 \in 1 .. n
                BY <1>1
            <4>2. IsFiniteSet(1 .. n)
                BY <4>1, FS_Interval
            <4>3. QED BY <4>1, <4>2, FS_RemoveElement
        <3>2. total = SumFunctionOnSet(w, 1 .. n)
            BY <2>3 DEF SumFunction
        <3> DEFINE R == (1 .. n) \ {1}
                   A == 1 .. n
        <3>3. /\ IsFiniteSet(A) /\ IsFiniteSet(R) /\ 1 \in A /\ R = A \ {1}
              /\ \A x \in A : w[x] \in Int
              /\ \A x \in R : w[x] \in Nat
              /\ w[1] \in Nat \ {0}
            BY <1>1, <2>2, <3>1
        <3> HIDE DEF A, R, n
        <3>4. SumFunctionOnSet(w, A) = w[1] + SumFunctionOnSet(w, A \ {1})
            BY <3>3, SumWithout
        <3>5. SumFunctionOnSet(w, R) \in Nat
            BY <3>3, SumType
        <3> HIDE DEF total
        <3>6. QED BY <3>2, <3>3, <3>4, <3>5 DEF A
    <2> HIDE DEF total
    <2>5. \A i \in DOMAIN seeds : round(i) \in Int
        <3> SUFFICES ASSUME NEW i \in DOMAIN seeds PROVE round(i) \in Int
            OBVIOUS
        <3> DEFINE a == weight(seeds, i)
                   b == initial_beam_size
        <3>1. a \in Nat /\ b \in Nat
            BY <2>2, TargetIs
        <3> HIDE DEF a, b
        <3>2. b * a \in Nat
            BY <3>1
        <3>3. 2 * b * a + total \in Int /\ 2 * total \in Nat \ {0}
            BY <2>4, <3>1, <3>2
        <3>4. \A x \in Int, y \in Nat \ {0} : x \div y \in Int
            OBVIOUS
        <3>5. (2 * b * a + total) \div (2 * total) \in Int
            BY <3>3, <3>4
        <3>6. QED BY <3>5 DEF a, b
    <2> HIDE DEF round
    <2>6. ASSUME NEW i \in DOMAIN seeds PROVE alloc[i] \in 1 .. capacity(seeds[i])
        <3> DEFINE c == capacity(seeds[i])
                   r == round(i)
        <3>1. c \in Nat \ {0} /\ r \in Int /\ alloc[i] = Larger(1, Smaller(r, c))
            BY <1>1, <1>2, <2>1, <2>5
        <3> HIDE DEF c, r
        <3>2. Larger(1, Smaller(r, c)) \in 1 .. c
            BY <3>1 DEF Larger, Smaller
        <3>3. QED BY <3>1, <3>2 DEF c
    <2>7. QED BY <2>1, <2>6
<1>5. QED BY <1>3, <1>4

\* f is what is needed after each of n seeds, when b is at first and the seeds have room.
IsNeeded(f, b, room, n) ==
    f = [i \in 0 .. n |-> IF i = 0 THEN b ELSE f[i - 1] - Smaller(f[i - 1], room[i])]

\* There is such a function: what is left of b once the room of the first seeds is full.
LEMMA NeededExists ==
    ASSUME NEW b \in Nat, NEW n \in Nat, NEW room \in [1 .. n -> Nat]
    PROVE  \E f : IsNeeded(f, b, room, n)
<1> DEFINE sum(i) == SumFunctionOnSet(room, 1 .. i)
           f == [i \in 0 .. n |-> Larger(0, b - sum(i))]
<1>1. sum(0) = 0
    <2>1. 1 .. 0 = {}
        OBVIOUS
    <2>2. QED BY <2>1, SumOfNone
<1>2. \A i \in 0 .. n : sum(i) \in Nat
    <2> SUFFICES ASSUME NEW i \in 0 .. n PROVE sum(i) \in Nat
        OBVIOUS
    <2> DEFINE A == 1 .. i
    <2>1. IsFiniteSet(A) /\ \A x \in A : room[x] \in Nat
        <3>1. i \in Int /\ 1 \in Int /\ \A x \in A : x \in 1 .. n
            OBVIOUS
        <3>2. IsFiniteSet(1 .. i)
            BY <3>1, FS_Interval
        <3>3. QED BY <3>1, <3>2
    <2> HIDE DEF A
    <2>2. SumFunctionOnSet(room, A) \in Nat
        BY <2>1, SumType
    <2>3. QED BY <2>2 DEF A
<1>3. \A i \in 1 .. n : sum(i) = room[i] + sum(i - 1)
    <2> SUFFICES ASSUME NEW i \in 1 .. n PROVE sum(i) = room[i] + sum(i - 1)
        OBVIOUS
    <2> DEFINE A == 1 .. i
    <2>1. IsFiniteSet(A) /\ i \in A /\ \A x \in A : room[x] \in Int
        BY FS_Interval
    <2>2. A \ {i} = 1 .. i - 1
        OBVIOUS
    <2> HIDE DEF A
    <2>3. SumFunctionOnSet(room, A) = room[i] + SumFunctionOnSet(room, A \ {i})
        BY <2>1, SumWithout
    <2>4. QED BY <2>2, <2>3 DEF A
<1> HIDE DEF sum
<1>4. ASSUME NEW i \in 0 .. n
      PROVE  f[i] = IF i = 0 THEN b ELSE f[i - 1] - Smaller(f[i - 1], room[i])
    <2>1. CASE i = 0
        BY <1>1, <2>1 DEF Larger
    <2>2. CASE i # 0
        <3>1. i \in 1 .. n /\ i - 1 \in 0 .. n
            BY <2>2
        <3> DEFINE p == sum(i - 1)
                   q == sum(i)
                   r == room[i]
        <3>2. p \in Nat /\ q \in Nat /\ r \in Nat /\ q = r + p
            BY <1>2, <1>3, <3>1
        <3>3. f[i] = Larger(0, b - q) /\ f[i - 1] = Larger(0, b - p)
            BY <3>1
        <3> HIDE DEF p, q, r
        <3>4. Larger(0, b - q) = Larger(0, b - p) - Smaller(Larger(0, b - p), r)
            BY <3>2 DEF Larger, Smaller
        <3> HIDE DEF f
        <3>5. QED BY <2>2, <3>3, <3>4 DEF r
    <2>3. QED BY <2>1, <2>2
<1> DEFINE step(g, i) == IF i = 0 THEN b ELSE g[i - 1] - Smaller(g[i - 1], room[i])
<1>5. f = [i \in 0 .. n |-> f[i]]
    OBVIOUS
<1> HIDE DEF f
<1>6. f = [i \in 0 .. n |-> step(f, i)]
    BY <1>4, <1>5
<1>7. QED BY <1>6 DEF IsNeeded

\* What a seed takes is no more than it has room for.
LEMMA NeededFalls ==
    ASSUME NEW b \in Nat, NEW n \in Nat, NEW room \in [1 .. n -> Nat], NEW f, IsNeeded(f, b, room, n)
    PROVE  \A i \in 1 .. n : f[i - 1] - f[i] \in 0 .. room[i] /\ f[i] \in Nat /\ f[i - 1] \in Nat
<1>1. \A i \in 0 .. n : f[i] = IF i = 0 THEN b ELSE f[i - 1] - Smaller(f[i - 1], room[i])
    BY DEF IsNeeded
<1> DEFINE P == {i \in Nat : i <= n => f[i] \in Nat}
<1>2. 0 \in P
    BY <1>1
<1>3. ASSUME NEW i \in Nat, i \in P PROVE i + 1 \in P
    <2> SUFFICES ASSUME i + 1 <= n PROVE f[i + 1] \in Nat
        OBVIOUS
    <2>1. f[i] \in Nat /\ room[i + 1] \in Nat /\ f[i + 1] = f[i] - Smaller(f[i], room[i + 1])
        <3>1. i + 1 \in 0 .. n /\ (i + 1) - 1 = i /\ i + 1 # 0 /\ i + 1 \in 1 .. n /\ i <= n
            OBVIOUS
        <3>2. f[i + 1] = f[(i + 1) - 1] - Smaller(f[(i + 1) - 1], room[i + 1])
            BY <1>1, <3>1
        <3>3. QED BY <1>3, <3>1, <3>2
    <2>2. QED BY <2>1 DEF Smaller
<1> HIDE DEF P
<1>4. \A i \in Nat : i \in P
    BY <1>2, <1>3, NumberInduction
<1>5. \A i \in 0 .. n : f[i] \in Nat
    BY <1>4 DEF P
<1>6. ASSUME NEW i \in 1 .. n
      PROVE  f[i - 1] - f[i] \in 0 .. room[i] /\ f[i] \in Nat /\ f[i - 1] \in Nat
    <2>1. f[i - 1] \in Nat /\ f[i] \in Nat /\ room[i] \in Nat
          /\ f[i] = f[i - 1] - Smaller(f[i - 1], room[i])
        BY <1>1, <1>5, SMTT(40)
    <2>2. QED BY <2>1 DEF Smaller
<1>7. QED BY <1>6

\* The quota is filled without going past what a colour has.
LEMMA QuotaFits ==
    ASSUME Sane, NEW seeds, AreSeeds(seeds), NEW alloc \in allocate_proportionally(seeds)
    PROVE  /\ DOMAIN fill_remaining_quota(seeds, alloc) = DOMAIN seeds
           /\ \A i \in DOMAIN seeds : fill_remaining_quota(seeds, alloc)[i] \in 1 .. capacity(seeds[i])
<1> DEFINE n == Len(seeds)
           b == Larger(0, initial_beam_size - SumFunction(alloc))
           room == [i \in 1 .. n |-> capacity(seeds[i]) - alloc[i]]
           IsThis(f) == f = [i \in 0 .. n |->
                               IF i = 0 THEN b
                               ELSE f[i - 1] - Smaller(f[i - 1], capacity(seeds[i]) - alloc[i])]
           needed == CHOOSE f : IsThis(f)
<1>1. /\ n \in Nat /\ DOMAIN seeds = 1 .. n
      /\ \A i \in 1 .. n : seeds[i] \in search_colors
    BY DEF AreSeeds
<1>2. /\ DOMAIN alloc = 1 .. n
      /\ \A i \in 1 .. n : alloc[i] \in 1 .. capacity(seeds[i]) /\ capacity(seeds[i]) \in Nat
    BY <1>1, AllocationFits, ColorsHaveVertices
<1>3. b \in Nat
    <2>1. SumFunction(alloc) \in Nat
        <3> DEFINE A == 1 .. n
        <3>1. IsFiniteSet(A) /\ DOMAIN alloc = A /\ \A i \in A : alloc[i] \in Nat
            BY <1>1, <1>2, FS_Interval, SMTT(40)
        <3> HIDE DEF A, n
        <3>2. SumFunctionOnSet(alloc, A) \in Nat
            BY <3>1, SumType
        <3>3. QED BY <3>1, <3>2 DEF SumFunction
    <2>2. initial_beam_size \in Nat
        BY TargetIs
    <2>3. QED BY <2>1, <2>2 DEF Larger
<1>4. room \in [1 .. n -> Nat]
    BY <1>2
<1>5. fill_remaining_quota(seeds, alloc) = [i \in DOMAIN seeds |-> alloc[i] + needed[i - 1] - needed[i]]
    BY DEF fill_remaining_quota
<1>6. \A f : IsThis(f) <=> IsNeeded(f, b, room, n)
    <2> SUFFICES ASSUME NEW f PROVE IsThis(f) <=> IsNeeded(f, b, room, n)
        OBVIOUS
    <2> DEFINE left(i) == IF i = 0 THEN b ELSE f[i - 1] - Smaller(f[i - 1], capacity(seeds[i]) - alloc[i])
               right(i) == IF i = 0 THEN b ELSE f[i - 1] - Smaller(f[i - 1], room[i])
    <2>1. \A i \in 0 .. n : left(i) = right(i)
        <3>1. \A i \in 0 .. n : i # 0 => i \in 1 .. n
            BY <1>1
        <3>2. QED BY <3>1
    <2>2. [i \in 0 .. n |-> left(i)] = [i \in 0 .. n |-> right(i)]
        <3> HIDE DEF left, right
        <3>1. QED BY <2>1
    <2>3. QED BY <2>2 DEF IsNeeded
<1> HIDE DEF b, room, IsThis
<1>7. IsNeeded(needed, b, room, n)
    <2> HIDE DEF n
    <2>1. \E f : IsNeeded(f, b, room, n)
        BY <1>1, <1>3, <1>4, NeededExists
    <2>2. IsThis(needed)
        BY <1>6, <2>1
    <2>3. QED BY <1>6, <2>2
<1> HIDE DEF needed, n
<1>8. \A i \in 1 .. n : needed[i - 1] - needed[i] \in 0 .. room[i]
                        /\ needed[i] \in Nat /\ needed[i - 1] \in Nat
    BY <1>1, <1>3, <1>4, <1>7, NeededFalls
<1>9. \A i \in 1 .. n : room[i] = capacity(seeds[i]) - alloc[i]
    BY DEF room
<1>10. \A i \in 1 .. n : alloc[i] + needed[i - 1] - needed[i] \in 1 .. capacity(seeds[i])
    BY <1>2, <1>8, <1>9
<1>11. QED BY <1>1, <1>5, <1>10

-----------------------------------------------------------------------------
(* The inductive invariant.                                                *)

\* A score marked valid was computed from the pattern as it is.
ScoreHolds(s) == s.score_valid => s.beam_score = score_state(s)

\* What holds of every state of the search.
Fits(s) == StateFits(search_graph, s) /\ ScoreHolds(s)

\* Where find_pattern is, and what its variables hold there.
ControlInv ==
    /\ pc \in {"idle", "seed", "iterate", "expand", "return"}
    /\ (pc = "idle") <=> (job = NoSearch)
    /\ job \in Jobs \cup {NoSearch}
    /\ iteration \in 0 .. MAX_ITERATIONS
    /\ branching_factor \in Nat /\ any_expanded \in BOOLEAN
    /\ pc = "expand" => iteration < MAX_ITERATIONS

\* The beams, by where find_pattern is.  An iteration that expanded a state has a state
\* for the next one.
BeamsInv ==
    /\ IsFiniteSet(m_beam) /\ IsFiniteSet(expanded_beam)
    /\ pc \in {"idle", "seed"} => m_beam = {}
    /\ pc # "expand" => expanded_beam = {}
    /\ pc = "expand" /\ any_expanded => expanded_beam # {}

\* The inductive invariant.
BeamInv ==
    /\ ControlInv
    /\ BeamsInv
    /\ \A s \in States : Fits(s)
    /\ BeamStaysInBounds

\* The graphs of a call.
LEMMA JobsAreSane ==
    ASSUME NEW j \in Jobs
    PROVE  /\ IsColoredGraph(j.background) /\ IsColoredGraph(j.search)
           /\ \A v \in Vertices(j.search) : get_vertex_color(j.search, v) \in Nat
           /\ j.max_active \in Nat \ {0}
BY BeamAssumption

\* A state that fits does so as long as its call lasts.
LEMMA FitsStay ==
    ASSUME job' = job, NEW s, Fits(s)
    PROVE  Fits(s)'
<1>1. StateFits(search_graph, s)' = StateFits(search_graph, s)
    BY DEF search_graph
<1>2. score_state(s)' = score_state(s)
    BY DEF score_state, edge_count, is_directed, search_graph
<1>3. QED BY <1>1, <1>2 DEF Fits, ScoreHolds

\* The candidates of a state are finitely many vertices, numbers.
LEMMA CandidatesAreNumbers ==
    ASSUME NEW g, IsColoredGraph(g), NEW s, StateFits(g, s), NEW top \in SUBSET s.hist.candidates
    PROVE  IsFiniteSet(top) /\ top \subseteq Int
<1>1. s.hist.candidates \subseteq Vertices(g)
    BY DEF StateFits, ExactFor, Histograms
<1>2. IsFiniteSet(Vertices(g)) /\ Vertices(g) \subseteq Int
    <2>1. IsFiniteSet(Vertices(g)) /\ Vertices(g) = 0 .. vertex_count(g) - 1
        BY DEF IsColoredGraph
    <2>2. vertex_count(g) \in Nat
        BY <2>1, FS_CardinalityType DEF vertex_count
    <2>3. QED BY <2>1, <2>2
<1>3. top \in SUBSET Vertices(g)
    BY <1>1
<1>4. IsFiniteSet(top)
    BY <1>2, <1>3, FS_Subset
<1>5. QED BY <1>2, <1>3, <1>4

\* What a state is expanded to fits, and is not empty.
LEMMA ExpansionFits ==
    ASSUME IsColoredGraph(search_graph), NEW s, Fits(s), NEW top \in SUBSET s.hist.candidates
    PROVE  /\ IsFiniteSet(expand_state(s, top)) /\ expand_state(s, top) # {}
           /\ \A t \in expand_state(s, top) : Fits(t)
<1> DEFINE g == search_graph
           last == Max(top)
           copy == clone_state(s)
           f == [v \in top \ {last} |-> expand_one_state(copy, v)]
           C == {f[v] : v \in top \ {last}}
<1>1. StateFits(g, s)
    BY DEF Fits
<1>2. CASE top = {}
    <2>1. expand_state(s, top) = {s}
        BY <1>2 DEF expand_state
    <2>2. QED BY <2>1, FS_Singleton
<1>3. CASE top # {}
    <2>1. IsFiniteSet(top) /\ top \subseteq Int
        BY <1>1, CandidatesAreNumbers
    <2>2. last \in top
        BY <1>3, <2>1, LargestOfSet
    <2>3. expand_state(s, top) = C \cup {expand_one_state(s, last)}
        BY <1>3 DEF expand_state
    <2>4. IsFiniteSet(C)
        <3> HIDE DEF f, last
        <3>1. IsFiniteSet(top \ {last})
            BY <2>1, FS_RemoveElement
        <3>2. QED BY <3>1, FiniteImage
    <2>5. StateFits(g, copy) /\ copy.hist = s.hist
        BY <1>1, CloneFits
    <2>6. Fits(expand_one_state(s, last))
        <3>1. last \in s.hist.candidates
            BY <2>2
        <3> HIDE DEF last
        <3>2. StateFits(g, expand_one_state(s, last)) /\ expand_one_state(s, last).score_valid = FALSE
            BY <1>1, <3>1, ExpandedFits
        <3>3. QED BY <3>2 DEF Fits, ScoreHolds
    <2>7. ASSUME NEW v \in top \ {last} PROVE Fits(expand_one_state(copy, v))
        <3>1. v \in copy.hist.candidates
            BY <2>5
        <3> HIDE DEF copy
        <3>2. StateFits(g, expand_one_state(copy, v)) /\ expand_one_state(copy, v).score_valid = FALSE
            BY <2>5, <3>1, ExpandedFits
        <3>3. QED BY <3>2 DEF Fits, ScoreHolds
    <2>8. \A t \in C : Fits(t)
        <3> HIDE DEF copy, last
        <3>1. \A v \in top \ {last} : Fits(f[v])
            BY <2>7
        <3> HIDE DEF f
        <3>2. QED BY <3>1
    <2> DEFINE e == expand_one_state(s, last)
    <2>9. IsFiniteSet(C \cup {e})
        <3> HIDE DEF C, e
        <3>1. QED BY <2>4, FS_AddElement
    <2> HIDE DEF C
    <2>10. QED BY <2>3, <2>6, <2>8, <2>9
<1>4. QED BY <1>2, <1>3

-----------------------------------------------------------------------------
(* The steps.                                                              *)

\* The initial states.
LEMMA InitHolds == ASSUME Init PROVE BeamInv
<1>1. ControlInv
    <2>1. MAX_ITERATIONS \in Nat
        BY BeamAssumption
    <2>2. 0 \in 0 .. MAX_ITERATIONS
        BY <2>1
    <2>3. QED BY <2>2 DEF Init, ControlInv
<1>2. BeamsInv
    BY FS_EmptySet DEF Init, BeamsInv
<1>3. States = {}
    BY DEF Init, States
<1>4. BeamStaysInBounds
    BY DEF Init, BeamStaysInBounds
<1>5. QED BY <1>1, <1>2, <1>3, <1>4 DEF BeamInv

\* While a call lasts, states that were there and new ones that fit.
LEMMA StatesStay ==
    ASSUME BeamInv, job' = job, \A s \in States' : s \in States \/ Fits(s)
    PROVE  \A s \in States' : Fits(s)'
<1>1. \A s \in States' : Fits(s)
    BY DEF BeamInv
<1>2. QED BY <1>1, FitsStay

\* The start of a search keeps the invariant: it has no states yet.
LEMMA FindPatternKeeps ==
    ASSUME BeamInv, NEW j \in Jobs, FindPattern(j)
    PROVE  BeamInv'
<1>1. pc = "idle"
    BY DEF FindPattern, BeamInv, ControlInv
<1>2. j # NoSearch
    BY BeamAssumption
<1>3. ControlInv'
    BY <1>2 DEF FindPattern, BeamInv, ControlInv
<1>4. BeamsInv' /\ States' = {}
    BY <1>1 DEF FindPattern, BeamInv, BeamsInv, States
<1>5. BeamStaysInBounds'
    BY DEF FindPattern, BeamStaysInBounds
<1>6. QED BY <1>3, <1>4, <1>5 DEF BeamInv

\* The exception of the constructor keeps the invariant.
LEMMA EmptyGraphThrowsKeeps ==
    ASSUME BeamInv, EmptyGraphThrows
    PROVE  BeamInv'
<1>1. ControlInv'
    BY DEF EmptyGraphThrows, BeamInv, ControlInv
<1>2. BeamsInv' /\ States' = {}
    BY DEF EmptyGraphThrows, BeamInv, BeamsInv, States
<1>3. BeamStaysInBounds'
    BY DEF EmptyGraphThrows, BeamStaysInBounds
<1>4. QED BY <1>1, <1>2, <1>3 DEF BeamInv

\* The states that seeds make.
LEMMA SeedStatesFit ==
    ASSUME Sane, NEW order \in collect_sorted_colors_with_matches,
           NEW seeds, seeds = select_valid_seeds(order),
           NEW alloc \in allocate_proportionally(seeds)
    PROVE  LET beam == create_beam_from_seeds(seeds, fill_remaining_quota(seeds, alloc)) IN
           IsFiniteSet(beam) /\ beam # {} /\ \A s \in beam : Fits(s)
<1> DEFINE counts == fill_remaining_quota(seeds, alloc)
           V == Vertices(search_graph)
           Taken(i) == first_vertices(seeds[i], counts[i])
           f == [v \in V |-> create_initial_state(v)]
           All == {v \in V : \E i \in DOMAIN seeds : v \in Taken(i)}
           beam == create_beam_from_seeds(seeds, counts)
<1>1. AreSeeds(seeds)
    BY SeedsAre
<1>2. \A i \in DOMAIN seeds : counts[i] \in 1 .. capacity(seeds[i])
    BY <1>1, QuotaFits
<1>3. 1 \in DOMAIN seeds /\ seeds[1] \in search_colors
    BY <1>1 DEF AreSeeds
<1>4. \A i : Taken(i) \subseteq V
    BY DEF first_vertices, vertices_by_color
<1>5. beam = UNION {{create_initial_state(v) : v \in Taken(i)} : i \in DOMAIN seeds}
    BY DEF create_beam_from_seeds
<1>6. \E v \in V : v \in Taken(1)
    <2> DEFINE S == vertices_by_color(seeds[1])
               m == Min(S)
    <2>1. IsFiniteSet(S) /\ S # {} /\ counts[1] \in Nat \ {0}
        BY <1>2, <1>3, ColorsHaveVertices
    <2>2. S \subseteq V
        BY DEF vertices_by_color
    <2>3. V \subseteq Int
        <3>1. IsFiniteSet(V) /\ V = 0 .. vertex_count(search_graph) - 1
            BY DEF Sane, IsColoredGraph
        <3>2. vertex_count(search_graph) \in Nat
            BY <3>1, FS_CardinalityType DEF vertex_count
        <3>3. QED BY <3>1, <3>2
    <2> HIDE DEF S, V, counts
    <2>4. m \in S /\ \A u \in S : m <= u
        BY <2>1, <2>2, <2>3, SmallestOfSet
    <2> HIDE DEF m
    <2>5. {u \in S : u < m} = {}
        <3>1. \A u \in S : u \in Int /\ m \in Int /\ m <= u
            BY <2>2, <2>3, <2>4
        <3>2. \A u \in S : ~(u < m)
            BY <3>1
        <3>3. QED BY <3>2
    <2>6. Cardinality({u \in S : u < m}) < counts[1]
        BY <2>1, <2>5, FS_EmptySet
    <2>7. m \in Taken(1)
        BY <2>4, <2>6 DEF first_vertices, S
    <2>8. QED BY <2>2, <2>4, <2>7
<1>7. \A v \in V : Fits(f[v]) /\ f[v] = create_initial_state(v)
    <2> SUFFICES ASSUME NEW v \in V PROVE Fits(create_initial_state(v))
        OBVIOUS
    <2>1. IsColoredGraph(search_graph)
        BY DEF Sane
    <2>2. QED BY <2>1, InitialFits DEF Fits, ScoreHolds
<1> HIDE DEF Taken, f, counts
<1>8. beam = {f[v] : v \in All}
    <2>1. \A s : s \in beam <=> \E i \in DOMAIN seeds : \E v \in Taken(i) : s = create_initial_state(v)
        BY <1>5
    <2> HIDE DEF beam, V
    <2>2. \A s : s \in beam <=> \E v \in All : s = f[v]
        BY <1>4, <1>7, <2>1
    <2> HIDE DEF All
    <2>3. QED BY <2>2
<1>9. IsFiniteSet(All)
    <2>1. IsFiniteSet(V)
        BY DEF Sane, IsColoredGraph
    <2>2. All \in SUBSET V
        OBVIOUS
    <2> HIDE DEF All
    <2>3. QED BY <2>1, <2>2, FS_Subset
<1>10. All # {} /\ All \subseteq V
    BY <1>3, <1>6
<1> HIDE DEF All, beam
<1>11. IsFiniteSet(beam)
    BY <1>8, <1>9, FiniteImage
<1>12. QED BY <1>7, <1>8, <1>10, <1>11 DEF beam, counts

\* The states of the seeds fit, and there is one at least.
LEMMA BuildInitialBeamKeeps ==
    ASSUME BeamInv, BuildInitialBeam
    PROVE  BeamInv'
<1>1. pc = "seed" /\ job \in Jobs /\ job' = job /\ expanded_beam = {} /\ expanded_beam' = {}
      /\ iteration' = 0 /\ any_expanded' = any_expanded /\ branching_factor' = branching_factor
    BY DEF BuildInitialBeam, BeamInv, ControlInv, BeamsInv
<1>2. pc' \in {"return", "iterate"}
    BY DEF BuildInitialBeam, any_state_below_threshold
<1>3. Sane
    BY <1>1, JobsAreSane DEF BuildInitialBeam, Sane, search_graph
<1>4. IsFiniteSet(m_beam') /\ m_beam' # {} /\ \A s \in m_beam' : Fits(s)
    <2>1. PICK order \in collect_sorted_colors_with_matches :
              LET seeds == select_valid_seeds(order) IN
              \E alloc \in allocate_proportionally(seeds) :
                  m_beam' = create_beam_from_seeds(seeds, fill_remaining_quota(seeds, alloc))
        <3>1. m_beam' \in InitialBeams
            BY DEF BuildInitialBeam
        <3>2. QED BY <3>1 DEF InitialBeams
    <2> DEFINE seeds == select_valid_seeds(order)
    <2>2. PICK alloc \in allocate_proportionally(seeds) :
              m_beam' = create_beam_from_seeds(seeds, fill_remaining_quota(seeds, alloc))
        BY <2>1
    <2>3. seeds = select_valid_seeds(order)
        OBVIOUS
    <2> HIDE DEF seeds
    <2>4. QED BY <1>3, <2>2, <2>3, SeedStatesFit
<1>5. ControlInv'
    BY <1>1, <1>2, BeamAssumption DEF BeamInv, ControlInv
<1>6. BeamsInv'
    BY <1>1, <1>2, <1>4, FS_EmptySet DEF BeamsInv
<1>7. \A s \in States' : Fits(s)'
    <2>1. \A s \in States' : Fits(s)
        BY <1>1, <1>4 DEF States
    <2>2. QED BY <1>1, <2>1, StatesStay
<1>8. BeamStaysInBounds'
    BY <1>1, <1>4 DEF BeamStaysInBounds
<1>9. QED BY <1>5, <1>6, <1>7, <1>8 DEF BeamInv

\* The exception of a seed keeps the invariant.
LEMMA SeedThrowsKeeps ==
    ASSUME BeamInv, SeedThrows
    PROVE  BeamInv'
<1>1. job' = job /\ States' = States
    BY DEF SeedThrows, States
<1>2. ControlInv'
    BY DEF SeedThrows, BeamInv, ControlInv
<1>3. BeamsInv'
    BY DEF SeedThrows, BeamInv, BeamsInv
<1>4. \A s \in States' : Fits(s)'
    BY <1>1, StatesStay
<1>5. BeamStaysInBounds'
    BY DEF SeedThrows, BeamStaysInBounds
<1>6. QED BY <1>2, <1>3, <1>4, <1>5 DEF BeamInv

\* A beam that goes into an iteration keeps its states.
LEMMA BeginIterationKeeps ==
    ASSUME BeamInv, BeginIteration
    PROVE  BeamInv'
<1>1. /\ pc = "iterate" /\ job \in Jobs /\ job' = job /\ IsFiniteSet(m_beam)
      /\ m_beam' = m_beam /\ expanded_beam' = {} /\ pc' = "expand" /\ any_expanded' = FALSE
      /\ iteration' = iteration /\ iteration < MAX_ITERATIONS
    BY DEF BeginIteration, BeamInv, ControlInv, BeamsInv
<1>2. branching_factor' \in Nat
    <2> DEFINE n == Cardinality(m_beam)
               k == job.max_active
    <2>1. n \in Nat /\ k \in Nat
        BY <1>1, JobsAreSane, FS_CardinalityType
    <2>2. branching_factor' = Larger(1, k \div Larger(1, n))
        BY DEF BeginIteration
    <2> HIDE DEF n, k
    <2>3. Larger(1, n) \in Nat \ {0}
        BY <2>1 DEF Larger
    <2>4. k \div Larger(1, n) \in Int
        BY <2>1, <2>3
    <2>5. QED BY <2>2, <2>4 DEF Larger
<1>3. ControlInv'
    BY <1>1, <1>2 DEF BeamInv, ControlInv
<1>4. BeamsInv'
    BY <1>1, FS_EmptySet DEF BeamsInv
<1>5. \A s \in States' : Fits(s)'
    <2>1. \A s \in States' : s \in States
        BY <1>1 DEF States
    <2>2. QED BY <1>1, <2>1, StatesStay
<1>6. BeamStaysInBounds'
    BY <1>1 DEF BeamStaysInBounds
<1>7. QED BY <1>3, <1>4, <1>5, <1>6 DEF BeamInv

\* The end of the iterations keeps the invariant.
LEMMA LastIterationKeeps ==
    ASSUME BeamInv, LastIteration
    PROVE  BeamInv'
<1>1. job' = job /\ States' = States
    BY DEF LastIteration, States
<1>2. ControlInv'
    BY DEF LastIteration, BeamInv, ControlInv
<1>3. BeamsInv'
    BY DEF LastIteration, BeamInv, BeamsInv
<1>4. \A s \in States' : Fits(s)'
    BY <1>1, StatesStay
<1>5. BeamStaysInBounds'
    BY DEF LastIteration, BeamStaysInBounds
<1>6. QED BY <1>2, <1>3, <1>4, <1>5 DEF BeamInv

\* The expansions of a state that fits fit, and the copies of it that stay do.
LEMMA ExpandStateKeeps ==
    ASSUME BeamInv, ExpandState
    PROVE  BeamInv'
<1> DEFINE s == NextState
<1>1. /\ pc = "expand" /\ pc' = pc /\ job \in Jobs /\ job' = job
      /\ m_beam # {} /\ m_beam' = m_beam \ {s}
      /\ iteration' = iteration /\ branching_factor' = branching_factor
    BY DEF ExpandState, BeamInv, ControlInv
<1>2. s \in m_beam
    BY <1>1 DEF NextState
<1>3. PICK top \in get_top_k_vertices(s.hist, branching_factor) :
          /\ expanded_beam' = expanded_beam \cup expand_state(s, top)
          /\ any_expanded' = (any_expanded \/ top # {})
    BY DEF ExpandState
<1>4. top \in SUBSET s.hist.candidates
    BY DEF get_top_k_vertices, kSubset
<1> HIDE DEF s
<1> DEFINE new == expand_state(s, top)
<1>5. Fits(s) /\ IsColoredGraph(search_graph)
    BY <1>1, <1>2, JobsAreSane DEF BeamInv, States, search_graph
<1>6. IsFiniteSet(new) /\ new # {} /\ \A t \in new : Fits(t)
    BY <1>4, <1>5, ExpansionFits
<1> HIDE DEF new
<1>7. ControlInv'
    BY <1>1, <1>3 DEF BeamInv, ControlInv
<1>8. BeamsInv'
    <2>1. IsFiniteSet(m_beam) /\ IsFiniteSet(expanded_beam)
        BY DEF BeamInv, BeamsInv
    <2>2. IsFiniteSet(m_beam')
        BY <1>1, <2>1, FS_RemoveElement
    <2>3. expanded_beam' = expanded_beam \cup new
        BY <1>3 DEF new
    <2>4. IsFiniteSet(expanded_beam \cup new)
        BY <1>6, <2>1, FS_Union
    <2>5. QED BY <1>1, <1>6, <2>2, <2>3, <2>4 DEF BeamsInv
<1>9. \A t \in States' : Fits(t)'
    <2>1. \A t \in States' : t \in States \/ Fits(t)
        BY <1>1, <1>3, <1>6 DEF States, new
    <2>2. QED BY <1>1, <2>1, StatesStay
<1>10. BeamStaysInBounds'
    BY <1>1 DEF BeamStaysInBounds
<1>11. QED BY <1>7, <1>8, <1>9, <1>10 DEF BeamInv

\* The exception of a candidate's score, or of its absorption, keeps the invariant.
LEMMA ExpansionThrowsKeeps ==
    ASSUME BeamInv, ExpansionThrows
    PROVE  BeamInv'
<1>1. ControlInv'
    BY DEF ExpansionThrows, BeamInv, ControlInv
<1>2. BeamsInv' /\ States' = {}
    BY FS_EmptySet DEF ExpansionThrows, BeamInv, BeamsInv, States
<1>3. BeamStaysInBounds'
    BY DEF ExpansionThrows, BeamStaysInBounds
<1>4. QED BY <1>1, <1>2, <1>3 DEF BeamInv

\* The end for want of candidates keeps the invariant.
LEMMA NothingExpandedKeeps ==
    ASSUME BeamInv, NothingExpanded
    PROVE  BeamInv'
<1>1. job' = job /\ States' = States
    BY DEF NothingExpanded, States
<1>2. ControlInv'
    BY DEF NothingExpanded, BeamInv, ControlInv
<1>3. BeamsInv'
    BY FS_EmptySet DEF NothingExpanded, BeamInv, BeamsInv
<1>4. \A s \in States' : Fits(s)'
    BY <1>1, StatesStay
<1>5. BeamStaysInBounds'
    BY DEF NothingExpanded, BeamStaysInBounds
<1>6. QED BY <1>2, <1>3, <1>4, <1>5 DEF BeamInv

\* What pruning may keep of n states: at least one, and no more than the maximum.
LEMMA KeepCountsAre ==
    ASSUME NEW n \in Nat, n > 1, job.max_active \in Nat \ {0}, NEW k \in keep_counts(n)
    PROVE  k \in 1 .. job.max_active
<1> DEFINE least == Larger(MIN_STATES_FOR_GAP_PRUNE, (3 * n + 9) \div 10)
           cuts == IF iteration >= PRUNE_WARMUP_ITERATIONS THEN least .. n - 1 ELSE {}
<1>1. PICK c \in {n} \cup cuts : k = Smaller(c, job.max_active)
    BY DEF keep_counts
<1>2. MIN_STATES_FOR_GAP_PRUNE \in Nat \ {0}
    BY BeamAssumption
<1>3. (3 * n + 9) \div 10 \in Int
    OBVIOUS
<1>4. least \in Int /\ least >= 1
    BY <1>2, <1>3, LargerIs
<1> HIDE DEF least
<1>5. c \in Nat /\ c >= 1
    BY <1>1, <1>4
<1>6. QED BY <1>1, <1>5 DEF Smaller

\* Scoring and pruning keep what fits, make scores current, and leave at most the maximum.
LEMMA PruneBeamKeeps ==
    ASSUME BeamInv, PruneBeam
    PROVE  BeamInv'
<1> DEFINE n == Cardinality(expanded_beam)
           f == [s \in expanded_beam |-> Scored(s)]
           C == {f[s] : s \in expanded_beam}
<1>1. /\ pc = "expand" /\ job \in Jobs /\ job' = job /\ any_expanded
      /\ IsFiniteSet(expanded_beam) /\ expanded_beam # {} /\ expanded_beam' = {}
      /\ iteration' = iteration + 1 /\ iteration \in 0 .. MAX_ITERATIONS
      /\ iteration < MAX_ITERATIONS /\ any_expanded' = any_expanded
      /\ branching_factor' = branching_factor
    BY DEF PruneBeam, BeamInv, ControlInv, BeamsInv
<1>2. pc' \in {"return", "iterate"}
    BY DEF PruneBeam, any_state_below_threshold
<1>3. n \in Nat /\ job.max_active \in Nat \ {0}
    BY <1>1, JobsAreSane, FS_CardinalityType
<1>4. IF n <= 1 THEN m_beam' = expanded_beam
      ELSE \E k \in keep_counts(n) : m_beam' \in kSubset(k, C)
    <2>1. C = {Scored(s) : s \in expanded_beam}
        OBVIOUS
    <2> HIDE DEF C
    <2>2. QED BY <2>1 DEF PruneBeam
<1>5. \A s \in expanded_beam : Fits(s) /\ Fits(f[s])
    <2> SUFFICES ASSUME NEW s \in expanded_beam PROVE Fits(s) /\ Fits(Scored(s))
        OBVIOUS
    <2>1. Fits(s)
        BY DEF BeamInv, States
    <2>2. QED BY <2>1, ScoredFits DEF Fits, ScoreHolds
<1> HIDE DEF f
<1>6. IsFiniteSet(C)
    BY <1>1, FiniteImage
<1>7. \A t \in C : Fits(t)
    BY <1>5
<1> HIDE DEF C, n
<1>8. /\ IsFiniteSet(m_beam') /\ m_beam' # {} /\ Cardinality(m_beam') <= job.max_active
      /\ \A s \in m_beam' : Fits(s)
    <2>1. CASE n <= 1
        BY <1>1, <1>3, <1>4, <1>5, <2>1 DEF n
    <2>2. CASE ~(n <= 1)
        <3>1. PICK k \in keep_counts(n) : m_beam' \in kSubset(k, C)
            BY <1>4, <2>2
        <3>2. k \in 1 .. job.max_active
            BY <1>3, <2>2, <3>1, KeepCountsAre
        <3>3. m_beam' \in SUBSET C /\ Cardinality(m_beam') = k
            BY <3>1 DEF kSubset
        <3>4. IsFiniteSet(m_beam')
            BY <1>6, <3>3, FS_Subset
        <3>5. m_beam' # {}
            BY <3>2, <3>3, FS_EmptySet
        <3>6. QED BY <1>3, <1>7, <3>2, <3>3, <3>4, <3>5
    <2>3. QED BY <2>1, <2>2
<1>9. ControlInv'
    <2>1. iteration + 1 \in 0 .. MAX_ITERATIONS
        BY <1>1, BeamAssumption
    <2>2. QED BY <1>1, <1>2, <2>1 DEF BeamInv, ControlInv
<1>10. BeamsInv'
    BY <1>1, <1>2, <1>8, FS_EmptySet DEF BeamsInv
<1>11. \A s \in States' : Fits(s)'
    <2>1. \A s \in States' : Fits(s)
        BY <1>1, <1>8 DEF States
    <2>2. QED BY <1>1, <2>1, StatesStay
<1>12. BeamStaysInBounds'
    BY <1>1, <1>8 DEF BeamStaysInBounds
<1>13. QED BY <1>9, <1>10, <1>11, <1>12 DEF BeamInv

\* The return of the best pattern keeps the invariant.
LEMMA ReturnKeeps ==
    ASSUME BeamInv, Return
    PROVE  BeamInv'
<1>1. ControlInv'
    <2>1. 0 \in 0 .. MAX_ITERATIONS
        BY BeamAssumption
    <2>2. QED BY <2>1 DEF Return, BeamInv, ControlInv
<1>2. BeamsInv' /\ States' = {}
    BY FS_EmptySet DEF Return, BeamInv, BeamsInv, States
<1>3. BeamStaysInBounds'
    BY DEF Return, BeamStaysInBounds
<1>4. QED BY <1>1, <1>2, <1>3 DEF BeamInv

\* The invariant holds in every state.
LEMMA Invariance == Spec => []BeamInv
<1>1. Init => BeamInv
    BY InitHolds
<1>2. ASSUME BeamInv, [Next]_vars PROVE BeamInv'
    <2>1. CASE \E j \in Jobs : FindPattern(j)
        BY <1>2, <2>1, FindPatternKeeps
    <2>2. CASE EmptyGraphThrows
        BY <1>2, <2>2, EmptyGraphThrowsKeeps
    <2>3. CASE BuildInitialBeam
        BY <1>2, <2>3, BuildInitialBeamKeeps
    <2>4. CASE BeginIteration
        BY <1>2, <2>4, BeginIterationKeeps
    <2>5. CASE LastIteration
        BY <1>2, <2>5, LastIterationKeeps
    <2>6. CASE ExpandState
        BY <1>2, <2>6, ExpandStateKeeps
    <2>7. CASE ExpansionThrows
        BY <1>2, <2>7, ExpansionThrowsKeeps
    <2>8. CASE NothingExpanded
        BY <1>2, <2>8, NothingExpandedKeeps
    <2>9. CASE PruneBeam
        BY <1>2, <2>9, PruneBeamKeeps
    <2>10. CASE Return
        BY <1>2, <2>10, ReturnKeeps
    <2>11. CASE UNCHANGED vars
        <3>1. ControlInv' /\ BeamsInv' /\ BeamStaysInBounds' /\ States' = States /\ job' = job
            BY <1>2, <2>11 DEF vars, BeamInv, ControlInv, BeamsInv, BeamStaysInBounds, States
        <3>2. \A s \in States' : Fits(s)'
            BY <1>2, <3>1, StatesStay
        <3>3. QED BY <3>1, <3>2 DEF BeamInv
    <2>12. CASE SeedThrows
        BY <1>2, <2>12, SeedThrowsKeeps
    <2>13. QED
        BY <1>2, <2>1, <2>2, <2>3, <2>4, <2>5, <2>6, <2>7, <2>8, <2>9, <2>10, <2>11, <2>12
        DEF Next, SearchStep
<1>3. QED BY <1>1, <1>2, PTL DEF Spec

-----------------------------------------------------------------------------
(* The theorems.                                                           *)

\* Every reachable state of a search is well typed.
THEOREM TypeCorrect == Spec => []TypeOK
<1>1. ASSUME BeamInv PROVE TypeOK
    <2>1. ASSUME NEW s \in States
          PROVE  /\ s.path \in Seq(Vertices(search_graph))
                 /\ Len(s.pattern.colors) = Len(s.path)
                 /\ s.score_valid \in BOOLEAN
        <3>1. StateFits(search_graph, s)
            BY <1>1 DEF BeamInv, Fits
        <3>2. /\ s.path \in Seq(Vertices(search_graph)) /\ s.score_valid \in BOOLEAN
              /\ s.pattern.colors = ColorsOf(search_graph, s.path)
            BY <3>1 DEF StateFits, IsMatchPath, Pattern
        <3>3. Len(ColorsOf(search_graph, s.path)) = Len(s.path)
            BY <3>2 DEF ColorsOf
        <3>4. QED BY <3>2, <3>3
    <2>2. QED BY <1>1, <2>1 DEF TypeOK, BeamInv, ControlInv
<1>2. QED BY <1>1, Invariance, PTL

\* The pattern of a state is what the search graph induces on its match.
THEOREM PatternsAreInduced == Spec => []StatesAreInducedMatches
<1>1. ASSUME BeamInv PROVE StatesAreInducedMatches
    <2>1. ASSUME NEW s \in States
          PROVE  /\ IsInjective(s.path)
                 /\ Grown(search_graph, s.path)
                 /\ s.pattern.colors = ColorsOf(search_graph, s.path)
                 /\ s.color_log_prob = ColorsOf(search_graph, s.path)
                 /\ s.pattern.edges = Induced(search_graph, s.path)
        <3>1. StateFits(search_graph, s)
            BY <1>1 DEF BeamInv, Fits
        <3>2. QED BY <3>1 DEF StateFits, IsMatchPath, Pattern
    <2>2. QED BY <2>1 DEF StatesAreInducedMatches, Grown, ColorsOf, Induced
<1>2. QED BY <1>1, Invariance, PTL

\* Caches that were only ever incremented and decremented are what a fresh
\* computation would give.
THEOREM CachesAreFresh == Spec => []HistogramsAreExact
<1>1. ASSUME BeamInv PROVE HistogramsAreExact
    <2>1. ASSUME NEW s \in States
          PROVE  /\ s.hist.match = On(s.path)
                 /\ s.hist.candidates = Around(search_graph, s.hist.match)
                 /\ ~is_directed => \A v \in s.hist.candidates :
                       CachesAt(search_graph, s.hist, s.hist.match, v)
        <3>1. StateFits(search_graph, s)
            BY <1>1 DEF BeamInv, Fits
        <3>2. QED BY <3>1 DEF StateFits, ExactFor, is_directed
    <2>2. QED BY <2>1 DEF HistogramsAreExact, On, CachesAt
<1>2. QED BY <1>1, Invariance, PTL

\* No score is marked valid that was computed from an earlier pattern.
THEOREM ScoresStayCurrent == Spec => []ScoresAreCurrent
<1>1. ASSUME BeamInv PROVE ScoresAreCurrent
    BY <1>1 DEF BeamInv, Fits, ScoreHolds, ScoresAreCurrent
<1>2. QED BY <1>1, Invariance, PTL

\* The beam has a state for every iteration, and after the first no more than the maximum.
THEOREM BeamIsBounded == Spec => []BeamStaysInBounds
<1>1. ASSUME BeamInv PROVE BeamStaysInBounds
    BY <1>1 DEF BeamInv
<1>2. QED BY <1>1, Invariance, PTL

\* However the quota is split and filled up, no colour is asked for more vertices than
\* it has, and every seed is asked for one.
THEOREM SeedsFit == Spec => []SeedsFitTheirColors
<1>1. ASSUME BeamInv PROVE SeedsFitTheirColors
    <2> SUFFICES ASSUME pc = "seed", Vertices(job.background) # {}, Vertices(search_graph) # {},
                        NEW order \in collect_sorted_colors_with_matches,
                        NEW alloc \in allocate_proportionally(select_valid_seeds(order)),
                        NEW i \in DOMAIN select_valid_seeds(order)
                 PROVE  fill_remaining_quota(select_valid_seeds(order), alloc)[i]
                          \in 1 .. capacity(select_valid_seeds(order)[i])
        BY DEF SeedsFitTheirColors
    <2> DEFINE seeds == select_valid_seeds(order)
    <2>1. job \in Jobs
        BY <1>1 DEF BeamInv, ControlInv
    <2>2. Sane
        BY <2>1, JobsAreSane DEF Sane, search_graph
    <2>3. AreSeeds(seeds)
        BY <2>2, SeedsAre
    <2>4. alloc \in allocate_proportionally(seeds) /\ i \in DOMAIN seeds
        OBVIOUS
    <2> HIDE DEF seeds
    <2>5. fill_remaining_quota(seeds, alloc)[i] \in 1 .. capacity(seeds[i])
        BY <2>2, <2>3, <2>4, QuotaFits
    <2>6. QED BY <2>5 DEF seeds
<1>2. QED BY <1>1, Invariance, PTL
=============================================================================
