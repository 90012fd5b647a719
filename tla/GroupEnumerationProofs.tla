------------------------ MODULE GroupEnumerationProofs ------------------------
(***************************************************************************)
(* Theorems about GroupEnumeration, for every set of jobs, every number of *)
(* threads and every graph: roots are claimed once, every group is emitted *)
(* once, and whatever the workers do with them, what calculate returns are *)
(* the counts of all groups.                                               *)
(***************************************************************************)
EXTENDS GroupCounting, FiniteLemmas, SequenceTheorems

-----------------------------------------------------------------------------
(* Sequences of workers.                                                   *)

\* A worker changes, the others do not.
LEMMA SeqUpdate ==
    ASSUME NEW s, s \in Seq(Range(s)), NEW i \in DOMAIN s, NEW w
    PROVE  LET t == [s EXCEPT ![i] = w] IN
           /\ t \in Seq(Range(t)) /\ Len(t) = Len(s) /\ DOMAIN t = DOMAIN s
           /\ \A k \in DOMAIN s : t[k] = IF k = i THEN w ELSE s[k]
<1> DEFINE S == Range(s) \cup {w}
<1>1. s \in Seq(S)
    BY SeqMonotonic
<1>2. DOMAIN s = 1 .. Len(s)
    BY <1>1, LenProperties
<1>3. QED BY <1>1, <1>2, ExceptSeq, SeqOfRange, w \in S

\* A worker is added after the others.
LEMMA SeqAppend ==
    ASSUME NEW s, s \in Seq(Range(s)), NEW w
    PROVE  LET t == Append(s, w) IN
           /\ t \in Seq(Range(t)) /\ Len(t) = Len(s) + 1
           /\ DOMAIN t = DOMAIN s \cup {Len(t)} /\ Len(t) \notin DOMAIN s
           /\ \A k \in DOMAIN t : t[k] = IF k = Len(t) THEN w ELSE s[k]
<1> DEFINE S == Range(s) \cup {w}
<1>1. s \in Seq(S) /\ w \in S
    BY SeqMonotonic
<1>2. DOMAIN s = 1 .. Len(s) /\ Len(s) \in Nat
    BY <1>1, LenProperties
<1>3. Append(s, w) \in Seq(S) /\ Len(Append(s, w)) = Len(s) + 1
    BY <1>1
<1>4. \A k \in 1 .. Len(s) + 1 : Append(s, w)[k] = IF k = Len(s) + 1 THEN w ELSE s[k]
    BY <1>1, <1>2
<1>5. DOMAIN Append(s, w) = 1 .. Len(s) + 1
    BY <1>3, LenProperties
<1>6. Append(s, w) \in Seq(Range(Append(s, w)))
    BY <1>3, SeqOfRange
<1> HIDE DEF S
<1>7. 1 .. Len(s) + 1 = 1 .. Len(s) \cup {Len(s) + 1} /\ Len(s) + 1 \notin 1 .. Len(s)
    BY <1>2
<1>8. QED BY <1>2, <1>3, <1>4, <1>5, <1>6, <1>7

-----------------------------------------------------------------------------
(* Type correctness of the workers' records.                               *)

\* What TypeOK says during a calculation.
LEMMA JobType ==
    ASSUME TypeOK, job # NoJob
    PROVE  /\ job \in Jobs
           /\ IsColoredGraph(Graph)
           /\ job.kind \in {"motifs", "paths"}
           /\ m_node_order \in Bijection(Vertices(Graph), Vertices(Graph))
           /\ Len(worker) <= thread_count
           /\ \A i \in DOMAIN worker : IsWorker(worker[i])
BY EnumerationAssumption DEF TypeOK, Graph

\* Workers exist during calculations only.
LEMMA WorkersInJobs ==
    ASSUME TypeOK, NEW i \in DOMAIN worker PROVE job # NoJob
BY DEF TypeOK

\* A step that moves one worker keeps TypeOK when it keeps that worker's type.
LEMMA WorkerFrame ==
    ASSUME TypeOK, NEW i \in DOMAIN worker, NEW w, IsWorker(w),
           worker' = [worker EXCEPT ![i] = w], next_idx' \in Nat,
           UNCHANGED <<job, m_node_order, main, counts>>
    PROVE  TypeOK'
<1>1. job # NoJob
    BY WorkersInJobs
<1>2. /\ worker' \in Seq(Range(worker')) /\ Len(worker') = Len(worker)
      /\ \A k \in DOMAIN worker' : worker'[k] = IF k = i THEN w ELSE worker[k]
      /\ DOMAIN worker' = DOMAIN worker
    <2>1. worker \in Seq(Range(worker))
        BY DEF TypeOK
    <2>2. QED BY <2>1, SeqUpdate, Zenon
<1>3. ASSUME NEW k \in DOMAIN worker' PROVE IsWorker(worker'[k])
    BY <1>1, <1>2, JobType
<1>4. ASSUME NEW k \in DOMAIN worker' PROVE IsWorker(worker[k])'
    BY <1>3 DEF IsWorker, Graph
<1>5. (Len(worker) <= thread_count)'
    BY <1>1, <1>2 DEF TypeOK, thread_count, order_size, Graph
<1>6. (worker \in Seq(Range(worker)))'
    BY <1>2 DEF Range
<1>7. QED BY <1>1, <1>4, <1>5, <1>6 DEF TypeOK, Graph

\* The type of a worker, one field at a time.
LEMMA FieldsOfWorker ==
    ASSUME TypeOK, NEW i \in DOMAIN worker
    PROVE  LET w == worker[i] IN
           /\ w \in [pc : {w.pc}, idx : Nat, bfs_visited : {w.bfs_visited},
                     local_map : {w.local_map}, failed : BOOLEAN]
           /\ w.bfs_visited \in [DOMAIN w.bfs_visited -> Int]
           /\ w.local_map \in [DOMAIN w.local_map -> 0 .. COUNT_LIMIT - 1]
           /\ w.failed => w.pc = "done"
           /\ w.pc \in {"claim", "work"} /\ job.kind = "motifs" =>
                DOMAIN w.bfs_visited = Vertices(Graph)
           /\ w.pc = "work" => w.idx \in DOMAIN m_node_order
BY JobType, WorkersInJobs DEF IsWorker

\* A worker sets up its table of marks.
LEMMA StartWorkerType ==
    ASSUME TypeOK, NEW i \in DOMAIN worker, StartWorker(i) PROVE TypeOK'
<1> DEFINE visited == IF job.kind = "motifs" THEN [v \in Vertices(Graph) |-> -1] ELSE <<>>
           w == [worker[i] EXCEPT !.pc = "claim", !.bfs_visited = visited]
<1>1. worker' = [worker EXCEPT ![i] = w]
    BY DEF StartWorker
<1>2. /\ visited \in [DOMAIN visited -> Int]
      /\ job.kind = "motifs" => DOMAIN visited = Vertices(Graph)
    <2>1. CASE job.kind = "motifs"
        BY <2>1
    <2>2. CASE job.kind # "motifs"
        <3>1. visited = <<>> /\ DOMAIN <<>> = {}
            BY <2>2
        <3>2. QED BY <2>2, <3>1
    <2>3. QED BY <2>1, <2>2
<1> HIDE DEF visited
<1>3. IsWorker(w)
    BY <1>2, FieldsOfWorker DEF IsWorker, StartWorker
<1> HIDE DEF w
<1>4. QED BY <1>1, <1>3, WorkerFrame DEF StartWorker, TypeOK

\* A worker that fails at its start has ended.
LEMMA FailToStartType ==
    ASSUME TypeOK, NEW i \in DOMAIN worker, FailToStart(i) PROVE TypeOK'
<1> DEFINE w == [worker[i] EXCEPT !.pc = "done", !.failed = TRUE]
<1>1. worker' = [worker EXCEPT ![i] = w]
    BY DEF FailToStart
<1>2. IsWorker(w)
    BY FieldsOfWorker DEF IsWorker
<1>3. QED BY <1>1, <1>2, WorkerFrame DEF FailToStart, TypeOK

\* Vertices are numbered from 0, so the loop's test bounds a read of the order.
LEMMA RootIsInOrder ==
    ASSUME TypeOK, job # NoJob, NEW k \in Nat, HasRoot(k)
    PROVE  k \in DOMAIN m_node_order
BY JobType, FS_CardinalityType
   DEF IsColoredGraph, HasRoot, order_size, vertex_count, Bijection, Injection

\* A claim hands out a position of the order, or ends the worker.
LEMMA ClaimRootType ==
    ASSUME TypeOK, NEW i \in DOMAIN worker, ClaimRoot(i) PROVE TypeOK'
<1> DEFINE w == [worker[i] EXCEPT !.idx = next_idx,
                                  !.pc = IF HasRoot(next_idx) THEN "work" ELSE "done"]
<1>1. worker' = [worker EXCEPT ![i] = w]
    BY DEF ClaimRoot
<1>2. next_idx \in Nat /\ next_idx' \in Nat /\ job # NoJob
    BY WorkersInJobs DEF ClaimRoot, TypeOK
<1>3. HasRoot(next_idx) => next_idx \in DOMAIN m_node_order
    BY <1>2, RootIsInOrder
<1>4. IsWorker(w)
    BY <1>2, <1>3, FieldsOfWorker DEF IsWorker, ClaimRoot
<1>5. QED BY <1>1, <1>2, <1>4, WorkerFrame DEF ClaimRoot

\* Marking writes numbers over numbers.
LEMMA MarkType ==
    ASSUME NEW visited, visited \in [DOMAIN visited -> Int], NEW root \in Int,
           NEW S, NEW depth \in Int
    PROVE  LET m == mark_neighbours(visited, root, S, depth) IN
           DOMAIN m = DOMAIN visited /\ m \in [DOMAIN m -> Int]
BY DEF mark_neighbours, run_id

\* Marking changes entries of the table and adds none.
LEMMA MarksType ==
    ASSUME NEW g, NEW index, NEW visited, visited \in [DOMAIN visited -> Int],
           NEW root \in Int
    PROVE  LET one  == mark_depth_one(g, visited, root)
               done == mark_deeper(g, index, visited, root) IN
           /\ DOMAIN one = DOMAIN visited /\ one \in [DOMAIN one -> Int]
           /\ DOMAIN done = DOMAIN visited /\ done \in [DOMAIN done -> Int]
<1> DEFINE v0 == [visited EXCEPT ![root] = run_id(root)]
           v2(S) == mark_neighbours(visited, root, S, 2)
<1>1. DOMAIN v0 = DOMAIN visited /\ v0 \in [DOMAIN v0 -> Int]
    <2>1. v0 = [v \in DOMAIN visited |-> IF v = root THEN 4 * root ELSE visited[v]]
        BY DEF run_id
    <2>2. \A v \in DOMAIN visited : (IF v = root THEN 4 * root ELSE visited[v]) \in Int
        OBVIOUS
    <2> HIDE DEF v0
    <2>3. QED BY <2>1, <2>2
<1>2. \A S : DOMAIN v2(S) = DOMAIN visited /\ v2(S) \in [DOMAIN v2(S) -> Int]
    BY MarkType
<1> HIDE DEF v0, v2
<1>3. \A S : LET m == mark_neighbours(v0, root, S, 1) IN
             DOMAIN m = DOMAIN visited /\ m \in [DOMAIN m -> Int]
    BY <1>1, MarkType
<1>4. \A S, T : LET m == mark_neighbours(v2(S), root, T, 3) IN
             DOMAIN m = DOMAIN visited /\ m \in [DOMAIN m -> Int]
    BY <1>2, MarkType
<1>5. QED BY <1>3, <1>4 DEF mark_depth_one, mark_deeper, v0, v2

-----------------------------------------------------------------------------
(* A root records finitely many groups, so their number can be counted.    *)

\* A finite set has finitely many triples, of each kind.
LEMMA FiniteTriples ==
    ASSUME NEW A, IsFiniteSet(A)
    PROVE  IsFiniteSet({"111", "112", "122", "123"} \X (A \X A \X A))
<1> DEFINE P == A \X A
           T == A \X A \X A
           f == [p \in P \X A |-> <<p[1][1], p[1][2], p[2]>>]
<1>1. IsFiniteSet(P \X A)
    BY FS_Product
<1>2. f \in Surjection(P \X A, T)
    <2>1. ASSUME NEW p \in P \X A PROVE f[p] \in T
        OBVIOUS
    <2>2. ASSUME NEW t \in T PROVE \E p \in P \X A : f[p] = t
        <3>1. PICK a \in A, b \in A, c \in A : t = <<a, b, c>>
            OBVIOUS
        <3>2. <<<<a, b>>, c>> \in P \X A /\ f[<<<<a, b>>, c>>] = t
            BY <3>1
        <3>3. QED BY <3>2
    <2>3. QED BY <2>1, <2>2 DEF Surjection
<1>3. IsFiniteSet(T)
    BY <1>1, <1>2, FS_Surjection
<1>4. IsFiniteSet({"111", "112", "122", "123"})
    <2>1. IsFiniteSet({"111"})
        BY FS_Singleton
    <2>2. IsFiniteSet({"111"} \cup {"112"})
        BY <2>1, FS_AddElement
    <2>3. IsFiniteSet({"111"} \cup {"112"} \cup {"122"})
        BY <2>2, FS_AddElement
    <2>4. IsFiniteSet({"111"} \cup {"112"} \cup {"122"} \cup {"123"})
        BY <2>3, FS_AddElement
    <2>5. {"111", "112", "122", "123"} = {"111"} \cup {"112"} \cup {"122"} \cup {"123"}
        OBVIOUS
    <2>6. QED BY <2>4, <2>5
<1>5. QED BY <1>3, <1>4, FS_Product

\* A root has finitely many groups.
LEMMA StreamOfGroupsIsFinite ==
    ASSUME NEW g, IsFiniteSet(Vertices(g)), NEW index, NEW visited, NEW root
    PROVE  IsFiniteSet(stream_groups(g, index, visited, root))
<1> DEFINE V == Vertices(g)
           kinds == {"111", "112", "122", "123"}
<1>1. depth_one(g, index, root) \subseteq V
    BY DEF depth_one, not_before, neighbour_range, get_neighbours
<1>2. emit_depth_1_1_1(g, index, visited, root) \subseteq kinds \X (V \X V \X V)
    BY <1>1 DEF emit_depth_1_1_1
<1>3. emit_depth_1_1_2(g, index, visited, root) \subseteq kinds \X (V \X V \X V)
    BY <1>1 DEF emit_depth_1_1_2
<1>4. emit_depth_1_2_2(g, index, visited, root) \subseteq kinds \X (V \X V \X V)
    BY <1>1 DEF emit_depth_1_2_2
<1>5. emit_depth_1_2_3(g, index, visited, root) \subseteq kinds \X (V \X V \X V)
    BY <1>1 DEF emit_depth_1_2_3
<1>6. stream_groups(g, index, visited, root) \subseteq kinds \X (V \X V \X V)
    BY <1>2, <1>3, <1>4, <1>5 DEF stream_groups
<1>7. IsFiniteSet(kinds \X (V \X V \X V))
    BY FiniteTriples
<1>8. QED BY <1>6, <1>7, FS_Subset

\* A half-path is two vertices and a direction.
LEMMA FiniteHalves ==
    ASSUME NEW V, IsFiniteSet(V) PROVE IsFiniteSet(V \X V \X BOOLEAN)
<1> DEFINE T == V \X V \X BOOLEAN
           S == (V \X V) \X BOOLEAN
           f == [p \in S |-> <<p[1][1], p[1][2], p[2]>>]
<1>1. IsFiniteSet({TRUE} \cup {FALSE})
    BY FS_Singleton, FS_AddElement
<1>2. BOOLEAN = {TRUE} \cup {FALSE}
    OBVIOUS
<1>3. IsFiniteSet(S)
    BY <1>1, <1>2, FS_Product
<1>4. f \in Surjection(S, T)
    <2>1. ASSUME NEW p \in S PROVE f[p] \in T
        OBVIOUS
    <2>2. ASSUME NEW t \in T PROVE \E p \in S : f[p] = t
        <3>1. PICK a \in V, b \in V, c \in BOOLEAN : t = <<a, b, c>>
            OBVIOUS
        <3>2. <<<<a, b>>, c>> \in S /\ f[<<<<a, b>>, c>>] = t
            BY <3>1
        <3>3. QED BY <3>2
    <2>3. QED BY <2>1, <2>2 DEF Surjection
<1>5. QED BY <1>3, <1>4, FS_Surjection

\* A root has finitely many paths.
LEMMA StreamOfPathsIsFinite ==
    ASSUME NEW g, IsFiniteSet(Vertices(g)), g.directed \in BOOLEAN, NEW root
    PROVE  IsFiniteSet(stream_paths(g, root))
<1> DEFINE V == Vertices(g)
           H == V \X V \X BOOLEAN
           kinds == {"out-out"} \cup {"out-in"} \cup {"in-in"}
<1>1. \A r \in BOOLEAN : get_neighbours(g, root, r) \subseteq V
    BY DEF get_neighbours
<1>2. neighbour_pairs(g, root) \subseteq kinds \X (V \X V)
    BY <1>1 DEF neighbour_pairs
<1>3. ASSUME NEW v \in V PROVE half_paths(g, root, v) \subseteq H
    <2>1. directions(g) \subseteq BOOLEAN
        BY DEF directions
    <2>2. ASSUME NEW d \in BOOLEAN, NEW w \in get_neighbours(g, v, d)
          PROVE  <<v, w, d>> \in H
        BY DEF get_neighbours
    <2>3. QED BY <2>1, <2>2 DEF half_paths
<1>4. stream_paths(g, root) \subseteq kinds \X (H \X H)
    <2> SUFFICES ASSUME NEW pair \in neighbour_pairs(g, root),
                        NEW e \in half_paths(g, root, pair[2][1]) \X half_paths(g, root, pair[2][2])
                 PROVE  <<pair[1], e>> \in kinds \X (H \X H)
        BY DEF stream_paths
    <2>1. pair[1] \in kinds /\ pair[2][1] \in V /\ pair[2][2] \in V
        BY <1>2
    <2>2. e \in H \X H
        BY <1>3, <2>1
    <2>3. QED BY <2>1, <2>2
<1>5. IsFiniteSet(kinds)
    <2>1. IsFiniteSet({"out-out"} \cup {"out-in"})
        BY FS_Singleton, FS_AddElement
    <2>2. QED BY <2>1, FS_AddElement
<1>6. IsFiniteSet(kinds \X (H \X H))
    BY <1>5, FiniteHalves, FS_Product
<1>7. QED BY <1>4, <1>6, FS_Subset

\* What is recorded is what is emitted, each with its identifier.
LEMMA RecordedIsFinite ==
    ASSUME TypeOK, job # NoJob, NEW visited, NEW root
    PROVE  IsFiniteSet(Recorded(visited, root))
<1>1. IsFiniteSet(Vertices(Graph)) /\ Graph.directed \in BOOLEAN
    BY JobType DEF IsColoredGraph
<1>2. CASE job.kind = "motifs"
    <2> DEFINE S == stream_groups(Graph, m_order_index, visited, root)
               f == [e \in S |->
                       <<MotifNumbers[Graph][{root, e[2][1], e[2][2], e[2][3]}], e>>]
    <2>1. f \in Surjection(S, Recorded(visited, root))
        BY <1>2 DEF Recorded, Surjection
    <2>2. QED BY <1>1, <2>1, StreamOfGroupsIsFinite, FS_Surjection
<1>3. CASE job.kind # "motifs"
    <2> DEFINE S == stream_paths(Graph, root)
               f == [e \in S |-> <<PathNumber(Graph, root, e[2]), e>>]
    <2>1. f \in Surjection(S, Recorded(visited, root))
        BY <1>3 DEF Recorded, Surjection
    <2>2. QED BY <1>1, <2>1, StreamOfPathsIsFinite, FS_Surjection
<1>4. QED BY <1>2, <1>3

-----------------------------------------------------------------------------
(* TypeOK is inductive.                                                    *)

\* Counts wrap at COUNT_LIMIT.
LEMMA CountsType ==
    ASSUME NEW map, map \in [DOMAIN map -> 0 .. COUNT_LIMIT - 1],
           NEW recorded, IsFiniteSet(recorded)
    PROVE  LET m == add_to_counts(map, recorded) IN
           m \in [DOMAIN m -> 0 .. COUNT_LIMIT - 1]
<1> DEFINE n(id) == Cardinality({r \in recorded : r[1] = id})
           m == add_to_counts(map, recorded)
<1>1. COUNT_LIMIT \in Nat \ {0}
    BY EnumerationAssumption
<1>2. \A id : n(id) \in Nat
    BY FS_Subset, FS_CardinalityType
<1>3. \A id : at(map, id) \in Nat
    BY <1>1 DEF at
<1>4. m = [id \in DOMAIN map \cup {r[1] : r \in recorded} |->
              (at(map, id) + n(id)) % COUNT_LIMIT]
    BY DEF add_to_counts
<1> HIDE DEF n, m
<1>5. m \in [DOMAIN m -> 0 .. COUNT_LIMIT - 1]
    BY <1>1, <1>2, <1>3, <1>4
<1>6. QED BY <1>5 DEF m

\* What a worker adds for a root keeps the counts in range.
LEMMA WorkOnRootType ==
    ASSUME TypeOK, NEW i \in DOMAIN worker, WorkOnRoot(i) PROVE TypeOK'
<1> DEFINE w    == worker[i]
           root == m_node_order[w.idx]
           one  == IF job.kind = "motifs" THEN mark_depth_one(Graph, w.bfs_visited, root)
                   ELSE <<>>
           visited == IF job.kind = "motifs" THEN mark_deeper(Graph, m_order_index, one, root)
                      ELSE <<>>
           map == add_to_counts(w.local_map, Recorded(one, root))
           next == [w EXCEPT !.pc = "claim", !.bfs_visited = visited, !.local_map = map]
<1>1. job # NoJob /\ w.pc = "work"
    BY WorkersInJobs DEF WorkOnRoot
<1>2. root \in Int
    <2>1. root \in Vertices(Graph)
        BY <1>1, JobType, FieldsOfWorker DEF Bijection, Injection
    <2>2. vertex_count(Graph) \in Nat /\ Vertices(Graph) = 0 .. vertex_count(Graph) - 1
        BY <1>1, JobType, FS_CardinalityType DEF IsColoredGraph, vertex_count
    <2>3. QED BY <2>1, <2>2
<1>3. /\ visited \in [DOMAIN visited -> Int]
      /\ job.kind = "motifs" => DOMAIN visited = Vertices(Graph)
    <2>1. CASE job.kind = "motifs"
        <3>1. /\ w.bfs_visited \in [DOMAIN w.bfs_visited -> Int]
              /\ DOMAIN w.bfs_visited = Vertices(Graph)
            BY <1>1, <2>1, FieldsOfWorker
        <3>2. DOMAIN one = Vertices(Graph) /\ one \in [DOMAIN one -> Int]
            BY <1>2, <2>1, <3>1, MarksType
        <3> HIDE DEF one
        <3>3. QED BY <1>2, <2>1, <3>2, MarksType
    <2>2. CASE job.kind # "motifs"
        <3>1. visited = <<>> /\ DOMAIN <<>> = {}
            BY <2>2
        <3>2. QED BY <2>2, <3>1
    <2>3. QED BY <2>1, <2>2
<1>4. map \in [DOMAIN map -> 0 .. COUNT_LIMIT - 1]
    BY <1>1, FieldsOfWorker, RecordedIsFinite, CountsType
<1>5. worker' = [worker EXCEPT ![i] = next]
    BY DEF WorkOnRoot
<1> HIDE DEF visited, map
<1>6. IsWorker(next)
    BY <1>1, <1>3, <1>4, FieldsOfWorker DEF IsWorker
<1> HIDE DEF next
<1>7. QED BY <1>5, <1>6, WorkerFrame DEF WorkOnRoot, TypeOK

\* Every step of a worker keeps the types.
LEMMA WorkerStepType ==
    ASSUME TypeOK, NEW i \in DOMAIN worker, WorkerStep(i) PROVE TypeOK'
BY StartWorkerType, FailToStartType, ClaimRootType, WorkOnRootType DEF WorkerStep

\* A calculation starts with an order of the vertices and without workers.
LEMMA CalculateType ==
    ASSUME TypeOK, NEW j \in Jobs, Calculate(j) PROVE TypeOK'
<1>1. /\ job' \in Jobs /\ job' # NoJob /\ job' = j
      /\ worker' = <<>> /\ next_idx' = 0 /\ main' = "spawn"
    BY EnumerationAssumption DEF Calculate
<1>2. (m_node_order \in Bijection(Vertices(Graph), Vertices(Graph)))'
    BY <1>1 DEF Calculate, SortedOrders, Graph
<1>3. (Len(worker) <= thread_count)'
    <2>1. (order_size \in Nat)'
        BY <1>1, EnumerationAssumption, FS_CardinalityType
           DEF order_size, vertex_count, Graph, IsColoredGraph
    <2>2. (job.threads \in Nat)'
        BY <1>1, EnumerationAssumption
    <2>3. Len(worker') = 0
        BY <1>1
    <2>4. QED BY <2>1, <2>2, <2>3 DEF thread_count
<1>4. (worker \in Seq(Range(worker)) /\ DOMAIN worker = {})'
    BY <1>1
<1>5. QED BY <1>1, <1>2, <1>3, <1>4 DEF TypeOK

\* The calling thread creates one more worker.
LEMMA SpawnWorkerType ==
    ASSUME TypeOK, SpawnWorker PROVE TypeOK'
<1>1. job # NoJob /\ UNCHANGED <<job, m_node_order, next_idx, main, counts>>
    BY DEF TypeOK, SpawnWorker
<1>2. worker \in Seq(Range(worker)) /\ worker' = Append(worker, NewWorker)
    BY DEF TypeOK, SpawnWorker
<1>3. /\ worker' \in Seq(Range(worker')) /\ Len(worker') = Len(worker) + 1
      /\ \A k \in DOMAIN worker' : worker'[k] = NewWorker
                                   \/ (k \in DOMAIN worker /\ worker'[k] = worker[k])
    <2> DEFINE t == Append(worker, NewWorker)
    <2>1. /\ t \in Seq(Range(t)) /\ Len(t) = Len(worker) + 1
          /\ DOMAIN t = DOMAIN worker \cup {Len(t)} /\ Len(t) \notin DOMAIN worker
          /\ \A k \in DOMAIN t : t[k] = IF k = Len(t) THEN NewWorker ELSE worker[k]
        BY <1>2, SeqAppend
    <2>2. worker' = t
        BY <1>2
    <2> HIDE DEF t
    <2>3. t \in Seq(Range(t)) /\ Len(t) = Len(worker) + 1
        BY <2>1
    <2>4. \A k \in DOMAIN t :
            t[k] = NewWorker \/ (k \in DOMAIN worker /\ t[k] = worker[k])
        BY <2>1
    <2>5. worker' \in Seq(Range(worker')) /\ Len(worker') = Len(worker) + 1
        BY <2>2, <2>3
    <2>6. QED BY <2>2, <2>4, <2>5
<1>4. IsWorker(NewWorker)
    <2>1. <<>> \in [DOMAIN <<>> -> Int] /\ <<>> \in [DOMAIN <<>> -> 0 .. COUNT_LIMIT - 1]
        OBVIOUS
    <2>2. QED BY <2>1 DEF IsWorker, NewWorker
<1>5. ASSUME NEW k \in DOMAIN worker' PROVE IsWorker(worker[k])'
    <2>1. IsWorker(worker'[k])
        BY <1>1, <1>3, <1>4, JobType
    <2>2. QED BY <1>1, <2>1 DEF IsWorker, Graph
<1>6. (Len(worker) <= thread_count)'
    <2>1. order_size \in Nat /\ job.threads \in Nat
        BY <1>1, JobType, EnumerationAssumption, FS_CardinalityType
           DEF order_size, vertex_count, IsColoredGraph
    <2>2. Len(worker) \in Nat /\ Len(worker) < thread_count
        BY <1>2 DEF SpawnWorker
    <2>3. thread_count' = thread_count
        BY <1>1 DEF thread_count, order_size, Graph
    <2>4. QED BY <1>3, <2>1, <2>2, <2>3 DEF thread_count
<1>7. (worker \in Seq(Range(worker)))'
    BY <1>3 DEF Range
<1>8. QED BY <1>1, <1>5, <1>6, <1>7 DEF TypeOK, Graph

\* Every step of the calling thread keeps the types.
LEMMA MainStepType ==
    ASSUME TypeOK, MainStep PROVE TypeOK'
<1>1. CASE BeginJoin
    BY <1>1 DEF BeginJoin, TypeOK, IsWorker, thread_count, order_size, Graph, Range
<1>2. ASSUME NEW returned, Leave(returned) PROVE TypeOK'
    BY <1>2 DEF Leave, TypeOK, Range
<1>3. QED BY <1>1, <1>2, SpawnWorkerType DEF MainStep, Rethrow, Merge

\* Whatever the graph, the number of threads and the order they claim in, no
\* worker reads the order past its end, and no count is wider than its field.
THEOREM TypeCorrect == Spec => []TypeOK
<1>1. Init => TypeOK
    BY DEF Init, TypeOK, Range
<1>2. TypeOK /\ [Next]_vars => TypeOK'
    <2> SUFFICES ASSUME TypeOK, [Next]_vars PROVE TypeOK'
        OBVIOUS
    <2>1. CASE UNCHANGED vars
        BY <2>1 DEF vars, TypeOK, IsWorker, thread_count, order_size, Graph, Range
    <2>2. QED BY <2>1, CalculateType, MainStepType, WorkerStepType DEF Next
<1>3. QED BY <1>1, <1>2, PTL DEF Spec

-----------------------------------------------------------------------------
(* The atomic counter hands every root to one worker.                      *)

\* A step of a worker leaves the counter and every claim alone, or it claims the
\* position the counter shows and moves the counter past it.
LEMMA ClaimEffect ==
    ASSUME TypeOK, NEW i \in DOMAIN worker, WorkerStep(i)
    PROVE  /\ DOMAIN worker' = DOMAIN worker /\ job' = job
           /\ \A k \in DOMAIN worker \ {i} : worker'[k] = worker[k]
           /\ \/ /\ next_idx' = next_idx
                 /\ worker'[i].pc # "work"
                 /\ worker'[i].pc = "done" => worker'[i].failed
              \/ /\ next_idx' = next_idx + 1
                 /\ worker'[i].idx = next_idx
                 /\ worker'[i].pc = "done" => ~HasRoot(next_idx)
<1> DEFINE w == worker[i]
<1>1. w \in [pc : {w.pc}, idx : Nat, bfs_visited : {w.bfs_visited},
             local_map : {w.local_map}, failed : BOOLEAN]
    BY FieldsOfWorker
<1>2. CASE StartWorker(i)
    BY <1>1, <1>2 DEF StartWorker
<1>3. CASE FailToStart(i)
    BY <1>1, <1>3 DEF FailToStart
<1>4. CASE ClaimRoot(i)
    BY <1>1, <1>4 DEF ClaimRoot
<1>5. CASE WorkOnRoot(i)
    BY <1>1, <1>5 DEF WorkOnRoot
<1>6. QED BY <1>2, <1>3, <1>4, <1>5 DEF WorkerStep

\* Every step of a worker keeps the claims apart.
LEMMA WorkerStepKeepsClaims ==
    ASSUME TypeOK, RootsAreClaimedOnce, NEW i \in DOMAIN worker, WorkerStep(i)
    PROVE  RootsAreClaimedOnce'
<1>1. next_idx \in Nat /\ order_size \in Nat /\ order_size' = order_size
    BY ClaimEffect, WorkersInJobs, JobType, FS_CardinalityType
       DEF TypeOK, order_size, vertex_count, IsColoredGraph, Graph
<1>2. \A k \in DOMAIN worker : worker[k].idx \in Nat
    BY FieldsOfWorker
<1>3. CASE next_idx' = next_idx
    BY <1>1, <1>2, <1>3, ClaimEffect DEF RootsAreClaimedOnce
<1>4. CASE next_idx' = next_idx + 1
    BY <1>1, <1>2, <1>4, ClaimEffect DEF RootsAreClaimedOnce, HasRoot
<1>5. QED BY <1>3, <1>4, ClaimEffect

\* For every graph and every number of threads, no root is counted by two workers,
\* and a worker that ends unfailed leaves no root behind.
THEOREM RootsClaimedOnce == Spec => []RootsAreClaimedOnce
<1>1. Init => RootsAreClaimedOnce
    BY DEF Init, RootsAreClaimedOnce
<1>2. TypeOK /\ RootsAreClaimedOnce /\ [Next]_vars => RootsAreClaimedOnce'
    <2> SUFFICES ASSUME TypeOK, RootsAreClaimedOnce, [Next]_vars
                 PROVE  RootsAreClaimedOnce'
        OBVIOUS
    <2>1. CASE UNCHANGED vars
        BY <2>1 DEF vars, RootsAreClaimedOnce, order_size, Graph
    <2>2. ASSUME NEW j \in Jobs, Calculate(j) PROVE RootsAreClaimedOnce'
        BY <2>2 DEF Calculate, RootsAreClaimedOnce
    <2>3. CASE MainStep
        <3>1. CASE SpawnWorker
            <4> DEFINE t == Append(worker, NewWorker)
            <4>1. /\ DOMAIN t = DOMAIN worker \cup {Len(t)}
                  /\ \A k \in DOMAIN t : t[k] = IF k = Len(t) THEN NewWorker ELSE worker[k]
                BY SeqAppend DEF TypeOK
            <4>2. NewWorker.pc = "start"
                BY DEF NewWorker
            <4>3. worker' = t /\ next_idx' = next_idx /\ order_size' = order_size
                BY <3>1 DEF SpawnWorker, order_size, Graph
            <4> HIDE DEF t
            <4>4. \A k \in DOMAIN t :
                    t[k].pc = "start" \/ (k \in DOMAIN worker /\ t[k] = worker[k])
                BY <4>1, <4>2
            <4>5. QED BY <4>3, <4>4 DEF RootsAreClaimedOnce
        <3>2. CASE BeginJoin
            BY <3>2 DEF BeginJoin, RootsAreClaimedOnce, order_size, Graph
        <3>3. ASSUME NEW returned, Leave(returned) PROVE RootsAreClaimedOnce'
            BY <3>3 DEF Leave, RootsAreClaimedOnce
        <3>4. QED BY <2>3, <3>1, <3>2, <3>3 DEF MainStep, Rethrow, Merge
    <2>4. QED BY <2>1, <2>2, <2>3, WorkerStepKeepsClaims DEF Next
<1>3. QED BY <1>1, <1>2, TypeCorrect, PTL DEF Spec

-----------------------------------------------------------------------------
(* Adjacency.                                                              *)

\* It is symmetric, no vertex is its own neighbour, and neighbour_range has it.
LEMMA Adjacency ==
    ASSUME NEW g, IsColoredGraph(g), NEW u \in Vertices(g)
    PROVE  /\ neighbour_range(g, u) = {w \in Vertices(g) : adjacent(g, u, w)}
           /\ \A w : adjacent(g, u, w) <=> adjacent(g, w, u)
           /\ ~adjacent(g, u, u)
<1>1. ~is_edge(g, u, u)
    BY DEF IsColoredGraph, is_edge
<1>2. CASE g.directed
    BY <1>1, <1>2 DEF neighbour_range, get_neighbours, adjacent
<1>3. CASE ~g.directed
    <2>1. \A w \in Vertices(g) : is_edge(g, u, w) <=> is_edge(g, w, u)
        BY <1>3 DEF IsColoredGraph
    <2>2. QED BY <1>1, <1>3, <2>1 DEF neighbour_range, get_neighbours, adjacent
<1>4. QED BY <1>2, <1>3

\* A set of vertices is connected when no cut of it is without an edge across.
LEMMA ConnectedInside ==
    ASSUME NEW g, IsColoredGraph(g), NEW S \in SUBSET Vertices(g)
    PROVE  IsConnected(Inside(g, S)) <=>
              \A T \in (SUBSET S) \ {{}, S} : \E u \in T, w \in S \ T : adjacent(g, u, w)
<1>1. Vertices(Inside(g, S)) = S
    BY DEF Inside, Vertices
<1>2. \A u, w \in S : is_edge(Inside(g, S), u, w) <=> is_edge(g, u, w)
    BY DEF Inside, is_edge
<1>3. QED BY <1>1, <1>2 DEF IsConnected, adjacent

\* A connected set crosses every cut.
LEMMA CutIsCrossed ==
    ASSUME NEW g, IsColoredGraph(g), NEW S \in SUBSET Vertices(g), IsConnected(Inside(g, S)),
           NEW T \in SUBSET S, NEW x \in T, NEW y \in S \ T
    PROVE  \E u \in T, w \in S \ T : adjacent(g, u, w)
<1>1. T \in (SUBSET S) \ {{}, S}
    OBVIOUS
<1>2. QED BY <1>1, ConnectedInside

-----------------------------------------------------------------------------
(* The groups of four of one root.                                         *)

\* Four different elements.
LEMMA FourElements ==
    ASSUME NEW a, NEW b, NEW c, NEW d, a # b, a # c, a # d, b # c, b # d, c # d
    PROVE  IsFiniteSet({a, b, c, d}) /\ Cardinality({a, b, c, d}) = 4
<1>1. IsFiniteSet({a}) /\ Cardinality({a}) = 1
    BY FS_Singleton
<1>2. IsFiniteSet({a} \cup {b}) /\ Cardinality({a} \cup {b}) = 2
    BY <1>1, FS_AddElement
<1>3. IsFiniteSet({a} \cup {b} \cup {c}) /\ Cardinality({a} \cup {b} \cup {c}) = 3
    BY <1>2, FS_AddElement
<1>4. IsFiniteSet({a} \cup {b} \cup {c} \cup {d}) /\ Cardinality({a} \cup {b} \cup {c} \cup {d}) = 4
    BY <1>3, FS_AddElement
<1>5. {a, b, c, d} = {a} \cup {b} \cup {c} \cup {d}
    OBVIOUS
<1>6. QED BY <1>4, <1>5

\* A set of four is one element and three others.
LEMMA FourAre ==
    ASSUME NEW S, IsFiniteSet(S), Cardinality(S) = 4, NEW r \in S
    PROVE  \E a, b, c : IsFour(S, r, a, b, c)
<1>1. IsFiniteSet(S \ {r}) /\ Cardinality(S \ {r}) = 3
    BY FS_RemoveElement
<1>2. PICK a : a \in S \ {r}
    BY <1>1, FS_EmptySet
<1>3. IsFiniteSet((S \ {r}) \ {a}) /\ Cardinality((S \ {r}) \ {a}) = 2
    BY <1>1, <1>2, FS_RemoveElement
<1>4. PICK b : b \in (S \ {r}) \ {a}
    BY <1>3, FS_EmptySet
<1>5. IsFiniteSet(((S \ {r}) \ {a}) \ {b}) /\ Cardinality(((S \ {r}) \ {a}) \ {b}) = 1
    BY <1>3, <1>4, FS_RemoveElement
<1>6. PICK c : ((S \ {r}) \ {a}) \ {b} = {c}
    BY <1>5, FS_Singleton
<1>7. IsFour(S, r, a, b, c)
    BY <1>2, <1>4, <1>6 DEF IsFour
<1>8. QED BY <1>7

\* Neighbours at depth one, by adjacency.
LEMMA DepthOne ==
    ASSUME NEW g, IsColoredGraph(g), NEW root \in Vertices(g),
           NEW index \in Injection(Vertices(g), Int)
    PROVE  depth_one(g, index, root) = {v \in Later(g, index, root) : adjacent(g, root, v)}
<1>1. \A v \in Vertices(g) : index[v] \in Int /\ (index[v] = index[root] => v = root)
    BY DEF Injection, IsInjective
<1>2. /\ neighbour_range(g, root) = {v \in Vertices(g) : adjacent(g, root, v)}
      /\ ~adjacent(g, root, root)
    BY Adjacency
<1>3. QED BY <1>1, <1>2 DEF depth_one, not_before, Later

\* Deeper neighbours, by adjacency.
LEMMA Deeper ==
    ASSUME NEW g, IsColoredGraph(g), NEW root \in Vertices(g),
           NEW index \in Injection(Vertices(g), Int),
           NEW visited, MarksDepthOne(g, visited, root), NEW v \in Vertices(g)
    PROVE  deeper(g, index, visited, root, v) =
              {w \in Later(g, index, root) : adjacent(g, v, w) /\ ~adjacent(g, root, w)}
<1>1. \A w \in Vertices(g) : index[w] \in Int /\ (index[w] = index[root] => w = root)
    BY DEF Injection, IsInjective
<1>2. neighbour_range(g, v) = {w \in Vertices(g) : adjacent(g, v, w)}
    BY Adjacency
<1>3. QED BY <1>1, <1>2 DEF deeper, not_before, Later, MarksDepthOne

\* A root emits the tuples of later vertices that have a shape.
LEMMA StreamIs ==
    ASSUME NEW g, IsColoredGraph(g), NEW root \in Vertices(g),
           NEW index \in Injection(Vertices(g), Int),
           NEW visited, MarksDepthOne(g, visited, root)
    PROVE  stream_groups(g, index, visited, root) =
              {e \in {"111", "112", "122", "123"} \X (Vertices(g) \X Vertices(g) \X Vertices(g)) :
                 /\ {e[2][1], e[2][2], e[2][3]} \subseteq Later(g, index, root)
                 /\ HasShape(g, root, e[1], e[2][1], e[2][2], e[2][3])}
<1> DEFINE V == Vertices(g)
           A == Later(g, index, root)
           D == depth_one(g, index, root)
           Deep(v) == deeper(g, index, visited, root, v)
           E == {e \in {"111", "112", "122", "123"} \X (V \X V \X V) :
                   /\ {e[2][1], e[2][2], e[2][3]} \subseteq A
                   /\ HasShape(g, root, e[1], e[2][1], e[2][2], e[2][3])}
           Of(k) == {e \in E : e[1] = k}
<1>1. /\ D = {v \in A : adjacent(g, root, v)} /\ A \subseteq V
      /\ \A v \in V : Deep(v) = {w \in A : adjacent(g, v, w) /\ ~adjacent(g, root, w)}
    BY DepthOne, Deeper DEF Later
<1>2. \A u, w \in V : adjacent(g, u, w) <=> adjacent(g, w, u)
    BY Adjacency
<1>3. emit_depth_1_1_1(g, index, visited, root) = Of("111")
    <2>1. ASSUME NEW e \in emit_depth_1_1_1(g, index, visited, root) PROVE e \in Of("111")
        BY <1>1 DEF emit_depth_1_1_1, HasShape
    <2>2. ASSUME NEW e \in Of("111") PROVE e \in emit_depth_1_1_1(g, index, visited, root)
        <3>1. PICK a \in A, b \in A, c \in A : e = <<"111", <<a, b, c>>>>
            OBVIOUS
        <3>2. HasShape(g, root, "111", a, b, c)
            BY <3>1
        <3>3. QED BY <1>1, <3>1, <3>2 DEF emit_depth_1_1_1, HasShape
    <2>3. QED BY <2>1, <2>2
<1>4. emit_depth_1_1_2(g, index, visited, root) = Of("112")
    <2>1. ASSUME NEW e \in emit_depth_1_1_2(g, index, visited, root) PROVE e \in Of("112")
        <3>1. PICK a \in D, b \in D, c \in V :
                /\ e = <<"112", <<a, b, c>>>>
                /\ c \in Deep(a) /\ a # b /\ (adjacent(g, b, c) => a < b)
            BY DEF emit_depth_1_1_2
        <3>2. HasShape(g, root, "112", a, b, c) /\ {a, b, c} \subseteq A
            BY <1>1, <3>1 DEF HasShape
        <3>3. QED BY <1>1, <3>1, <3>2
    <2>2. ASSUME NEW e \in Of("112") PROVE e \in emit_depth_1_1_2(g, index, visited, root)
        <3>1. PICK a \in A, b \in A, c \in A : e = <<"112", <<a, b, c>>>>
            OBVIOUS
        <3>2. HasShape(g, root, "112", a, b, c)
            BY <3>1
        <3>3. a \in D /\ b \in D /\ c \in V /\ c \in Deep(a) /\ a # b /\ (adjacent(g, b, c) => a < b)
            BY <1>1, <3>2 DEF HasShape
        <3>4. QED BY <3>1, <3>3 DEF emit_depth_1_1_2
    <2>3. QED BY <2>1, <2>2
<1>5. emit_depth_1_2_2(g, index, visited, root) = Of("122")
    <2>1. ASSUME NEW e \in emit_depth_1_2_2(g, index, visited, root) PROVE e \in Of("122")
        <3>1. PICK a \in D, b \in V, c \in V :
                /\ e = <<"122", <<a, b, c>>>>
                /\ b \in Deep(a) /\ c \in Deep(a) /\ b < c
            BY DEF emit_depth_1_2_2
        <3>2. HasShape(g, root, "122", a, b, c) /\ {a, b, c} \subseteq A
            BY <1>1, <3>1 DEF HasShape
        <3>3. QED BY <1>1, <3>1, <3>2
    <2>2. ASSUME NEW e \in Of("122") PROVE e \in emit_depth_1_2_2(g, index, visited, root)
        <3>1. PICK a \in A, b \in A, c \in A : e = <<"122", <<a, b, c>>>>
            OBVIOUS
        <3>2. HasShape(g, root, "122", a, b, c)
            BY <3>1
        <3>3. a \in D /\ b \in V /\ c \in V /\ b \in Deep(a) /\ c \in Deep(a) /\ b < c
            BY <1>1, <3>2 DEF HasShape
        <3>4. QED BY <3>1, <3>3 DEF emit_depth_1_2_2
    <2>3. QED BY <2>1, <2>2
<1>6. emit_depth_1_2_3(g, index, visited, root) = Of("123")
    <2>1. ASSUME NEW e \in emit_depth_1_2_3(g, index, visited, root) PROVE e \in Of("123")
        <3>1. PICK a \in D, b \in V, c \in V :
                /\ e = <<"123", <<a, b, c>>>>
                /\ b \in Deep(a) /\ c \in Deep(b) /\ ~adjacent(g, a, c)
            BY DEF emit_depth_1_2_3
        <3>2. HasShape(g, root, "123", a, b, c) /\ {a, b, c} \subseteq A
            BY <1>1, <3>1 DEF HasShape
        <3>3. QED BY <1>1, <3>1, <3>2
    <2>2. ASSUME NEW e \in Of("123") PROVE e \in emit_depth_1_2_3(g, index, visited, root)
        <3>1. PICK a \in A, b \in A, c \in A : e = <<"123", <<a, b, c>>>>
            OBVIOUS
        <3>2. HasShape(g, root, "123", a, b, c)
            BY <3>1
        <3>3. a \in D /\ b \in V /\ c \in V /\ b \in Deep(a) /\ c \in Deep(b) /\ ~adjacent(g, a, c)
            BY <1>1, <3>2 DEF HasShape
        <3>4. QED BY <3>1, <3>3 DEF emit_depth_1_2_3
    <2>3. QED BY <2>1, <2>2
<1>7. E = Of("111") \cup Of("112") \cup Of("122") \cup Of("123")
    OBVIOUS
<1> HIDE DEF E, Of
<1>8. stream_groups(g, index, visited, root) = E
    BY <1>3, <1>4, <1>5, <1>6, <1>7 DEF stream_groups
<1>9. QED BY <1>8 DEF E

\* What a shape says of four vertices, without its kind.
LEMMA ShapeIsConnected ==
    ASSUME NEW g, IsColoredGraph(g), NEW r \in Vertices(g),
           NEW a \in Vertices(g), NEW b \in Vertices(g), NEW c \in Vertices(g),
           r # a, r # b, r # c, NEW kind, HasShape(g, r, kind, a, b, c)
    PROVE  /\ {r, a, b, c} \in MotifGroups(g)
           /\ a # b /\ a # c /\ b # c
<1> DEFINE S == {r, a, b, c}
<1>1. /\ ~adjacent(g, a, a) /\ ~adjacent(g, b, b) /\ ~adjacent(g, c, c)
      /\ \A u, w \in S : adjacent(g, u, w) <=> adjacent(g, w, u)
    BY Adjacency
<1>2. a \in Int /\ b \in Int /\ c \in Int
    BY DEF IsColoredGraph
<1>3. a # b /\ a # c /\ b # c
    BY <1>1, <1>2 DEF HasShape
<1>4. Cardinality(S) = 4
    BY <1>3, FourElements
<1>5. ASSUME NEW T \in (SUBSET S) \ {{}, S}, \A u \in T, w \in S \ T : ~adjacent(g, u, w)
      PROVE  FALSE
    <2>1. \A u, w \in S : adjacent(g, u, w) => (u \in T <=> w \in T)
        BY <1>1, <1>5
    <2>2. r \in T <=> a \in T
        BY <2>1 DEF HasShape
    <2>3. b \in T <=> r \in T
        BY <2>1, <2>2 DEF HasShape
    <2>4. c \in T <=> r \in T
        BY <2>1, <2>2, <2>3 DEF HasShape
    <2>5. QED BY <1>5, <2>2, <2>3, <2>4
<1>6. IsConnected(Inside(g, S))
    <2>1. S \in SUBSET Vertices(g)
        OBVIOUS
    <2> HIDE DEF S
    <2>2. \A T \in (SUBSET S) \ {{}, S} : \E u \in T, w \in S \ T : adjacent(g, u, w)
        BY <1>5
    <2>3. QED BY <2>1, <2>2, ConnectedInside
<1>7. QED BY <1>3, <1>4, <1>6 DEF MotifGroups, kSubset

\* The three others of a set of four can be named in any order.
LEMMA FourTurned ==
    ASSUME NEW S, NEW r, NEW a, NEW b, NEW c, IsFour(S, r, a, b, c)
    PROVE  /\ IsFour(S, r, a, c, b) /\ IsFour(S, r, b, a, c) /\ IsFour(S, r, b, c, a)
           /\ IsFour(S, r, c, a, b) /\ IsFour(S, r, c, b, a)
BY DEF IsFour

\* From a vertex of a connected four whose neighbours are the three others.
LEMMA ThreeAdjacent ==
    ASSUME NEW g, NEW S, NEW r, NEW a \in Int, NEW b \in Int, NEW c \in Int, IsFour(S, r, a, b, c),
           adjacent(g, r, a), adjacent(g, r, b), adjacent(g, r, c)
    PROVE  HasSomeShape(g, r, S)
<1>1. ASSUME NEW x \in Int, NEW y \in Int, NEW z \in Int, IsFour(S, r, x, y, z), x < y, y < z,
             adjacent(g, r, x), adjacent(g, r, y), adjacent(g, r, z)
      PROVE  HasSomeShape(g, r, S)
    <2>1. HasShape(g, r, "111", x, y, z)
        BY <1>1 DEF HasShape
    <2>2. QED BY <1>1, <2>1 DEF HasSomeShape
<1>2. a # b /\ a # c /\ b # c
    BY DEF IsFour
<1>3. CASE a < b
    BY <1>1, <1>2, <1>3, FourTurned
<1>4. CASE b < a
    BY <1>1, <1>2, <1>4, FourTurned
<1>5. QED BY <1>2, <1>3, <1>4

\* From one with two neighbours.
LEMMA TwoAdjacent ==
    ASSUME NEW g, IsColoredGraph(g), NEW S \in MotifGroups(g),
           NEW r, NEW a \in Int, NEW b \in Int, NEW c, IsFour(S, r, a, b, c),
           adjacent(g, r, a), adjacent(g, r, b), ~adjacent(g, r, c)
    PROVE  HasSomeShape(g, r, S)
<1>1. S \in SUBSET Vertices(g) /\ IsConnected(Inside(g, S))
    BY DEF MotifGroups, kSubset
<1>2. ASSUME NEW x, NEW y, IsFour(S, r, x, y, c), adjacent(g, r, x), adjacent(g, r, y),
             adjacent(g, x, c), adjacent(g, y, c) => x < y
      PROVE  HasSomeShape(g, r, S)
    <2>1. HasShape(g, r, "112", x, y, c)
        BY <1>2 DEF HasShape, IsFour
    <2>2. QED BY <1>2, <2>1 DEF HasSomeShape
<1>3. adjacent(g, a, c) \/ adjacent(g, b, c)
    <2> DEFINE T == {r, a, b}
    <2>1. T \in SUBSET S /\ r \in T /\ c \in S \ T /\ S \ T = {c}
        BY DEF IsFour
    <2> HIDE DEF T
    <2>2. \E u \in T, w \in S \ T : adjacent(g, u, w)
        BY <1>1, <2>1, CutIsCrossed
    <2>3. QED BY <2>1, <2>2 DEF T
<1>4. IsFour(S, r, b, a, c) /\ a # b
    BY FourTurned DEF IsFour
<1>5. CASE adjacent(g, a, c) /\ (adjacent(g, b, c) => a < b)
    BY <1>2, <1>5
<1>6. CASE adjacent(g, b, c) /\ (adjacent(g, a, c) => b < a)
    BY <1>2, <1>4, <1>6
<1>7. QED BY <1>3, <1>4, <1>5, <1>6

\* From one with one neighbour.
LEMMA OneAdjacent ==
    ASSUME NEW g, IsColoredGraph(g), NEW S \in MotifGroups(g),
           NEW r, NEW a, NEW b \in Int, NEW c \in Int, IsFour(S, r, a, b, c),
           adjacent(g, r, a), ~adjacent(g, r, b), ~adjacent(g, r, c)
    PROVE  HasSomeShape(g, r, S)
<1>1. S \in SUBSET Vertices(g) /\ IsConnected(Inside(g, S))
    BY DEF MotifGroups, kSubset
<1>2. \A u, w \in S : adjacent(g, u, w) <=> adjacent(g, w, u)
    BY <1>1, Adjacency
<1>3. ASSUME NEW x \in Int, NEW y \in Int, IsFour(S, r, a, x, y), ~adjacent(g, r, x),
             ~adjacent(g, r, y), adjacent(g, a, x), adjacent(g, a, y), x < y
      PROVE  HasSomeShape(g, r, S)
    <2>1. HasShape(g, r, "122", a, x, y)
        BY <1>3 DEF HasShape
    <2>2. QED BY <1>3, <2>1 DEF HasSomeShape
<1>4. ASSUME NEW x, NEW y, IsFour(S, r, a, x, y), ~adjacent(g, r, x), ~adjacent(g, r, y),
             adjacent(g, a, x), ~adjacent(g, a, y)
      PROVE  HasSomeShape(g, r, S)
    <2>1. adjacent(g, x, y)
        <3> DEFINE T == {r, a, x}
        <3>1. /\ T \in SUBSET S /\ r \in T /\ y \in S \ T
              /\ S \ T = {y}
            BY <1>4 DEF IsFour
        <3> HIDE DEF T
        <3>2. \E u \in T, w \in S \ T : adjacent(g, u, w)
            BY <1>1, <3>1, CutIsCrossed
        <3>3. QED BY <1>4, <3>1, <3>2 DEF T
    <2>2. HasShape(g, r, "123", a, x, y)
        BY <1>4, <2>1 DEF HasShape
    <2>3. QED BY <1>4, <2>2 DEF HasSomeShape
<1>5. adjacent(g, a, b) \/ adjacent(g, a, c)
    <2> DEFINE T == {r, a}
    <2>1. T \in SUBSET S /\ r \in T /\ b \in S \ T /\ S \ T = {b, c}
        BY DEF IsFour
    <2> HIDE DEF T
    <2>2. \E u \in T, w \in S \ T : adjacent(g, u, w)
        BY <1>1, <2>1, CutIsCrossed
    <2>3. QED BY <2>1, <2>2 DEF T
<1>6. IsFour(S, r, a, c, b) /\ b # c
    BY FourTurned DEF IsFour
<1>7. CASE adjacent(g, a, b) /\ adjacent(g, a, c)
    BY <1>3, <1>6, <1>7
<1>8. CASE adjacent(g, a, b) /\ ~adjacent(g, a, c)
    BY <1>4, <1>8
<1>9. CASE adjacent(g, a, c) /\ ~adjacent(g, a, b)
    BY <1>4, <1>6, <1>9
<1>10. QED BY <1>5, <1>7, <1>8, <1>9

\* A connected set of four has a shape from each of its vertices.
LEMMA ConnectedHasShape ==
    ASSUME NEW g, IsColoredGraph(g), NEW S \in MotifGroups(g), NEW r \in S
    PROVE  HasSomeShape(g, r, S)
<1>1. /\ S \in SUBSET Vertices(g) /\ Cardinality(S) = 4 /\ IsConnected(Inside(g, S))
      /\ IsFiniteSet(S)
    BY FS_Subset DEF MotifGroups, kSubset, IsColoredGraph
<1>2. PICK x, y, z : IsFour(S, r, x, y, z)
    BY <1>1, FourAre
<1>3. x \in Int /\ y \in Int /\ z \in Int
    BY <1>1, <1>2 DEF IsColoredGraph, IsFour
<1>4. adjacent(g, r, x) \/ adjacent(g, r, y) \/ adjacent(g, r, z)
    <2> DEFINE T == {r}
    <2>1. T \in SUBSET S /\ r \in T /\ x \in S \ T /\ S \ T = {x, y, z}
        BY <1>2 DEF IsFour
    <2> HIDE DEF T
    <2>2. \E u \in T, w \in S \ T : adjacent(g, u, w)
        BY <1>1, <2>1, CutIsCrossed
    <2>3. QED BY <2>1, <2>2 DEF T
<1>5. /\ IsFour(S, r, x, z, y) /\ IsFour(S, r, y, x, z) /\ IsFour(S, r, y, z, x)
      /\ IsFour(S, r, z, x, y) /\ IsFour(S, r, z, y, x)
    BY <1>2, FourTurned
<1>6. QED BY <1>2, <1>3, <1>4, <1>5, ThreeAdjacent, TwoAdjacent, OneAdjacent

\* A group has one shape.
LEMMA ShapeIsUnique ==
    ASSUME NEW g, IsColoredGraph(g), NEW r,
           NEW a \in Vertices(g), NEW b \in Vertices(g), NEW c \in Vertices(g),
           NEW d \in Vertices(g), NEW e \in Vertices(g), NEW f \in Vertices(g),
           r \notin {a, b, c, d, e, f}, a # b, a # c, b # c, d # e, d # f, e # f,
           {r, a, b, c} = {r, d, e, f},
           NEW k, HasShape(g, r, k, a, b, c), NEW l, HasShape(g, r, l, d, e, f)
    PROVE  k = l /\ a = d /\ b = e /\ c = f
<1>1. a \in Int /\ b \in Int /\ c \in Int /\ d \in Int /\ e \in Int /\ f \in Int
    BY DEF IsColoredGraph
<1>2. /\ a \in {d, e, f} /\ b \in {d, e, f} /\ c \in {d, e, f}
      /\ d \in {a, b, c} /\ e \in {a, b, c} /\ f \in {a, b, c}
    OBVIOUS
<1>3. \/ a = d /\ b = e /\ c = f
      \/ a = d /\ b = f /\ c = e
      \/ a = e /\ b = d /\ c = f
      \/ a = e /\ b = f /\ c = d
      \/ a = f /\ b = d /\ c = e
      \/ a = f /\ b = e /\ c = d
    BY <1>2
<1>4. QED BY <1>1, <1>3 DEF HasShape

\* A root emits each group in which it comes first once, and nothing else.
LEMMA EmittedOnce ==
    ASSUME NEW g, IsColoredGraph(g), NEW root \in Vertices(g),
           NEW index \in Injection(Vertices(g), Int),
           NEW visited, MarksDepthOne(g, visited, root)
    PROVE  [e \in stream_groups(g, index, visited, root) |-> GroupOf(root, e)]
              \in Bijection(stream_groups(g, index, visited, root), GroupsFrom(g, index, root))
<1> DEFINE V == Vertices(g)
           A == Later(g, index, root)
           E == stream_groups(g, index, visited, root)
           F == [e \in E |-> GroupOf(root, e)]
<1>1. /\ E = {e \in {"111", "112", "122", "123"} \X (V \X V \X V) :
                /\ {e[2][1], e[2][2], e[2][3]} \subseteq A
                /\ HasShape(g, root, e[1], e[2][1], e[2][2], e[2][3])}
      /\ A \subseteq V /\ root \notin A
    <2>1. index[root] \in Int
        BY DEF Injection
    <2>2. QED BY <2>1, StreamIs DEF Later
<1> HIDE DEF E
<1>2. ASSUME NEW e \in E
      PROVE  /\ e = <<e[1], <<e[2][1], e[2][2], e[2][3]>>>>
             /\ e[2][1] \in A /\ e[2][2] \in A /\ e[2][3] \in A
             /\ HasShape(g, root, e[1], e[2][1], e[2][2], e[2][3])
             /\ e[2][1] # e[2][2] /\ e[2][1] # e[2][3] /\ e[2][2] # e[2][3]
             /\ F[e] = {root, e[2][1], e[2][2], e[2][3]} /\ F[e] \in GroupsFrom(g, index, root)
    <2> DEFINE a == e[2][1]
               b == e[2][2]
               c == e[2][3]
    <2>1. /\ e = <<e[1], <<a, b, c>>>> /\ a \in A /\ b \in A /\ c \in A
          /\ HasShape(g, root, e[1], a, b, c)
        BY <1>1
    <2>2. F[e] = {root, a, b, c}
        BY DEF GroupOf
    <2> HIDE DEF a, b, c
    <2>3. {root, a, b, c} \in MotifGroups(g) /\ a # b /\ a # c /\ b # c
        BY <1>1, <2>1, ShapeIsConnected
    <2>4. F[e] \in GroupsFrom(g, index, root)
        BY <1>1, <2>1, <2>2, <2>3 DEF GroupsFrom
    <2>5. QED BY <2>1, <2>2, <2>3, <2>4 DEF a, b, c
<1>3. ASSUME NEW e \in E, NEW h \in E, F[e] = F[h] PROVE e = h
    <2>1. {root, e[2][1], e[2][2], e[2][3]} = {root, h[2][1], h[2][2], h[2][3]}
        BY <1>2, <1>3
    <2> HIDE DEF F
    <2>2. /\ e[1] = h[1]
          /\ e[2][1] = h[2][1] /\ e[2][2] = h[2][2] /\ e[2][3] = h[2][3]
        BY <1>1, <1>2, <2>1, ShapeIsUnique
    <2>3. QED BY <1>2, <2>2
<1>4. ASSUME NEW S \in GroupsFrom(g, index, root) PROVE \E e \in E : F[e] = S
    <2>1. S \in MotifGroups(g) /\ root \in S /\ S \ {root} \subseteq A
        BY DEF GroupsFrom
    <2>2. HasSomeShape(g, root, S)
        BY <2>1, ConnectedHasShape
    <2>3. PICK a, b, c : /\ IsFour(S, root, a, b, c)
                         /\ \E k \in {"111", "112", "122", "123"} : HasShape(g, root, k, a, b, c)
        BY <2>2 DEF HasSomeShape
    <2>4. PICK k \in {"111", "112", "122", "123"} :
            S = {root, a, b, c} /\ HasShape(g, root, k, a, b, c)
        BY <2>3 DEF IsFour
    <2>5. <<k, <<a, b, c>>>> \in E
        BY <1>1, <2>1, <2>3, <2>4 DEF IsFour
    <2>6. F[<<k, <<a, b, c>>>>] = S
        BY <2>4, <2>5 DEF GroupOf
    <2>7. QED BY <2>5, <2>6
<1> HIDE DEF F
<1>5. F \in [E -> GroupsFrom(g, index, root)]
    BY <1>2 DEF F
<1>6. F \in Bijection(E, GroupsFrom(g, index, root))
    <2>1. F \in Injection(E, GroupsFrom(g, index, root))
        BY <1>3, <1>5 DEF Injection, IsInjective
    <2>2. F \in Surjection(E, GroupsFrom(g, index, root))
        BY <1>4, <1>5 DEF Surjection
    <2>3. QED BY <2>1, <2>2 DEF Bijection
<1>7. QED BY <1>6 DEF E, F

-----------------------------------------------------------------------------
(* The paths of one root.                                                  *)

\* The vertices of a path of five are different when there are five of them.
LEMMA FiveDistinct ==
    ASSUME NEW A, NEW p \in A \X A \X A \X A \X A
    PROVE  Cardinality({p[i] : i \in 1 .. 5}) = 5 <=> \A i, k \in 1 .. 5 : p[i] = p[k] => i = k
<1> DEFINE I == 1 .. 5
           S == {p[i] : i \in I}
           f == [i \in I |-> p[i]]
<1>1. IsFiniteSet(I) /\ Cardinality(I) = 5
    <2>1. 1 \in Int /\ 5 \in Int
        OBVIOUS
    <2>2. IsFiniteSet(1 .. 5) /\ Cardinality(1 .. 5) = IF 1 > 5 THEN 0 ELSE 5 - 1 + 1
        BY <2>1, FS_Interval, Zenon
    <2>3. QED BY <2>2
<1>2. f \in Surjection(I, S)
    BY DEF Surjection
<1>3. IsFiniteSet(S) /\ (Cardinality(S) = Cardinality(I) <=> f \in Injection(I, S))
    BY <1>1, <1>2, FS_Surjection
<1>4. f \in Injection(I, S) <=> \A i, k \in I : p[i] = p[k] => i = k
    BY DEF Injection, IsInjective
<1>5. QED BY <1>1, <1>3, <1>4

\* A half-path of an undirected graph, by its two vertices.
LEMMA HalfPaths ==
    ASSUME NEW g, IsColoredGraph(g), ~g.directed, NEW root, NEW v \in Vertices(g)
    PROVE  \A h : h \in half_paths(g, root, v) <=>
                     \E w \in Vertices(g) : h = <<v, w, FALSE>> /\ is_edge(g, v, w) /\ w # root
<1>1. directions(g) = {FALSE}
    BY DEF directions
<1>2. get_neighbours(g, v, FALSE) = {w \in Vertices(g) : is_edge(g, v, w)}
    BY DEF get_neighbours
<1>3. half_paths(g, root, v) = {<<v, w, FALSE>> : w \in get_neighbours(g, v, FALSE) \ {root}}
    BY <1>1 DEF half_paths
<1>4. QED BY <1>2, <1>3

\* What a root of an undirected graph emits, by the four other vertices.
LEMMA StreamOfPathsIs ==
    ASSUME NEW g, IsColoredGraph(g), ~g.directed, NEW root \in Vertices(g), NEW e
    PROVE  e \in stream_paths(g, root) <=>
              \E v, w, x, y \in Vertices(g) :
                 /\ e = <<"out-out", <<<<v, w, FALSE>>, <<x, y, FALSE>>>>>>
                 /\ is_edge(g, root, v) /\ is_edge(g, root, x) /\ v < x
                 /\ is_edge(g, v, w) /\ w # root /\ is_edge(g, x, y) /\ y # root
                 /\ v # y /\ w # x /\ w # y
<1> DEFINE V == Vertices(g)
           N == {v \in V : is_edge(g, root, v)}
<1>1. neighbour_pairs(g, root) = {"out-out"} \X {q \in N \X N : q[1] < q[2]}
    BY DEF neighbour_pairs, get_neighbours
<1>2. ASSUME e \in stream_paths(g, root)
      PROVE  \E v, w, x, y \in V :
                 /\ e = <<"out-out", <<<<v, w, FALSE>>, <<x, y, FALSE>>>>>>
                 /\ is_edge(g, root, v) /\ is_edge(g, root, x) /\ v < x
                 /\ is_edge(g, v, w) /\ w # root /\ is_edge(g, x, y) /\ y # root
                 /\ v # y /\ w # x /\ w # y
    <2>1. PICK pair \in neighbour_pairs(g, root) :
            e \in {pair[1]} \X {h \in half_paths(g, root, pair[2][1])
                                        \X half_paths(g, root, pair[2][2]) :
                                   ~check_path_intersection(h[1], h[2])}
        BY <1>2 DEF stream_paths
    <2> DEFINE v == pair[2][1]
               x == pair[2][2]
    <2>2. pair[1] = "out-out" /\ v \in N /\ x \in N /\ v < x
        BY <1>1
    <2>3. PICK h \in half_paths(g, root, v), k \in half_paths(g, root, x) :
            e = <<"out-out", <<h, k>>>> /\ ~check_path_intersection(h, k)
        BY <2>1, <2>2
    <2> HIDE DEF v, x
    <2>4. PICK w \in V : h = <<v, w, FALSE>> /\ is_edge(g, v, w) /\ w # root
        BY <2>2, <2>3, HalfPaths
    <2>5. PICK y \in V : k = <<x, y, FALSE>> /\ is_edge(g, x, y) /\ y # root
        BY <2>2, <2>3, HalfPaths
    <2>6. v # y /\ w # x /\ w # y
        BY <2>3, <2>4, <2>5 DEF check_path_intersection
    <2>7. QED BY <2>2, <2>3, <2>4, <2>5, <2>6
<1>3. ASSUME NEW v \in V, NEW w \in V, NEW x \in V, NEW y \in V,
             e = <<"out-out", <<<<v, w, FALSE>>, <<x, y, FALSE>>>>>>,
             is_edge(g, root, v), is_edge(g, root, x), v < x,
             is_edge(g, v, w), w # root, is_edge(g, x, y), y # root,
             v # y, w # x, w # y
      PROVE  e \in stream_paths(g, root)
    <2> DEFINE pair == <<"out-out", <<v, x>>>>
               h == <<v, w, FALSE>>
               k == <<x, y, FALSE>>
    <2>1. pair \in neighbour_pairs(g, root)
        BY <1>1, <1>3
    <2>2. h \in half_paths(g, root, v) /\ k \in half_paths(g, root, x)
        BY <1>3, HalfPaths
    <2>3. ~check_path_intersection(h, k)
        BY <1>3 DEF check_path_intersection
    <2>4. e \in {pair[1]} \X {q \in half_paths(g, root, pair[2][1])
                                        \X half_paths(g, root, pair[2][2]) :
                                   ~check_path_intersection(q[1], q[2])}
        BY <1>3, <2>2, <2>3
    <2>5. QED BY <2>1, <2>4 DEF stream_paths
<1>4. QED BY <1>2, <1>3, Zenon

\* A root of an undirected graph emits each path it is in the middle of once.
LEMMA PathsEmittedOnce ==
    ASSUME NEW g, IsColoredGraph(g), ~g.directed, NEW root \in Vertices(g)
    PROVE  [e \in stream_paths(g, root) |-> concatenate_path(root, e[2])]
              \in Bijection(stream_paths(g, root), {p \in SimplePaths(g) : p[3] = root})
<1> DEFINE V == Vertices(g)
           E == stream_paths(g, root)
           F == [e \in E |-> concatenate_path(root, e[2])]
           T == {p \in SimplePaths(g) : p[3] = root}
           Emits(e, v, w, x, y) ==
                 /\ e = <<"out-out", <<<<v, w, FALSE>>, <<x, y, FALSE>>>>>>
                 /\ is_edge(g, root, v) /\ is_edge(g, root, x) /\ v < x
                 /\ is_edge(g, v, w) /\ w # root /\ is_edge(g, x, y) /\ y # root
                 /\ v # y /\ w # x /\ w # y
<1>1. \A e : e \in E <=> \E v, w, x, y \in V : Emits(e, v, w, x, y)
    BY StreamOfPathsIs
<1>2. /\ V \subseteq Int
      /\ \A u, w \in V : is_edge(g, u, w) => u # w /\ is_edge(g, w, u)
    BY DEF IsColoredGraph, is_edge
<1> HIDE DEF E
<1>3. ASSUME NEW e \in E, NEW v \in V, NEW w \in V, NEW x \in V, NEW y \in V, Emits(e, v, w, x, y)
      PROVE  F[e] = <<w, v, root, x, y>> /\ F[e] \in T
    <2> DEFINE p == <<w, v, root, x, y>>
    <2>1. F[e] = p
        BY <1>3 DEF concatenate_path
    <2>2. p \in V \X V \X V \X V \X V
        OBVIOUS
    <2>3. \A i, k \in 1 .. 5 : p[i] = p[k] => i = k
        <3>1. /\ w # v /\ w # root /\ w # x /\ w # y /\ v # root /\ v # x /\ v # y
              /\ root # x /\ root # y /\ x # y
            BY <1>2, <1>3
        <3>2. QED BY <3>1
    <2>4. Cardinality({p[i] : i \in 1 .. 5}) = 5
        BY <2>2, <2>3, FiveDistinct
    <2>5. IsPath(g, p)
        BY <1>2, <1>3 DEF IsPath
    <2>6. p[2] < p[4] /\ p[3] = root
        BY <1>3
    <2> HIDE DEF p
    <2>7. p \in T
        BY <2>2, <2>4, <2>5, <2>6 DEF SimplePaths
    <2>8. QED BY <2>1, <2>7 DEF p
<1>4. F \in [E -> T]
    BY <1>1, <1>3
<1> HIDE DEF Emits, F, T
<1>5. ASSUME NEW e \in E, NEW h \in E, F[e] = F[h] PROVE e = h
    <2>1. PICK v \in V, w \in V, x \in V, y \in V : Emits(e, v, w, x, y)
        BY <1>1
    <2>2. PICK a \in V, b \in V, c \in V, d \in V : Emits(h, a, b, c, d)
        BY <1>1
    <2>3. <<w, v, root, x, y>> = <<b, a, root, c, d>>
        BY <1>3, <1>5, <2>1, <2>2
    <2>4. w = b /\ v = a /\ x = c /\ y = d
        BY <2>3
    <2>5. QED BY <2>1, <2>2, <2>4 DEF Emits
<1>6. ASSUME NEW p \in T PROVE \E e \in E : F[e] = p
    <2>1. /\ p \in V \X V \X V \X V \X V /\ p[2] < p[4] /\ p[3] = root /\ IsPath(g, p)
          /\ \A i, k \in 1 .. 5 : p[i] = p[k] => i = k
        BY FiveDistinct DEF SimplePaths, T
    <2> DEFINE e == <<"out-out", <<<<p[2], p[1], FALSE>>, <<p[4], p[5], FALSE>>>>>>
    <2>2. p = <<p[1], p[2], root, p[4], p[5]>> /\ \A i \in 1 .. 5 : p[i] \in V
        BY <2>1
    <2>3. is_edge(g, p[1], p[2]) /\ is_edge(g, p[2], root) /\ is_edge(g, root, p[4]) /\ is_edge(g, p[4], p[5])
        BY <2>1 DEF IsPath
    <2>4. Emits(e, p[2], p[1], p[4], p[5])
        BY <1>2, <2>1, <2>2, <2>3 DEF Emits
    <2> HIDE DEF e
    <2>5. e \in E
        BY <1>1, <2>2, <2>4
    <2>6. F[e] = p
        BY <1>3, <2>2, <2>4, <2>5
    <2>7. QED BY <2>5, <2>6
<1>7. F \in Injection(E, T) /\ F \in Surjection(E, T)
    BY <1>4, <1>5, <1>6 DEF Injection, IsInjective, Surjection
<1>8. QED BY <1>7 DEF Bijection, E, F, T

\* A path recorded from its two halves has the number of the whole.
LEMMA NumberOfPath ==
    ASSUME NEW g, IsColoredGraph(g), ~g.directed, NEW root \in Vertices(g),
           NEW e \in stream_paths(g, root)
    PROVE  LET colors == PathColors(g, concatenate_path(root, e[2])) IN
           PathNumber(g, root, e[2]) =
              [colors |-> IF sequence_leq(colors, Reverse(colors)) THEN colors ELSE Reverse(colors),
               edges  |-> <<FALSE, FALSE, FALSE, FALSE>>]
BY DEF PathNumber, PathColors, compute_motif_descriptor

-----------------------------------------------------------------------------
(* The tables of a job.                                                    *)

\* A table is the function it is made of.
LEMMA TableIs == ASSUME NEW f PROVE Table(f) = f
BY DEF Table

\* Groups, their numbers and the numbers of motifs, without the tables TLC keeps them in.
LEMMA TablesOfJob ==
    ASSUME TypeOK, job # NoJob
    PROVE  /\ Groups[job] = IF job.kind = "motifs" THEN MotifGroups(Graph) ELSE SimplePaths(Graph)
           /\ \A S \in kSubset(4, Vertices(Graph)) :
                 MotifNumbers[Graph][S] = MotifNumber(Graph, S)
           /\ job.kind = "motifs" =>
                 \A x \in Groups[job] : GroupNumber[job][x] = MotifNumbers[Graph][x]
           /\ job.kind = "paths" =>
                 \A x \in Groups[job] :
                    GroupNumber[job][x] =
                       [colors |-> IF sequence_leq(PathColors(Graph, x), Reverse(PathColors(Graph, x)))
                                   THEN PathColors(Graph, x) ELSE Reverse(PathColors(Graph, x)),
                        edges  |-> <<FALSE, FALSE, FALSE, FALSE>>]
<1>1. job \in Jobs /\ Graph \in {j.graph : j \in Jobs} /\ job.graph = Graph
    BY JobType DEF Graph
<1>2. Groups[job] = IF job.kind = "motifs" THEN MotifGroups(Graph) ELSE SimplePaths(Graph)
    BY <1>1, TableIs DEF Groups
<1> DEFINE M(g) == [S \in kSubset(4, Vertices(g)) |-> MotifNumber(g, S)]
           N(j) == [x \in Groups[j] |->
                      IF j.kind = "motifs" THEN MotifNumbers[j.graph][x]
                      ELSE [colors |-> IF sequence_leq(PathColors(j.graph, x),
                                                       Reverse(PathColors(j.graph, x)))
                                       THEN PathColors(j.graph, x)
                                       ELSE Reverse(PathColors(j.graph, x)),
                            edges  |-> <<FALSE, FALSE, FALSE, FALSE>>]]
<1>3. MotifNumbers[Graph] = M(Graph)
    <2>1. MotifNumbers = [g \in {j.graph : j \in Jobs} |-> Table(M(g))]
        BY TableIs, Zenon DEF MotifNumbers
    <2> HIDE DEF M
    <2>2. MotifNumbers[Graph] = Table(M(Graph))
        BY <1>1, <2>1
    <2>3. QED BY <2>2, TableIs
<1>4. GroupNumber[job] = N(job)
    <2>1. GroupNumber = [j \in Jobs |-> Table(N(j))]
        BY TableIs, Zenon DEF GroupNumber
    <2> HIDE DEF N
    <2>2. GroupNumber[job] = Table(N(job))
        BY <1>1, <2>1
    <2>3. QED BY <2>2, TableIs
<1>5. QED BY <1>1, <1>2, <1>3, <1>4

\* m_order_index is the inverse of m_node_order.
LEMMA OrderIndex ==
    ASSUME TypeOK, job # NoJob
    PROVE  /\ DOMAIN m_node_order = Vertices(Graph) /\ IsFiniteSet(Vertices(Graph))
           /\ Vertices(Graph) \subseteq Nat
           /\ m_order_index \in Injection(Vertices(Graph), Int)
           /\ \A p \in Vertices(Graph) : /\ m_node_order[p] \in Vertices(Graph)
                                         /\ m_order_index[m_node_order[p]] = p
           /\ \A v \in Vertices(Graph) : /\ m_order_index[v] \in Vertices(Graph)
                                         /\ m_node_order[m_order_index[v]] = v
<1> DEFINE V == Vertices(Graph)
<1>1. m_node_order \in Bijection(V, V) /\ IsFiniteSet(V)
    BY JobType DEF IsColoredGraph
<1>2. V \subseteq Nat
    BY JobType DEF IsColoredGraph
<1>3. /\ m_node_order \in [V -> V]
      /\ \A p, q \in V : m_node_order[p] = m_node_order[q] => p = q
      /\ \A v \in V : \E p \in V : m_node_order[p] = v
    BY <1>1 DEF Bijection, Injection, IsInjective, Surjection
<1>4. \A v \in V : /\ m_order_index[v] \in V
                   /\ m_node_order[m_order_index[v]] = v
    BY <1>3 DEF m_order_index
<1>5. m_order_index \in [V -> Int]
    <2>1. m_order_index \in [V -> V]
        BY <1>4 DEF m_order_index
    <2>2. QED BY <1>2, <2>1
<1>6. m_order_index \in Injection(V, Int)
    BY <1>4, <1>5 DEF Injection, IsInjective
<1>7. QED BY <1>1, <1>2, <1>3, <1>4, <1>6

\* The groups that are counted at a position are those its root emits.
LEMMA GroupsAtPosition ==
    ASSUME TypeOK, job # NoJob, job.kind = "motifs", NEW p \in Vertices(Graph)
    PROVE  GroupsFrom(Graph, m_order_index, m_node_order[p]) =
              {S \in MotifGroups(Graph) : GroupPosition(m_order_index, S) = p}
<1> DEFINE V == Vertices(Graph)
           index == m_order_index
           root == m_node_order[p]
<1>1. /\ \A v \in V : index[v] \in V /\ m_node_order[index[v]] = v
      /\ root \in V /\ index[root] = p /\ V \subseteq Nat
    BY OrderIndex
<1>2. ASSUME NEW S \in MotifGroups(Graph)
      PROVE  S \in GroupsFrom(Graph, index, root) <=> Min({index[v] : v \in S}) = p
    <2> DEFINE I == {index[v] : v \in S}
    <2>1. S \subseteq V /\ Cardinality(S) = 4 /\ IsFiniteSet(S)
        BY OrderIndex, FS_Subset DEF MotifGroups, kSubset
    <2>2. S # {}
        BY <2>1, FS_EmptySet
    <2>3. IsFiniteSet(I)
        <3> DEFINE f == [v \in S |-> index[v]]
        <3>1. f \in Surjection(S, I)
            BY DEF Surjection
        <3>2. QED BY <2>1, <3>1, FS_Surjection
    <2>4. I \subseteq Int /\ I # {} /\ \A v \in S : index[v] \in I
        BY <1>1, <2>1, <2>2
    <2>5. \A i \in I : \E v \in S : index[v] = i
        OBVIOUS
    <2> HIDE DEF I
    <2>6. Min(I) \in I /\ \A y \in I : Min(I) <= y
        BY <2>3, <2>4, SmallestOfSet
    <2>7. p \in Int /\ \A v \in S : v \in V /\ index[v] \in Int
        BY <1>1, <2>1
    <2>8. ASSUME Min(I) = p PROVE S \in GroupsFrom(Graph, index, root)
        <3>1. PICK v \in S : index[v] = p
            BY <2>5, <2>6, <2>8
        <3>2. v = root
            BY <1>1, <2>1, <3>1
        <3>3. ASSUME NEW w \in S \ {root} PROVE index[w] > index[root]
            <4>1. p <= index[w]
                BY <2>4, <2>6, <2>8
            <4>2. index[w] # p
                BY <1>1, <2>7
            <4>3. QED BY <1>1, <2>7, <4>1, <4>2
        <3>4. QED BY <2>1, <3>2, <3>3 DEF GroupsFrom, Later
    <2>9. ASSUME S \in GroupsFrom(Graph, index, root) PROVE Min(I) = p
        <3>1. p \in I /\ \A w \in S : index[w] >= p
            BY <1>1, <2>4, <2>7, <2>9 DEF GroupsFrom, Later
        <3>2. PICK v \in S : index[v] = Min(I)
            BY <2>5, <2>6
        <3>3. QED BY <2>6, <2>7, <3>1, <3>2
    <2>10. QED BY <2>8, <2>9 DEF I
<1>3. QED BY <1>2 DEF GroupsFrom, GroupPosition

\* Things recorded with a number are as many as what they stand for.
LEMMA RecordedOnce ==
    ASSUME NEW E, NEW T, NEW F, NEW n, NEW m, NEW id, NEW R, NEW X,
           AreRecords(E, T, F, n, m, id, R, X), IsFiniteSet(R)
    PROVE  IsFiniteSet(X) /\ Cardinality(R) = Cardinality(X)
<1> DEFINE G == [r \in R |-> F[r[2]]]
<1>0. /\ F \in Bijection(E, T)
      /\ \A e \in E : n[e] = m[F[e]]
      /\ \A r : r \in R <=> \E e \in E : n[e] = id /\ r = <<id, e>>
      /\ \A x : x \in X <=> x \in T /\ m[x] = id
    BY DEF AreRecords
<1>1. /\ F \in [E -> T]
      /\ \A e, h \in E : F[e] = F[h] => e = h
      /\ \A x \in T : \E e \in E : F[e] = x
    BY <1>0 DEF Bijection, Injection, IsInjective, Surjection
<1>2. \A r \in R : r[2] \in E /\ r = <<id, r[2]>> /\ n[r[2]] = id
    BY <1>0
<1>3. \A e \in E : n[e] = id => <<id, e>> \in R
    BY <1>0
<1>5. G \in [R -> X]
    BY <1>0, <1>1, <1>2
<1>6. \A r, q \in R : G[r] = G[q] => r = q
    BY <1>1, <1>2
<1>7. \A x \in X : \E r \in R : G[r] = x
    <2> SUFFICES ASSUME NEW x \in X PROVE \E r \in R : G[r] = x
        OBVIOUS
    <2>1. PICK e \in E : F[e] = x
        BY <1>0, <1>1
    <2>2. <<id, e>> \in R
        BY <1>0, <1>3, <2>1
    <2>3. G[<<id, e>>] = x
        BY <2>1, <2>2
    <2>4. QED BY <2>2, <2>3
<1> HIDE DEF G
<1>8. G \in Bijection(R, X)
    BY <1>5, <1>6, <1>7 DEF Bijection, Injection, IsInjective, Surjection
<1>9. ExistsBijection(R, X)
    BY <1>8 DEF ExistsBijection
<1>10. IsFiniteSet(X) /\ Cardinality(X) = Cardinality(R)
    BY <1>9, FS_Bijection
<1>11. QED BY <1>10

\* What is recorded for the root at a position are the groups counted at that
\* position, under their numbers and as many of each.
LEMMA RecordedAtPosition ==
    ASSUME TypeOK, job # NoJob, PathJobsAreUndirected, NEW p \in Vertices(Graph), NEW visited,
           job.kind = "motifs" => MarksDepthOne(Graph, visited, m_node_order[p]), NEW id
    PROVE  /\ IsFiniteSet(NumberedAt({p}, id))
           /\ IsFiniteSet(RecordedAs(Recorded(visited, m_node_order[p]), id))
           /\ Cardinality(RecordedAs(Recorded(visited, m_node_order[p]), id)) = Cardinality(NumberedAt({p}, id))
<1> DEFINE V == Vertices(Graph)
           root == m_node_order[p]
           T == GroupsAt({p})
           m == GroupNumber[job]
           recorded == Recorded(visited, root)
           R == {r \in recorded : r[1] = id}
           X == {x \in T : m[x] = id}
<1>1. IsColoredGraph(Graph) /\ root \in V /\ m_order_index \in Injection(V, Int)
    BY JobType, OrderIndex
<1>2. IsFiniteSet(R)
    BY RecordedIsFinite, FS_Subset
<1>3. CASE job.kind = "motifs"
    <2> DEFINE E == stream_groups(Graph, m_order_index, visited, root)
               F == [e \in E |-> GroupOf(root, e)]
               n == [e \in E |-> MotifNumbers[Graph][{root, e[2][1], e[2][2], e[2][3]}]]
    <2>1. T = GroupsFrom(Graph, m_order_index, root)
        BY <1>3, GroupsAtPosition, TablesOfJob DEF GroupsAt
    <2>2. F \in Bijection(E, T)
        BY <1>1, <1>3, <2>1, EmittedOnce
    <2>3. recorded = {<<n[e], e>> : e \in E}
        BY <1>3 DEF Recorded
    <2>4. \A e \in E : n[e] = m[F[e]]
        <3>1. \A e \in E : F[e] \in T /\ F[e] = {root, e[2][1], e[2][2], e[2][3]}
            BY <2>2 DEF Bijection, Injection, GroupOf
        <3>2. \A x \in T : m[x] = MotifNumbers[Graph][x]
            BY <1>3, TablesOfJob DEF GroupsAt
        <3>3. QED BY <3>1, <3>2
    <2> HIDE DEF E, F, n, m, T, recorded
    <2>5. \A r : r \in R <=> \E e \in E : n[e] = id /\ r = <<id, e>>
        BY <2>3
    <2>6. \A x : x \in X <=> x \in T /\ m[x] = id
        OBVIOUS
    <2> HIDE DEF R, X
    <2>7. AreRecords(E, T, F, n, m, id, R, X)
        BY <1>2, <2>2, <2>4, <2>5, <2>6 DEF AreRecords
    <2>8. IsFiniteSet(X) /\ Cardinality(R) = Cardinality(X)
        BY <1>2, <2>7, RecordedOnce
    <2>9. QED BY <1>2, <2>8 DEF m, T, recorded, R, X, NumberedAt, RecordedAs
<1>4. CASE job.kind = "paths"
    <2> DEFINE E == stream_paths(Graph, root)
               F == [e \in E |-> concatenate_path(root, e[2])]
               n == [e \in E |-> PathNumber(Graph, root, e[2])]
    <2>1. ~Graph.directed
        BY <1>4, JobType DEF PathJobsAreUndirected, Graph
    <2>2. T = {x \in SimplePaths(Graph) : x[3] = root}
        <3>1. \A x \in SimplePaths(Graph) : x[3] \in V
            BY DEF SimplePaths
        <3>2. \A v \in V : m_order_index[v] = p <=> v = root
            BY OrderIndex
        <3>3. QED BY <1>4, <3>1, <3>2, TablesOfJob DEF GroupsAt, GroupPosition
    <2>3. F \in Bijection(E, T)
        BY <1>1, <2>1, <2>2, PathsEmittedOnce
    <2>4. recorded = {<<n[e], e>> : e \in E}
        BY <1>4 DEF Recorded
    <2>5. \A e \in E : n[e] = m[F[e]]
        <3>1. \A e \in E : F[e] \in Groups[job] /\ F[e] = concatenate_path(root, e[2])
            BY <2>3 DEF Bijection, Injection, GroupsAt
        <3> DEFINE c(e) == PathColors(Graph, concatenate_path(root, e[2]))
                   k(e) == [colors |-> IF sequence_leq(c(e), Reverse(c(e))) THEN c(e) ELSE Reverse(c(e)),
                            edges  |-> <<FALSE, FALSE, FALSE, FALSE>>]
        <3>2. \A e \in E : m[F[e]] = k(e)
            BY <1>4, <3>1, TablesOfJob
        <3>3. \A e \in E : n[e] = k(e)
            BY <1>1, <2>1, NumberOfPath
        <3>4. QED BY <3>2, <3>3
    <2> HIDE DEF E, F, n, m, T, recorded
    <2>6. \A r : r \in R <=> \E e \in E : n[e] = id /\ r = <<id, e>>
        BY <2>4
    <2>7. \A x : x \in X <=> x \in T /\ m[x] = id
        OBVIOUS
    <2> HIDE DEF R, X
    <2>8. AreRecords(E, T, F, n, m, id, R, X)
        BY <1>2, <2>3, <2>5, <2>6, <2>7 DEF AreRecords
    <2>9. IsFiniteSet(X) /\ Cardinality(R) = Cardinality(X)
        BY <1>2, <2>8, RecordedOnce
    <2>10. QED BY <1>2, <2>9 DEF m, T, recorded, R, X, NumberedAt, RecordedAs
<1>5. QED BY <1>3, <1>4, JobType

-----------------------------------------------------------------------------
(* Positions.                                                              *)

\* Before a position is worked on it does not count as finished, while it is
\* worked on neither, and afterwards it does.
LEMMA StepOnPositions ==
    ASSUME TypeOK, RootsAreClaimedOnce, NEW i \in DOMAIN worker, WorkerStep(i)
    PROVE  LET p == worker[i].idx IN
           \/ /\ ~WorkOnRoot(i) /\ FinishedPositions' = FinishedPositions
           \/ /\ WorkOnRoot(i)
              /\ p \in Vertices(Graph) /\ p \notin FinishedPositions
              /\ FinishedPositions' = FinishedPositions \cup {p}
<1> DEFINE w == worker[i]
           D == DOMAIN worker
<1>1. /\ w \in [pc : {w.pc}, idx : Nat, bfs_visited : {w.bfs_visited},
                local_map : {w.local_map}, failed : BOOLEAN]
      /\ w.pc = "work" => w.idx \in DOMAIN m_node_order
    BY FieldsOfWorker
<1>2. /\ job # NoJob /\ next_idx \in Nat
      /\ DOMAIN m_node_order = Vertices(Graph) /\ Vertices(Graph) \subseteq Nat
    BY WorkersInJobs, OrderIndex DEF TypeOK
<1>3. /\ D' = D /\ m_node_order' = m_node_order
      /\ \A k \in D \ {i} : worker'[k] = worker[k]
    BY ClaimEffect DEF WorkerStep, StartWorker, FailToStart, ClaimRoot, WorkOnRoot
<1>4. \A p : p \in OpenPositions <=> \E k \in D : worker[k].pc = "work" /\ worker[k].idx = p
    BY DEF OpenPositions
<1>5. \A p : p \in OpenPositions' <=> \E k \in D : worker'[k].pc = "work" /\ worker'[k].idx = p
    BY <1>3 DEF OpenPositions
<1>6. \A p : p \in FinishedPositions <=>
               p \in DOMAIN m_node_order /\ p < next_idx /\ p \notin OpenPositions
    BY DEF FinishedPositions
<1>7. \A p : p \in FinishedPositions' <=>
               p \in DOMAIN m_node_order /\ p < next_idx' /\ p \notin OpenPositions'
    BY <1>3 DEF FinishedPositions
<1>8. CASE WorkOnRoot(i)
    <2>1. w.pc = "work" /\ next_idx' = next_idx /\ worker'[i].pc # "work"
        BY <1>1, <1>8 DEF WorkOnRoot
    <2>2. w.idx < next_idx /\ \A k \in D \ {i} : worker[k].pc = "work" => worker[k].idx # w.idx
        BY <2>1 DEF RootsAreClaimedOnce
    <2>3. OpenPositions' = OpenPositions \ {w.idx} /\ w.idx \in OpenPositions
        BY <1>3, <1>4, <1>5, <2>1, <2>2
    <2>4. w.idx \in DOMAIN m_node_order
        BY <1>1, <2>1
    <2>5. FinishedPositions' = FinishedPositions \cup {w.idx} /\ w.idx \notin FinishedPositions
        BY <1>6, <1>7, <2>1, <2>2, <2>3, <2>4
    <2>6. QED BY <1>2, <1>8, <2>4, <2>5
<1>9. CASE StartWorker(i) \/ FailToStart(i)
    <2>1. w.pc = "start" /\ next_idx' = next_idx /\ worker'[i].pc # "work"
        BY <1>1, <1>9 DEF StartWorker, FailToStart
    <2>2. OpenPositions' = OpenPositions
        <3>1. \A k \in D : /\ worker'[k].pc = "work" <=> worker[k].pc = "work"
                           /\ worker[k].pc = "work" => worker'[k].idx = worker[k].idx
            BY <1>3, <2>1
        <3>2. \A p : p \in OpenPositions' <=> p \in OpenPositions
            BY <1>4, <1>5, <3>1
        <3>3. QED BY <3>2 DEF OpenPositions
    <2>3. FinishedPositions' = FinishedPositions
        BY <1>6, <1>7, <2>1, <2>2
    <2>4. ~WorkOnRoot(i)
        BY <2>1 DEF WorkOnRoot
    <2>5. QED BY <2>3, <2>4
<1>10. CASE ClaimRoot(i)
    <2>1. /\ w.pc = "claim" /\ next_idx' = next_idx + 1 /\ worker'[i].idx = next_idx
          /\ worker'[i].pc = IF HasRoot(next_idx) THEN "work" ELSE "done"
        BY <1>1, <1>10 DEF ClaimRoot
    <2>2. ~HasRoot(next_idx) => next_idx \notin DOMAIN m_node_order
        BY <1>2, JobType, FS_CardinalityType
           DEF HasRoot, order_size, vertex_count, IsColoredGraph
    <2>3. \A p \in DOMAIN m_node_order : p < next_idx + 1 <=> p < next_idx \/ p = next_idx
        BY <1>2
    <2>4. \A p \in DOMAIN m_node_order :
            p \in OpenPositions' <=> p \in OpenPositions \/ p = next_idx
        BY <1>3, <1>4, <1>5, <2>1, <2>2
    <2>5. FinishedPositions' = FinishedPositions
        <3>1. ~(next_idx < next_idx)
            BY <1>2
        <3>2. \A p : p \in FinishedPositions' <=> p \in FinishedPositions
            BY <1>6, <1>7, <2>1, <2>3, <2>4, <3>1
        <3>3. QED BY <3>2 DEF FinishedPositions
    <2>6. ~WorkOnRoot(i)
        BY <2>1 DEF WorkOnRoot
    <2>7. QED BY <2>5, <2>6
<1>11. QED BY <1>8, <1>9, <1>10 DEF WorkerStep

\* Work that is done does not have to be done again.
LEMMA DoneMeansFinished ==
    ASSUME TypeOK, RootsAreClaimedOnce, AllAreJoined, main = "join", AllJoined, ~AnyFailed
    PROVE  FinishedPositions = Vertices(Graph)
<1>1. /\ job # NoJob /\ job \in Jobs /\ next_idx \in Nat /\ worker \in Seq(Range(worker))
      /\ DOMAIN m_node_order = Vertices(Graph) /\ IsColoredGraph(Graph)
    BY OrderIndex, JobType DEF TypeOK
<1>2. OpenPositions = {}
    BY DEF OpenPositions, AllJoined
<1>3. order_size \in Nat /\ Vertices(Graph) = 0 .. order_size - 1
    BY <1>1, FS_CardinalityType DEF order_size, vertex_count, IsColoredGraph
<1>4. CASE worker = <<>>
    <2>1. thread_count = 0
        BY <1>4 DEF AllAreJoined
    <2>2. job.threads \in Nat \ {0}
        BY <1>1, EnumerationAssumption
    <2>3. order_size = 0
        BY <1>3, <2>1, <2>2 DEF thread_count
    <2>4. QED BY <1>1, <1>3, <2>3 DEF FinishedPositions
<1>5. CASE worker # <<>>
    <2>1. 1 \in DOMAIN worker
        BY <1>1, <1>5, EmptySeq, LenProperties
    <2>2. next_idx > order_size
        BY <2>1 DEF AllJoined, AnyFailed, RootsAreClaimedOnce
    <2>3. QED BY <1>1, <1>2, <1>3, <2>2 DEF FinishedPositions
<1>6. QED BY <1>4, <1>5

-----------------------------------------------------------------------------
(* Marks.                                                                  *)

\* A root that no mark is of marks its neighbours, and nothing else, as being at
\* depth one.
LEMMA MarksOfFreshRoot ==
    ASSUME NEW g, IsColoredGraph(g), NEW root \in Vertices(g),
           NEW visited \in [Vertices(g) -> Int], \A v \in Vertices(g) : visited[v] \div 4 # root
    PROVE  MarksDepthOne(g, mark_depth_one(g, visited, root), root)
<1> DEFINE v0 == [visited EXCEPT ![root] = run_id(root)]
           N == neighbour_range(g, root)
           one == mark_depth_one(g, visited, root)
<1>1. root \in Int /\ N = {w \in Vertices(g) : adjacent(g, root, w)} /\ ~adjacent(g, root, root)
    <2>1. root \in Int
        BY DEF IsColoredGraph
    <2>2. QED BY <2>1, Adjacency
<1>2. (4 * root) \div 4 = root /\ (4 * root + 1) \div 4 = root
    BY <1>1
<1>3. \A w \in Vertices(g) \ {root} : v0[w] = visited[w] /\ v0[w] \in Int /\ v0[w] \div 4 # root
    OBVIOUS
<1>4. \A w \in Vertices(g) \ {root} : one[w] = IF w \in N THEN 4 * root + 1 ELSE visited[w]
    BY <1>3 DEF mark_depth_one, mark_neighbours, is_visited_in_run, run_id
<1>5. \A w \in Vertices(g) \ {root} : one[w] = 4 * root + 1 <=> adjacent(g, root, w)
    BY <1>1, <1>2, <1>4
<1>6. QED BY <1>1, <1>5 DEF MarksDepthOne, is_not_at_depth_one, run_id

\* A mark that is written is of the root that writes it.
LEMMA MarkIsOfRoot ==
    ASSUME NEW visited, NEW root \in Int, NEW S, NEW depth \in 0 .. 3, NEW v \in DOMAIN visited
    PROVE  LET m == mark_neighbours(visited, root, S, depth) IN
           /\ DOMAIN m = DOMAIN visited
           /\ m[v] = visited[v] \/ m[v] \div 4 = root
<1>1. (4 * root + depth) \div 4 = root
    OBVIOUS
<1>2. QED BY <1>1 DEF mark_neighbours, run_id

\* Working on a root leaves a mark as it was or makes it one of that root.
LEMMA MarksOfRoot ==
    ASSUME NEW g, NEW index, NEW visited, NEW root \in Int, NEW v \in DOMAIN visited
    PROVE  LET done == mark_deeper(g, index, mark_depth_one(g, visited, root), root) IN
           done[v] = visited[v] \/ done[v] \div 4 = root
<1> DEFINE v0 == [visited EXCEPT ![root] = run_id(root)]
           one == mark_depth_one(g, visited, root)
           seconds == UNION {neighbour_range(g, f) : f \in depth_one(g, index, root)}
           anchors == UNION {deeper(g, index, one, root, f) : f \in depth_one(g, index, root)}
           thirds  == UNION {not_before(index, root, neighbour_range(g, s)) : s \in anchors}
           two == mark_neighbours(one, root, seconds, 2)
           three == mark_neighbours(two, root, thirds, 3)
<1>1. DOMAIN v0 = DOMAIN visited /\ (v0[v] = visited[v] \/ v0[v] \div 4 = root)
    <2>1. (4 * root) \div 4 = root
        OBVIOUS
    <2>2. QED BY <2>1 DEF run_id
<1>2. one = mark_neighbours(v0, root, neighbour_range(g, root), 1)
    BY DEF mark_depth_one
<1>3. three = mark_deeper(g, index, one, root)
    BY DEF mark_deeper
<1> HIDE DEF v0, one, seconds, thirds
<1>4. DOMAIN one = DOMAIN visited /\ (one[v] = v0[v] \/ one[v] \div 4 = root)
    BY <1>1, <1>2, MarkIsOfRoot, 1 \in 0 .. 3
<1>5. DOMAIN two = DOMAIN visited /\ (two[v] = one[v] \/ two[v] \div 4 = root)
    BY <1>4, MarkIsOfRoot, 2 \in 0 .. 3
<1> HIDE DEF two
<1>6. three[v] = two[v] \/ three[v] \div 4 = root
    BY <1>5, MarkIsOfRoot, 3 \in 0 .. 3
<1>7. QED BY <1>1, <1>3, <1>4, <1>5, <1>6 DEF one

-----------------------------------------------------------------------------
(* Counts wrap.                                                            *)

\* A multiple of L and a remainder.
LEMMA ModOfMultiple ==
    ASSUME NEW L \in Nat \ {0}, NEW a \in Int, NEW r \in 0 .. L - 1
    PROVE  ((L * a) + r) % L = r
OBVIOUS

\* What % and \div are.
LEMMA DivMod ==
    ASSUME NEW L \in Nat \ {0}, NEW x \in Int
    PROVE  x = (L * (x \div L)) + (x % L) /\ x % L \in 0 .. L - 1 /\ x \div L \in Int
OBVIOUS

\* Multiples of L do not matter.
LEMMA ModShift ==
    ASSUME NEW L \in Nat \ {0}, NEW x \in Int, NEW q \in Int
    PROVE  (x + (L * q)) % L = x % L
<1> DEFINE d == x \div L
           r == x % L
<1>1. x = (L * d) + r /\ r \in 0 .. L - 1 /\ d \in Int
    BY DivMod
<1> HIDE DEF d, r
<1>2. x + (L * q) = (L * (d + q)) + r
    BY <1>1
<1>3. ((L * (d + q)) + r) % L = r
    BY <1>1, ModOfMultiple
<1>4. QED BY <1>2, <1>3 DEF r

\* Adding c to one number of a sum, modulo L, adds c to the sum, modulo L.
LEMMA ModOfChange ==
    ASSUME NEW L \in Nat \ {0}, NEW s \in Int, NEW old \in Int, NEW c \in Int
    PROVE  (s + (((old + c) % L) - old)) % L = (s + c) % L
<1> DEFINE q == (old + c) \div L
           r == (old + c) % L
<1>1. old + c = (L * q) + r /\ r \in Int /\ q \in Int
    BY DivMod
<1> HIDE DEF q, r
<1>2. s + c = (s + (r - old)) + (L * q)
    BY <1>1
<1>3. ((s + (r - old)) + (L * q)) % L = (s + (r - old)) % L
    <2> DEFINE x == s + (r - old)
    <2>1. x \in Int
        BY <1>1
    <2> HIDE DEF x
    <2>2. (x + (L * q)) % L = x % L
        BY <1>1, <2>1, ModShift
    <2>3. QED BY <2>2 DEF x
<1>4. QED BY <1>2, <1>3 DEF r

\* Numbers that are equal modulo L stay so.
LEMMA ModOfSum ==
    ASSUME NEW L \in Nat \ {0}, NEW s \in Int, NEW t \in Int, NEW c \in Int, s % L = t % L
    PROVE  (s + c) % L = (t + c) % L
<1> DEFINE a == s \div L
           b == t \div L
           r == s % L
<1>1. s = (L * a) + r /\ t = (L * b) + r /\ a \in Int /\ b \in Int /\ r \in Int
    BY DivMod
<1> HIDE DEF a, b, r
<1>2. s + c = (r + c) + (L * a) /\ t + c = (r + c) + (L * b)
    BY <1>1
<1> DEFINE x == r + c
<1>3. x \in Int
    BY <1>1
<1> HIDE DEF x
<1>4. (x + (L * a)) % L = x % L /\ (x + (L * b)) % L = x % L
    BY <1>1, <1>3, ModShift
<1>5. QED BY <1>2, <1>4 DEF x

\* What a map has under a number is a count.
LEMMA CountOf ==
    ASSUME TypeOK, NEW i \in DOMAIN worker, NEW id
    PROVE  at(worker[i].local_map, id) \in 0 .. COUNT_LIMIT - 1
BY FieldsOfWorker, EnumerationAssumption DEF at

\* Recording adds to the count under every number as many as were recorded.
LEMMA CountAfterRecording ==
    ASSUME NEW map, NEW recorded, IsFiniteSet(recorded), NEW id,
           at(map, id) \in 0 .. COUNT_LIMIT - 1
    PROVE  /\ at(add_to_counts(map, recorded), id) =
                 (at(map, id) + Cardinality(RecordedAs(recorded, id))) % COUNT_LIMIT
           /\ DOMAIN add_to_counts(map, recorded) = DOMAIN map \cup {r[1] : r \in recorded}
<1> DEFINE R == {r \in recorded : r[1] = id}
           n == Cardinality(R)
           D == DOMAIN map \cup {r[1] : r \in recorded}
<1>1. DOMAIN add_to_counts(map, recorded) = D
    BY DEF add_to_counts
<1>2. CASE id \in D
    BY <1>1, <1>2 DEF at, add_to_counts, RecordedAs
<1>3. CASE id \notin D
    <2>1. R = {} /\ at(map, id) = 0
        BY <1>3 DEF at
    <2>2. n = 0
        BY <2>1, FS_EmptySet
    <2>3. COUNT_LIMIT \in Nat \ {0}
        BY EnumerationAssumption
    <2>4. (0 + 0) % COUNT_LIMIT = 0
        BY <2>3
    <2>5. QED BY <1>1, <1>3, <2>1, <2>2, <2>4 DEF at, RecordedAs
<1>4. QED BY <1>1, <1>2, <1>3

\* The total under a number changes by what one worker's count does.
LEMMA TotalAfterStep ==
    ASSUME TypeOK, TypeOK', NEW i \in DOMAIN worker, WorkerStep(i), NEW id
    PROVE  /\ Total(id) \in Int
           /\ Total(id)' = Total(id) + (at(worker'[i].local_map, id) - at(worker[i].local_map, id))
<1> DEFINE S == DOMAIN worker
           f == [k \in S |-> at(worker[k].local_map, id)]
           h == [k \in S |-> at(worker'[k].local_map, id)]
<1>1. /\ DOMAIN worker' = S
      /\ \A k \in S \ {i} : worker'[k] = worker[k]
    BY ClaimEffect
<1>2. IsFiniteSet(S)
    <2>1. S = 1 .. Len(worker) /\ Len(worker) \in Nat
        BY LenProperties DEF TypeOK
    <2>2. QED BY <2>1, FS_Interval
<1>3. \A k \in S : f[k] \in Int
    BY CountOf
<1>4. h[i] \in Int
    <2>1. job' # NoJob /\ i \in DOMAIN worker'
        BY <1>1, WorkersInJobs, ClaimEffect
    <2>2. IsWorker(worker[i])'
        BY <2>1 DEF TypeOK
    <2>3. worker'[i].local_map \in [DOMAIN worker'[i].local_map -> 0 .. COUNT_LIMIT - 1]
        BY <2>2 DEF IsWorker
    <2>4. QED BY <2>3, EnumerationAssumption DEF at
<1>5. \A k \in S \ {i} : h[k] = f[k]
    BY <1>1
<1>6. Total(id) = SumFunctionOnSet(f, S) /\ Total(id)' = SumFunctionOnSet(h, S)
    BY <1>1 DEF Total, SumFunction, at
<1>7. f[i] = at(worker[i].local_map, id) /\ h[i] = at(worker'[i].local_map, id)
    OBVIOUS
<1> HIDE DEF f, h, S
<1>8. SumFunctionOnSet(f, S) \in Int /\ SumFunctionOnSet(h, S) = SumFunctionOnSet(f, S) + (h[i] - f[i])
    BY <1>2, <1>3, <1>4, <1>5, SumChanges DEF S
<1>9. QED BY <1>6, <1>7, <1>8

-----------------------------------------------------------------------------
(* Steps of the workers.                                                   *)

\* No mark is of the root a worker is about to work on: a root that is claimed was
\* not worked on before.
LEMMA RootIsFresh ==
    ASSUME TypeOK, RootsAreClaimedOnce, MarksAreOfFinishedRoots,
           NEW i \in DOMAIN worker, WorkOnRoot(i), job.kind = "motifs"
    PROVE  LET root == m_node_order[worker[i].idx] IN
           MarksDepthOne(Graph, mark_depth_one(Graph, worker[i].bfs_visited, root), root)
<1> DEFINE p == worker[i].idx
           root == m_node_order[p]
           visited == worker[i].bfs_visited
           V == Vertices(Graph)
<1>1. job # NoJob /\ IsColoredGraph(Graph)
    BY WorkersInJobs, JobType
<1>2. p \in V /\ p \notin FinishedPositions
    BY StepOnPositions DEF WorkerStep
<1>3. worker[i].pc = "work"
    BY DEF WorkOnRoot
<1>4. visited \in [V -> Int]
    BY <1>3, FieldsOfWorker
<1>5. root \in V /\ V \subseteq Nat /\ \A q \in V \ {p} : m_node_order[q] # root
    BY <1>1, <1>2, OrderIndex
<1>6. FinishedPositions \subseteq V
    BY <1>1, OrderIndex DEF FinishedPositions
<1>7. ASSUME NEW v \in V PROVE visited[v] \div 4 # root
    <2>1. CASE visited[v] = -1
        <3>1. \A x \in Int, n \in Nat : x \div 4 = n => x >= 0
            OBVIOUS
        <3>2. visited[v] \in Int /\ root \in Nat /\ ~(visited[v] >= 0)
            BY <1>4, <1>5, <2>1
        <3>3. QED BY <3>1, <3>2
    <2>2. CASE \E q \in FinishedPositions : visited[v] \div 4 = m_node_order[q]
        BY <1>2, <1>5, <1>6, <2>2
    <2>3. QED BY <1>1, <1>3, <2>1, <2>2 DEF MarksAreOfFinishedRoots
<1>8. QED BY <1>1, <1>4, <1>5, <1>7, MarksOfFreshRoot

\* A worker's marks stay marks of roots that were worked on.
LEMMA WorkerKeepsMarks ==
    ASSUME TypeOK, RootsAreClaimedOnce, MarksAreOfFinishedRoots,
           NEW i \in DOMAIN worker, WorkerStep(i)
    PROVE  MarksAreOfFinishedRoots'
<1> DEFINE V == Vertices(Graph)
           w == worker[i]
           p == w.idx
           root == m_node_order[p]
<1>1. /\ DOMAIN worker' = DOMAIN worker /\ job' = job /\ m_node_order' = m_node_order
      /\ \A k \in DOMAIN worker \ {i} : worker'[k] = worker[k]
    BY ClaimEffect DEF WorkerStep, StartWorker, FailToStart, ClaimRoot, WorkOnRoot
<1>2. FinishedPositions \subseteq FinishedPositions'
    BY StepOnPositions
<1> SUFFICES ASSUME job # NoJob, job.kind = "motifs", NEW k \in DOMAIN worker,
                    worker'[k].pc \in {"claim", "work"}, NEW v \in V
             PROVE  \/ worker'[k].bfs_visited[v] = -1
                    \/ \E q \in FinishedPositions' :
                          worker'[k].bfs_visited[v] \div 4 = m_node_order[q]
    BY <1>1 DEF MarksAreOfFinishedRoots, Graph
<1>3. ASSUME worker'[k].bfs_visited[v] = worker[k].bfs_visited[v], worker[k].pc \in {"claim", "work"}
      PROVE  \/ worker'[k].bfs_visited[v] = -1
             \/ \E q \in FinishedPositions' :
                   worker'[k].bfs_visited[v] \div 4 = m_node_order[q]
    BY <1>2, <1>3 DEF MarksAreOfFinishedRoots
<1>4. CASE k # i
    BY <1>1, <1>3, <1>4
<1>5. CASE k = i
    <2>1. w \in [pc : {w.pc}, idx : Nat, bfs_visited : {w.bfs_visited},
                 local_map : {w.local_map}, failed : BOOLEAN]
        BY FieldsOfWorker
    <2>2. CASE StartWorker(i)
        <3>1. worker'[i].bfs_visited = [x \in V |-> -1]
            BY <2>1, <2>2 DEF StartWorker
        <3>2. QED BY <1>5, <3>1
    <2>3. CASE FailToStart(i)
        BY <1>5, <2>1, <2>3 DEF FailToStart
    <2>4. CASE ClaimRoot(i)
        <3>1. w.pc = "claim" /\ worker'[i].bfs_visited = w.bfs_visited
            BY <2>1, <2>4 DEF ClaimRoot
        <3>2. QED BY <1>3, <1>5, <3>1
    <2>5. CASE WorkOnRoot(i)
        <3> DEFINE done == mark_deeper(Graph, m_order_index,
                              mark_depth_one(Graph, w.bfs_visited, root), root)
        <3>1. w.pc = "work" /\ worker'[i].bfs_visited = done
            BY <2>1, <2>5 DEF WorkOnRoot
        <3>2. p \in V /\ p \in FinishedPositions'
            BY <2>5, StepOnPositions
        <3>3. root \in Int /\ DOMAIN w.bfs_visited = V
            BY <3>1, <3>2, OrderIndex, FieldsOfWorker
        <3>4. done[v] = w.bfs_visited[v] \/ done[v] \div 4 = root
            BY <3>3, MarksOfRoot
        <3>5. CASE done[v] = w.bfs_visited[v]
            BY <1>3, <1>5, <3>1, <3>5
        <3>6. CASE done[v] \div 4 = root
            BY <1>5, <3>1, <3>2, <3>6
        <3>7. QED BY <3>4, <3>5, <3>6
    <2>6. QED BY <2>2, <2>3, <2>4, <2>5 DEF WorkerStep
<1>6. QED BY <1>4, <1>5

\* The groups of a job are finitely many.
LEMMA FiniteGroups ==
    ASSUME TypeOK, job # NoJob
    PROVE  IsFiniteSet(Groups[job])
<1> DEFINE V == Vertices(Graph)
<1>1. IsFiniteSet(V)
    BY OrderIndex
<1>2. IsFiniteSet(SUBSET V)
    BY <1>1, FS_SUBSET
<1>3. MotifGroups(Graph) \subseteq SUBSET V
    BY DEF MotifGroups, kSubset
<1>4. IsFiniteSet(V \X V \X V \X V \X V)
    <2> DEFINE Q == (((V \X V) \X V) \X V) \X V
               T == V \X V \X V \X V \X V
               f == [q \in Q |-> <<q[1][1][1][1], q[1][1][1][2], q[1][1][2], q[1][2], q[2]>>]
    <2>1. IsFiniteSet(V \X V)
        BY <1>1, FS_Product
    <2>2. IsFiniteSet((V \X V) \X V)
        BY <1>1, <2>1, FS_Product
    <2>3. IsFiniteSet(((V \X V) \X V) \X V)
        BY <1>1, <2>2, FS_Product
    <2>4. IsFiniteSet(Q)
        BY <1>1, <2>3, FS_Product
    <2>5. f \in [Q -> T]
        OBVIOUS
    <2>6. ASSUME NEW t \in T PROVE \E q \in Q : f[q] = t
        <3> DEFINE q == <<<<<<<<t[1], t[2]>>, t[3]>>, t[4]>>, t[5]>>
        <3>1. q \in Q /\ f[q] = <<t[1], t[2], t[3], t[4], t[5]>>
            OBVIOUS
        <3>2. t = <<t[1], t[2], t[3], t[4], t[5]>>
            OBVIOUS
        <3>3. QED BY <3>1, <3>2
    <2> HIDE DEF f, Q, T
    <2>7. f \in Surjection(Q, T)
        BY <2>5, <2>6 DEF Surjection
    <2>8. QED BY <2>4, <2>7, FS_Surjection DEF T
<1>5. SimplePaths(Graph) \subseteq V \X V \X V \X V \X V
    BY DEF SimplePaths
<1>6. QED BY <1>2, <1>3, <1>4, <1>5, TablesOfJob, FS_Subset

-----------------------------------------------------------------------------
(* Counts.                                                                 *)

\* A step that is not work on a root leaves every map as it was.
LEMMA OnlyWorkCounts ==
    ASSUME TypeOK, NEW i \in DOMAIN worker, WorkerStep(i), ~WorkOnRoot(i)
    PROVE  \A k \in DOMAIN worker : worker'[k].local_map = worker[k].local_map
<1> DEFINE w == worker[i]
<1>1. w \in [pc : {w.pc}, idx : Nat, bfs_visited : {w.bfs_visited},
             local_map : {w.local_map}, failed : BOOLEAN]
    BY FieldsOfWorker
<1>2. worker'[i].local_map = w.local_map
    BY <1>1 DEF WorkerStep, StartWorker, FailToStart, ClaimRoot
<1>3. QED BY <1>2, ClaimEffect

\* The numbers recorded for a root are those of the groups counted there.
LEMMA RecordedNumbers ==
    ASSUME TypeOK, job # NoJob, PathJobsAreUndirected, NEW p \in Vertices(Graph), NEW visited,
           job.kind = "motifs" => MarksDepthOne(Graph, visited, m_node_order[p])
    PROVE  {r[1] : r \in Recorded(visited, m_node_order[p])} = NumbersOf(GroupsAt({p}))
<1> DEFINE recorded == Recorded(visited, m_node_order[p])
           T == GroupsAt({p})
           m == GroupNumber[job]
<1>1. ASSUME NEW id PROVE RecordedAs(recorded, id) = {} <=> NumberedAt({p}, id) = {}
    BY RecordedAtPosition, FS_EmptySet
<1>2. ASSUME NEW id PROVE id \in {r[1] : r \in recorded} <=> id \in {m[x] : x \in T}
    <2>1. RecordedAs(recorded, id) = {} <=> ~ \E r \in recorded : r[1] = id
        BY DEF RecordedAs
    <2>2. NumberedAt({p}, id) = {} <=> ~ \E x \in T : m[x] = id
        BY DEF NumberedAt
    <2>3. QED BY <1>1, <2>1, <2>2
<1>3. {r[1] : r \in recorded} = {m[x] : x \in T}
    BY <1>2
<1>4. QED BY <1>3 DEF recorded, T, m, NumbersOf

\* Groups are counted at one position each.
LEMMA GroupsAtMore ==
    ASSUME NEW P, NEW p, p \notin P
    PROVE  /\ GroupsAt(P \cup {p}) = GroupsAt(P) \cup GroupsAt({p})
           /\ GroupsAt(P) \cap GroupsAt({p}) = {}
BY DEF GroupsAt

\* Their number is the sum of those at each position.
LEMMA NumberedAtMore ==
    ASSUME TypeOK, job # NoJob, NEW P, NEW p, p \notin P, NEW id
    PROVE  \E m, n \in Nat : /\ m = Cardinality(NumberedAt(P, id))
                             /\ n = Cardinality(NumberedAt({p}, id))
                             /\ m + n = Cardinality(NumberedAt(P \cup {p}, id))
<1> DEFINE A == NumberedAt(P, id)
           B == NumberedAt({p}, id)
<1>1. NumberedAt(P \cup {p}, id) = A \cup B /\ A \cap B = {}
    BY GroupsAtMore DEF NumberedAt
<1>2. A \subseteq Groups[job] /\ B \subseteq Groups[job]
    BY DEF NumberedAt, GroupsAt
<1>3. IsFiniteSet(A) /\ IsFiniteSet(B)
    BY <1>2, FiniteGroups, FS_Subset
<1> HIDE DEF A, B
<1>4. /\ Cardinality(A \cup B) = Cardinality(A) + Cardinality(B) - Cardinality(A \cap B)
      /\ Cardinality(A \cap B) = 0 /\ Cardinality(A) \in Nat /\ Cardinality(B) \in Nat
    BY <1>1, <1>3, FS_Union, FS_EmptySet, FS_CardinalityType
<1>5. Cardinality(A) + Cardinality(B) = Cardinality(A \cup B)
    BY <1>4
<1>6. QED BY <1>1, <1>4, <1>5 DEF A, B

\* What the maps have under a number grows with the groups of the root worked on.
LEMMA TotalAfterWork ==
    ASSUME TypeOK, TypeOK', RootsAreClaimedOnce, MarksAreOfFinishedRoots, PathJobsAreUndirected,
           NEW i \in DOMAIN worker, WorkOnRoot(i), NEW id
    PROVE  LET p == worker[i].idx
               grown == (Total(id) + Cardinality(NumberedAt({p}, id))) % COUNT_LIMIT IN
           /\ Total(id)' % COUNT_LIMIT = grown
           /\ DOMAIN worker'[i].local_map =
                 DOMAIN worker[i].local_map \cup NumbersOf(GroupsAt({p}))
<1> DEFINE w == worker[i]
           p == w.idx
           root == m_node_order[p]
           one == IF job.kind = "motifs" THEN mark_depth_one(Graph, w.bfs_visited, root) ELSE <<>>
           recorded == Recorded(one, root)
           old == at(w.local_map, id)
           c == Cardinality(RecordedAs(recorded, id))
           n == Cardinality(NumberedAt({p}, id))
<1>1. job # NoJob /\ p \in Vertices(Graph)
    BY WorkersInJobs, StepOnPositions DEF WorkerStep
<1>2. job.kind = "motifs" => MarksDepthOne(Graph, one, root)
    BY RootIsFresh
<1>3. worker'[i].local_map = add_to_counts(w.local_map, recorded)
    <2>1. w \in [pc : {w.pc}, idx : Nat, bfs_visited : {w.bfs_visited},
                 local_map : {w.local_map}, failed : BOOLEAN]
        BY FieldsOfWorker
    <2>2. QED BY <2>1 DEF WorkOnRoot
<1> HIDE DEF one
<1>4. c = n /\ {r[1] : r \in recorded} = NumbersOf(GroupsAt({p}))
    BY <1>1, <1>2, RecordedAtPosition, RecordedNumbers
<1>5. IsFiniteSet(recorded) /\ old \in 0 .. COUNT_LIMIT - 1
    BY <1>1, RecordedIsFinite, CountOf
<1>6. /\ at(worker'[i].local_map, id) = (old + c) % COUNT_LIMIT
      /\ DOMAIN worker'[i].local_map = DOMAIN w.local_map \cup {r[1] : r \in recorded}
    <2> DEFINE map == w.local_map
    <2>1. IsFiniteSet(recorded) /\ at(map, id) \in 0 .. COUNT_LIMIT - 1
        BY <1>5
    <2> HIDE DEF map, recorded
    <2>2. /\ at(add_to_counts(map, recorded), id) =
                (at(map, id) + Cardinality(RecordedAs(recorded, id))) % COUNT_LIMIT
          /\ DOMAIN add_to_counts(map, recorded) = DOMAIN map \cup {r[1] : r \in recorded}
        BY <2>1, CountAfterRecording
    <2>3. QED BY <1>3, <2>2 DEF map, recorded
<1>7. Total(id) \in Int /\ Total(id)' = Total(id) + (at(worker'[i].local_map, id) - old)
    BY TotalAfterStep DEF WorkerStep
<1>8. n \in Nat /\ old \in Int /\ COUNT_LIMIT \in Nat \ {0}
    <2>1. IsFiniteSet(NumberedAt({p}, id))
        BY <1>1, FiniteGroups, FS_Subset DEF NumberedAt, GroupsAt
    <2>2. QED BY <1>5, <2>1, FS_CardinalityType, EnumerationAssumption
<1> DEFINE s == Total(id)
           t == Total(id)'
<1>9. t = s + (((old + n) % COUNT_LIMIT) - old) /\ s \in Int
    BY <1>4, <1>6, <1>7
<1> HIDE DEF s, t, old, n, c, recorded
<1>10. t % COUNT_LIMIT = (s + n) % COUNT_LIMIT
    <2>1. (s + (((old + n) % COUNT_LIMIT) - old)) % COUNT_LIMIT = (s + n) % COUNT_LIMIT
        <3>1. n \in Int
            BY <1>8
        <3>2. QED BY <1>8, <1>9, <3>1, ModOfChange, Zenon
    <2>2. QED BY <1>9, <2>1
<1>11. QED BY <1>4, <1>6, <1>10 DEF s, t, n

\* The counts stay those of the roots that were worked on.
LEMMA WorkerKeepsCounts ==
    ASSUME TypeOK, TypeOK', RootsAreClaimedOnce, MarksAreOfFinishedRoots, CountsPerNumber,
           PathJobsAreUndirected, NEW i \in DOMAIN worker, WorkerStep(i)
    PROVE  CountsPerNumber'
<1> DEFINE F == FinishedPositions
           D == DOMAIN worker
           p == worker[i].idx
<1>1. /\ DOMAIN worker' = D /\ job' = job /\ m_node_order' = m_node_order
      /\ job # NoJob
      /\ \A k \in D \ {i} : worker'[k] = worker[k]
    BY ClaimEffect, WorkersInJobs DEF WorkerStep, StartWorker, FailToStart, ClaimRoot, WorkOnRoot
<1>3. CASE ~WorkOnRoot(i)
    <2>1. F' = F /\ \A k \in D : worker'[k].local_map = worker[k].local_map
        BY <1>3, StepOnPositions, OnlyWorkCounts
    <2>2. GroupsAt(F)' = GroupsAt(F)
        BY <1>1, <2>1 DEF GroupsAt, GroupPosition, m_order_index, Graph
    <2>3. \A id : Total(id)' = Total(id)
        BY <1>1, <2>1 DEF Total, at
    <2>4. \A id : NumberedAt(F, id)' = NumberedAt(F, id)
        BY <1>1, <2>2 DEF NumberedAt
    <2>5. NumbersCounted' = NumbersCounted
        BY <1>1, <2>1 DEF NumbersCounted
    <2>6. NumbersOf(GroupsAt(F))' = NumbersOf(GroupsAt(F))
        BY <1>1, <2>2 DEF NumbersOf
    <2>7. NumbersOf(Groups[job])' = NumbersOf(Groups[job])
        BY <1>1 DEF NumbersOf
    <2>8. QED BY <1>1, <2>3, <2>4, <2>5, <2>6, <2>7 DEF CountsPerNumber
<1>4. CASE WorkOnRoot(i)
    <2>1. p \in Vertices(Graph) /\ p \notin F /\ F' = F \cup {p}
        BY <1>4, StepOnPositions
    <2>2. /\ GroupsAt(F)' = GroupsAt(F \cup {p})
          /\ GroupsAt(F)' = GroupsAt(F) \cup GroupsAt({p})
        BY <1>1, <2>1, GroupsAtMore DEF GroupsAt, GroupPosition, m_order_index, Graph
    <2>3. NumbersCounted' = NumbersCounted \cup NumbersOf(GroupsAt({p}))
        <3> DEFINE new == NumbersOf(GroupsAt({p}))
        <3>1. DOMAIN worker'[i].local_map = DOMAIN worker[i].local_map \cup new
            BY <1>4, TotalAfterWork
        <3> HIDE DEF new
        <3>2. \A id : (\E k \in D : id \in DOMAIN worker'[k].local_map) <=>
                      (\E k \in D : id \in DOMAIN worker[k].local_map) \/ id \in new
            BY <1>1, <3>1
        <3>3. \A id : id \in NumbersCounted' <=> id \in NumbersCounted \/ id \in new
            BY <1>1, <3>2 DEF NumbersCounted
        <3>4. NumbersCounted' = NumbersCounted \cup new
            BY <3>3 DEF NumbersCounted
        <3>5. QED BY <3>4 DEF new
    <2>4. NumbersOf(GroupsAt(F))' = NumbersOf(GroupsAt(F)) \cup NumbersOf(GroupsAt({p}))
        BY <1>1, <2>2 DEF NumbersOf
    <2>5. NumbersCounted' = NumbersOf(GroupsAt(F))'
        BY <1>1, <2>3, <2>4 DEF CountsPerNumber
    <2>8. NumbersOf(Groups[job])' = NumbersOf(Groups[job])
        BY <1>1 DEF NumbersOf
    <2>6. ASSUME NEW id \in NumbersOf(Groups[job])
          PROVE  Total(id)' % COUNT_LIMIT = Cardinality(NumberedAt(F, id)') % COUNT_LIMIT
        <3> DEFINE s == Total(id)
                   t == Cardinality(NumberedAt(F, id))
                   n == Cardinality(NumberedAt({p}, id))
        <3>1. Total(id)' % COUNT_LIMIT = (s + n) % COUNT_LIMIT
            BY <1>4, TotalAfterWork
        <3>2. NumberedAt(F, id)' = NumberedAt(F \cup {p}, id)
            BY <1>1, <2>2 DEF NumberedAt
        <3>3. /\ Cardinality(NumberedAt(F \cup {p}, id)) = t + n
              /\ t \in Nat /\ n \in Nat
            <4>1. \E y, x \in Nat : /\ y = Cardinality(NumberedAt(F, id))
                                   /\ x = Cardinality(NumberedAt({p}, id))
                                   /\ y + x = Cardinality(NumberedAt(F \cup {p}, id))
                <5>1. ASSUME NEW P, NEW q, q \notin P
                      PROVE  \E y, x \in Nat : /\ y = Cardinality(NumberedAt(P, id))
                                               /\ x = Cardinality(NumberedAt({q}, id))
                                               /\ y + x = Cardinality(NumberedAt(P \cup {q}, id))
                    <6>1. job # NoJob
                        BY <1>1
                    <6> HIDE DEF F, p
                    <6>2. QED BY <5>1, <6>1, NumberedAtMore
                <5> HIDE DEF F, p
                <5>2. QED BY <2>1, <5>1
            <4>2. QED BY <4>1
        <3>4. s % COUNT_LIMIT = t % COUNT_LIMIT
            BY <1>1 DEF CountsPerNumber
        <3>5. s \in Int /\ COUNT_LIMIT \in Nat \ {0}
            BY TotalAfterStep, EnumerationAssumption
        <3> HIDE DEF s, t, n
        <3>6. (s + n) % COUNT_LIMIT = (t + n) % COUNT_LIMIT
            <4>1. t \in Int /\ n \in Int
                BY <3>3
            <4>2. QED BY <3>4, <3>5, <4>1, ModOfSum, Zenon
        <3>7. QED BY <3>1, <3>2, <3>3, <3>6
    <2>9. QED BY <1>1, <2>5, <2>6, <2>8 DEF CountsPerNumber
<1>5. QED BY <1>3, <1>4

\* A worker that is created has counted nothing and marked nothing.
LEMMA SpawnWorkerKeeps ==
    ASSUME TypeOK, CountInv, SpawnWorker
    PROVE  CountInv'
<1> DEFINE D == DOMAIN worker
           n == Len(worker')
<1>1. /\ worker' = Append(worker, NewWorker) /\ job' = job /\ m_node_order' = m_node_order
      /\ next_idx' = next_idx /\ main = "spawn" /\ main' = "spawn"
    BY DEF SpawnWorker
<1>2. /\ DOMAIN worker' = D \cup {n} /\ n \notin D
      /\ \A k \in D : worker'[k] = worker[k]
      /\ worker'[n].pc = "start" /\ worker'[n].local_map = <<>>
    <2> DEFINE t == Append(worker, NewWorker)
    <2>1. /\ DOMAIN t = D \cup {Len(t)} /\ Len(t) \notin D
          /\ \A k \in DOMAIN t : t[k] = IF k = Len(t) THEN NewWorker ELSE worker[k]
        BY SeqAppend DEF TypeOK
    <2> HIDE DEF t
    <2>2. worker' = t
        BY <1>1 DEF t
    <2>3. NewWorker.pc = "start" /\ NewWorker.local_map = <<>>
        BY DEF NewWorker
    <2>4. QED BY <2>1, <2>2, <2>3
<1> HIDE DEF n
<1>3. IsFiniteSet(D)
    <2>1. D = 1 .. Len(worker) /\ Len(worker) \in Nat
        BY LenProperties DEF TypeOK
    <2>2. QED BY <2>1, FS_Interval
<1>4. FinishedPositions' = FinishedPositions
    <2>1. \A p : p \in OpenPositions <=> \E k \in D : worker[k].pc = "work" /\ worker[k].idx = p
        BY DEF OpenPositions
    <2>2. \A p : p \in OpenPositions' <=> \E k \in D : worker[k].pc = "work" /\ worker[k].idx = p
        BY <1>2 DEF OpenPositions
    <2>3. OpenPositions' = OpenPositions
        BY <2>1, <2>2 DEF OpenPositions
    <2>4. QED BY <1>1, <2>3 DEF FinishedPositions
<1>5. MarksAreOfFinishedRoots'
    BY <1>1, <1>2, <1>4 DEF CountInv, MarksAreOfFinishedRoots, Graph
<1>6. NumbersCounted' = NumbersCounted
    <2>1. DOMAIN worker'[n].local_map = {}
        BY <1>2
    <2>2. \A id : id \in NumbersCounted' <=> id \in NumbersCounted
        BY <1>2, <2>1 DEF NumbersCounted
    <2>3. QED BY <2>2 DEF NumbersCounted
<1>7. ASSUME NEW id PROVE Total(id)' = Total(id)
    <2> DEFINE f == [k \in D |-> at(worker[k].local_map, id)]
               h == [k \in D \cup {n} |-> at(worker'[k].local_map, id)]
    <2>1. \A k \in D : f[k] \in Int
        BY CountOf, EnumerationAssumption
    <2>2. h[n] = 0 /\ \A k \in D : h[k] = f[k]
        BY <1>2 DEF at
    <2>3. Total(id) = SumFunctionOnSet(f, D) /\ Total(id)' = SumFunctionOnSet(h, D \cup {n})
        BY <1>2 DEF Total, SumFunction, at
    <2> HIDE DEF f, h, D
    <2>4. SumFunctionOnSet(h, D \cup {n}) = SumFunctionOnSet(f, D)
        BY <1>2, <1>3, <2>1, <2>2, SumGrows
    <2>5. QED BY <2>3, <2>4
<1>8. GroupsAt(FinishedPositions)' = GroupsAt(FinishedPositions)
    BY <1>1, <1>4 DEF GroupsAt, GroupPosition, m_order_index, Graph
<1>9. /\ NumbersOf(GroupsAt(FinishedPositions))' = NumbersOf(GroupsAt(FinishedPositions))
      /\ NumbersOf(Groups[job])' = NumbersOf(Groups[job])
      /\ \A id : NumberedAt(FinishedPositions, id)' = NumberedAt(FinishedPositions, id)
    BY <1>1, <1>8 DEF NumbersOf, NumberedAt
<1>10. CountsPerNumber'
    BY <1>1, <1>6, <1>7, <1>9 DEF CountInv, CountsPerNumber
<1>11. QED BY <1>1, <1>5, <1>10 DEF CountInv, AllAreJoined

\* A calculation begins with nothing counted and nothing to count.
LEMMA CalculateKeeps ==
    ASSUME TypeOK, TypeOK', NEW j \in Jobs, Calculate(j)
    PROVE  CountInv'
<1>1. /\ worker' = <<>> /\ next_idx' = 0 /\ main' = "spawn" /\ job' = j /\ j # NoJob
    BY EnumerationAssumption DEF Calculate
<1>2. DOMAIN m_node_order' \subseteq Nat
    <2>1. m_node_order' \in Bijection(Vertices(j.graph), Vertices(j.graph)) /\ IsColoredGraph(j.graph)
        BY <1>1, EnumerationAssumption DEF TypeOK, Graph
    <2>2. QED BY <2>1 DEF Bijection, Injection, IsColoredGraph
<1>3. FinishedPositions' = {}
    BY <1>1, <1>2 DEF FinishedPositions
<1>4. GroupsAt(FinishedPositions)' = {}
    BY <1>3 DEF GroupsAt
<1>5. NumbersOf(GroupsAt(FinishedPositions))' = {} /\ NumbersCounted' = {}
    BY <1>1, <1>4 DEF NumbersOf, NumbersCounted
<1>6. ASSUME NEW id
      PROVE  Total(id)' = 0 /\ Cardinality(NumberedAt(FinishedPositions, id)') = 0
    <2>1. NumberedAt(FinishedPositions, id)' = {}
        BY <1>4 DEF NumberedAt
    <2> DEFINE f == [k \in DOMAIN worker' |-> at(worker'[k].local_map, id)]
    <2>2. DOMAIN f = {} /\ Total(id)' = SumFunctionOnSet(f, DOMAIN f)
        BY <1>1 DEF Total, SumFunction, at
    <2> HIDE DEF f
    <2>3. QED BY <2>1, <2>2, FS_EmptySet, SumOfNone
<1>7. CountsPerNumber'
    BY <1>5, <1>6 DEF CountsPerNumber
<1>8. QED BY <1>1, <1>7 DEF CountInv, MarksAreOfFinishedRoots, AllAreJoined

\* Nothing counts but the job, the order, the counter and the workers.
LEMMA CountFrame ==
    ASSUME CountInv, UNCHANGED <<job, m_node_order, next_idx, worker>>
    PROVE  /\ MarksAreOfFinishedRoots' /\ CountsPerNumber'
           /\ thread_count' = thread_count
<1>1. thread_count' = thread_count /\ FinishedPositions' = FinishedPositions
    BY DEF thread_count, order_size, Graph, FinishedPositions, OpenPositions
<1>2. GroupsAt(FinishedPositions)' = GroupsAt(FinishedPositions)
    BY <1>1 DEF GroupsAt, GroupPosition, m_order_index, Graph
<1>3. /\ NumbersOf(GroupsAt(FinishedPositions))' = NumbersOf(GroupsAt(FinishedPositions))
      /\ NumbersOf(Groups[job])' = NumbersOf(Groups[job])
      /\ NumbersCounted' = NumbersCounted
      /\ \A id : NumberedAt(FinishedPositions, id)' = NumberedAt(FinishedPositions, id)
      /\ \A id : Total(id)' = Total(id)
    BY <1>2 DEF NumbersOf, NumberedAt, NumbersCounted, Total, at
<1>4. CountsPerNumber'
    BY <1>3 DEF CountInv, CountsPerNumber
<1>5. MarksAreOfFinishedRoots'
    BY <1>1 DEF CountInv, MarksAreOfFinishedRoots, Graph
<1>6. QED BY <1>1, <1>4, <1>5

\* No step of the calling thread but these touches what is counted.
LEMMA MainStepKeeps ==
    ASSUME TypeOK, CountInv, MainStep
    PROVE  CountInv'
<1>1. CASE BeginJoin
    <2>1. UNCHANGED <<job, m_node_order, next_idx, worker>> /\ Len(worker) = thread_count
        BY <1>1 DEF BeginJoin
    <2>2. QED BY <2>1, CountFrame DEF CountInv, AllAreJoined
<1>2. ASSUME NEW returned, Leave(returned) PROVE CountInv'
    BY <1>2 DEF Leave, CountInv, CountsPerNumber, MarksAreOfFinishedRoots, AllAreJoined
<1>3. QED BY <1>1, <1>2, SpawnWorkerKeeps DEF MainStep, Rethrow, Merge

\* The invariant of the workers holds in every reachable state.
LEMMA CountsKept ==
    ASSUME PathJobsAreUndirected
    PROVE  Spec => []CountInv
<1>1. Init => CountInv
    BY DEF Init, CountInv, CountsPerNumber, MarksAreOfFinishedRoots, AllAreJoined
<1>2. TypeOK /\ TypeOK' /\ RootsAreClaimedOnce /\ CountInv /\ [Next]_vars => CountInv'
    <2> SUFFICES ASSUME TypeOK, TypeOK', RootsAreClaimedOnce, CountInv, [Next]_vars
                 PROVE  CountInv'
        OBVIOUS
    <2>1. CASE UNCHANGED vars
        <3>1. UNCHANGED <<job, m_node_order, next_idx, main, worker>>
            BY <2>1 DEF vars
        <3>2. QED BY <3>1, CountFrame DEF CountInv, AllAreJoined
    <2>2. ASSUME NEW i \in DOMAIN worker, WorkerStep(i) PROVE CountInv'
        <3>1. main' = main /\ Len(worker') = Len(worker) /\ thread_count' = thread_count
            <4>1. main' = main /\ job' = job
                BY <2>2 DEF WorkerStep, StartWorker, FailToStart, ClaimRoot, WorkOnRoot
            <4>2. Len(worker') = Len(worker)
                <5>1. DOMAIN worker' = DOMAIN worker
                    BY <2>2, ClaimEffect
                <5>2. /\ DOMAIN worker = 1 .. Len(worker) /\ Len(worker) \in Nat
                      /\ DOMAIN worker' = 1 .. Len(worker') /\ Len(worker') \in Nat
                    BY LenProperties DEF TypeOK
                <5>3. QED BY <5>1, <5>2
            <4>3. QED BY <4>1, <4>2 DEF thread_count, order_size, Graph
        <3>2. QED BY <2>2, <3>1, WorkerKeepsMarks, WorkerKeepsCounts DEF CountInv, AllAreJoined
    <2>3. QED BY <2>1, <2>2, CalculateKeeps, MainStepKeeps DEF Next
<1>3. QED BY <1>1, <1>2, TypeCorrect, RootsClaimedOnce, PTL DEF Spec

-----------------------------------------------------------------------------
(* What calculate returns.                                                 *)

\* Number by number is map by map.
LEMMA MergedAreCounts ==
    ASSUME job # NoJob, CountsPerNumber
    PROVE  MergedCounts = CountsOf(job, GroupsAt(FinishedPositions))
<1> DEFINE S == GroupsAt(FinishedPositions)
<1>1. MergedCounts = [id \in NumbersCounted |-> Total(id) % COUNT_LIMIT]
    BY DEF MergedCounts, NumbersCounted, Total
<1>2. CountsOf(job, S) = [id \in NumbersOf(S) |->
                             Cardinality(NumberedAt(FinishedPositions, id)) % COUNT_LIMIT]
    BY DEF CountsOf, NumbersOf, NumberedAt
<1>3. NumbersOf(S) \subseteq NumbersOf(Groups[job])
    BY DEF NumbersOf, GroupsAt
<1>4. \A id \in NumbersOf(S) :
        Total(id) % COUNT_LIMIT = Cardinality(NumberedAt(FinishedPositions, id)) % COUNT_LIMIT
    BY <1>3 DEF CountsPerNumber
<1>5. NumbersCounted = NumbersOf(S)
    BY DEF CountsPerNumber
<1> DEFINE f(id) == Total(id) % COUNT_LIMIT
           h(id) == Cardinality(NumberedAt(FinishedPositions, id)) % COUNT_LIMIT
<1> HIDE DEF S, f, h
<1>6. \A id \in NumbersOf(S) : f(id) = h(id)
    BY <1>4 DEF f, h
<1>7. [id \in NumbersOf(S) |-> f(id)] = [id \in NumbersOf(S) |-> h(id)]
    BY <1>6
<1>8. QED BY <1>1, <1>2, <1>5, <1>7 DEF S, f, h

\* The maps of the workers hold every group of the roots that were worked on, once
\* and no other, for all graphs, numbers of threads and interleavings, as long as
\* paths are enumerated in undirected graphs only.
THEOREM CountsAreRight ==
    ASSUME PathJobsAreUndirected
    PROVE  Spec => []CountsAreOfFinishedRoots
<1>1. CountInv => CountsAreOfFinishedRoots
    <2> SUFFICES ASSUME CountInv, job # NoJob
                 PROVE  MergedCounts =
                           CountsOf(job, {x \in Groups[job] :
                              GroupPosition(m_order_index, x) \in
                                 {p \in DOMAIN m_node_order : p < next_idx}
                                    \ {worker[i].idx : i \in {k \in DOMAIN worker : worker[k].pc = "work"}}})
        BY DEF CountsAreOfFinishedRoots
    <2>1. MergedCounts = CountsOf(job, GroupsAt(FinishedPositions))
        BY MergedAreCounts DEF CountInv
    <2>2. QED BY <2>1 DEF GroupsAt, FinishedPositions, OpenPositions
<1>2. QED BY <1>1, CountsKept, PTL

\* When every root was worked on, every group was counted.
LEMMA AllAreCounted ==
    ASSUME TypeOK, job # NoJob, FinishedPositions = Vertices(Graph)
    PROVE  GroupsAt(FinishedPositions) = Groups[job]
<1> DEFINE V == Vertices(Graph)
<1>1. \A v \in V : m_order_index[v] \in V
    BY OrderIndex
<1>2. ASSUME NEW x \in Groups[job] PROVE GroupPosition(m_order_index, x) \in V
    <2>1. CASE job.kind = "motifs"
        <3> DEFINE I == {m_order_index[v] : v \in x}
        <3>1. x \in SUBSET V /\ Cardinality(x) = 4
            BY <1>2, <2>1, TablesOfJob DEF MotifGroups, kSubset
        <3>2. IsFiniteSet(x) /\ x # {}
            <4>1. IsFiniteSet(V)
                BY OrderIndex
            <4>2. QED BY <3>1, <4>1, FS_Subset, FS_EmptySet
        <3>3. I \subseteq V /\ V \subseteq Int /\ I # {}
            BY <1>1, <3>1, <3>2, OrderIndex
        <3>4. IsFiniteSet(I)
            <4>1. IsFiniteSet(V)
                BY OrderIndex
            <4> HIDE DEF I
            <4>2. QED BY <3>3, <4>1, FS_Subset
        <3> HIDE DEF I
        <3>5. Min(I) \in I
            BY <3>3, <3>4, SmallestOfSet
        <3>6. QED BY <2>1, <3>3, <3>5 DEF GroupPosition, I
    <2>2. CASE job.kind = "paths"
        <3>1. x \in V \X V \X V \X V \X V
            BY <1>2, <2>2, TablesOfJob DEF SimplePaths
        <3>2. QED BY <1>1, <2>2, <3>1 DEF GroupPosition
    <2>3. QED BY <2>1, <2>2, JobType
<1>3. QED BY <1>2 DEF GroupsAt

\* What is returned, if every worker succeeded, are the counts of all groups: the
\* entries that are added are new, so no sum is too large.
LEMMA MergeFinishes ==
    ASSUME TypeOK, RootsAreClaimedOnce, CountInv, Merge
    PROVE  Promise!Finish
<1>1. job # NoJob /\ job \in Jobs
    BY DEF Merge, TypeOK
<1>2. FinishedPositions = Vertices(Graph)
    BY DoneMeansFinished DEF Merge, CountInv
<1>3. MergedCounts = CountsOf(job, Groups[job])
    BY <1>1, <1>2, AllAreCounted, MergedAreCounts DEF CountInv
<1>4. ~Overflows(MergedCounts)
    <2>1. COUNT_LIMIT \in Nat \ {0}
        BY EnumerationAssumption
    <2>2. \A id \in NumbersCounted : Total(id) \in Int
        <3> SUFFICES ASSUME NEW id PROVE Total(id) \in Int
            OBVIOUS
        <3> DEFINE S == DOMAIN worker
                   f == [k \in S |-> at(worker[k].local_map, id)]
        <3>1. IsFiniteSet(S)
            <4>1. S = 1 .. Len(worker) /\ Len(worker) \in Nat
                BY LenProperties DEF TypeOK
            <4>2. QED BY <4>1, FS_Interval
        <3>2. \A k \in S : f[k] \in Int
            BY CountOf, EnumerationAssumption
        <3>3. Total(id) = SumFunctionOnSet(f, S)
            BY DEF Total, SumFunction
        <3> HIDE DEF f, S
        <3>4. QED BY <3>1, <3>2, <3>3, SumType
    <2>3. MergedCounts = [id \in NumbersCounted |-> Total(id) % COUNT_LIMIT]
        BY DEF MergedCounts, NumbersCounted, Total
    <2>4. \A id \in DOMAIN MergedCounts : MergedCounts[id] \in 0 .. COUNT_LIMIT - 1
        BY <2>1, <2>2, <2>3
    <2>5. QED BY <2>1, <2>4 DEF Overflows, existing
<1>5. ReferenceCounts[job] = CountsOf(job, Groups[job])
    BY <1>1 DEF ReferenceCounts
<1>6. QED BY <1>1, <1>3, <1>4, <1>5 DEF Merge, Leave, Promise!Finish

\* calculate keeps its promise, for all graphs, numbers of threads and
\* interleavings: it returns the counts of its job, the same on every run, or it
\* fails and returns none; again for paths in undirected graphs only.
THEOREM KeepsPromise ==
    ASSUME PathJobsAreUndirected
    PROVE  Spec => ImplementsGroupCount
<1>1. Init => Promise!Init
    BY DEF Init, Promise!Init
<1>2. TypeOK /\ RootsAreClaimedOnce /\ CountInv /\ [Next]_vars => [Promise!Next]_(Promise!gcVars)
    <2> SUFFICES ASSUME TypeOK, RootsAreClaimedOnce, CountInv, [Next]_vars
                 PROVE  Promise!Next \/ UNCHANGED <<job, counts>>
        BY DEF Promise!gcVars
    <2>1. CASE UNCHANGED vars
        BY <2>1 DEF vars
    <2>2. ASSUME NEW j \in Jobs, Calculate(j) PROVE Promise!Next
        <3>1. job = NoJob
            BY <2>2 DEF Calculate, TypeOK
        <3>2. Promise!Start(j)
            BY <2>2, <3>1 DEF Calculate, Promise!Start
        <3>3. QED BY <3>2 DEF Promise!Next
    <2>3. CASE MainStep
        <3>1. CASE SpawnWorker \/ BeginJoin
            BY <3>1 DEF SpawnWorker, BeginJoin
        <3>2. CASE Rethrow
            <4>1. Promise!Fail
                BY <3>2 DEF Rethrow, Leave, TypeOK, Promise!Fail
            <4>2. QED BY <4>1 DEF Promise!Next
        <3>3. CASE Merge
            BY <3>3, MergeFinishes DEF Promise!Next
        <3>4. QED BY <2>3, <3>1, <3>2, <3>3 DEF MainStep
    <2>4. ASSUME NEW i \in DOMAIN worker, WorkerStep(i) PROVE UNCHANGED <<job, counts>>
        BY <2>4 DEF WorkerStep, StartWorker, FailToStart, ClaimRoot, WorkOnRoot
    <2>5. QED BY <2>1, <2>2, <2>3, <2>4 DEF Next
<1>3. QED BY <1>1, <1>2, TypeCorrect, RootsClaimedOnce, CountsKept, PTL
      DEF Spec, ImplementsGroupCount, Promise!Spec
=============================================================================
