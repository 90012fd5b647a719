--------------------------- MODULE GroupEnumeration ---------------------------
(***************************************************************************)
(* GroupEnumerationPreprocessor::calculate with its two enumerations, of   *)
(* motifs (MotifPreprocessor) and of paths (PathProcessor).  The calling   *)
(* thread orders the vertices by degree and starts workers; each worker    *)
(* claims the next position of that order from an atomic counter, counts   *)
(* the groups of the vertex there in a map of its own, and goes on until   *)
(* no position is left.  The calling thread joins the workers, rethrows    *)
(* the exception of the first that failed, or else adds their maps up.     *)
(*                                                                         *)
(* Workers share next_idx and nothing else, so a step of a worker is one   *)
(* fetch_add, or the whole of its work on one root.                        *)
(***************************************************************************)
EXTENDS KavoshGroups, PathGroups

CONSTANTS Jobs,         \* records [graph, kind, threads]
          COUNT_LIMIT,  \* counts are kept modulo this: 2^32
          NoJob,        \* nothing is being calculated
          NoCounts      \* no counts were returned

ASSUME EnumerationAssumption ==
    /\ COUNT_LIMIT \in Nat \ {0}
    /\ NoJob \notin Jobs
    /\ \A j \in Jobs : /\ IsColoredGraph(j.graph)
                       /\ j.kind \in {"motifs", "paths"}
                       /\ j.threads \in Nat \ {0}

VARIABLES
    job,           \* the calculation in progress, or NoJob
    m_node_order,  \* the vertices by decreasing degree, from position 0
    next_idx,      \* the atomic counter
    main,          \* where the calling thread is
    worker,        \* the workers started so far
    counts         \* what the last calculation returned

vars == <<job, m_node_order, next_idx, main, worker, counts>>

Graph == job.graph

-----------------------------------------------------------------------------

order_size == vertex_count(Graph)

thread_count == IF job.threads <= order_size THEN job.threads ELSE order_size

combined_degree(g, v) ==
    out_degree(g, v) + IF g.directed THEN in_degree(g, v) ELSE 0

\* std::sort leaves vertices of one degree in any order.
SortedOrders ==
    [g \in {j.graph : j \in Jobs} |->
        {o \in Bijection(Vertices(g), Vertices(g)) :
            \A i, k \in Vertices(g) :
                i < k => combined_degree(g, o[i]) >= combined_degree(g, o[k])}]

m_order_index == [v \in Vertices(Graph) |->
                    CHOOSE i \in DOMAIN m_node_order : m_node_order[i] = v]

\* The identifiers of all groups of a graph.
MotifNumbers ==
    Table([g \in {j.graph : j \in Jobs} |->
              Table([S \in kSubset(4, Vertices(g)) |-> MotifNumber(g, S)])])

\* The identifiers recorded for one root, one entry per call of m_add_motif_fn
\* or m_add_path_fn.
Recorded(visited, root) ==
    IF job.kind = "motifs"
    THEN {<<MotifNumbers[Graph][{root, e[2][1], e[2][2], e[2][3]}], e>> :
             e \in stream_groups(Graph, m_order_index, visited, root)}
    ELSE {<<PathNumber(Graph, root, e[2]), e>> : e \in stream_paths(Graph, root)}

at(map, id) == IF id \in DOMAIN map THEN map[id] ELSE 0

\* map[id] += 1 for every identifier recorded.
add_to_counts(map, recorded) ==
    [id \in DOMAIN map \cup {r[1] : r \in recorded} |->
        (at(map, id) + Cardinality({r \in recorded : r[1] = id})) % COUNT_LIMIT]

\* What merged[id] += count, over every worker's map, comes to.
MergedCounts ==
    [id \in UNION {DOMAIN worker[i].local_map : i \in DOMAIN worker} |->
        SumFunction([i \in DOMAIN worker |-> at(worker[i].local_map, id)]) % COUNT_LIMIT]

\* calculate copies the merged map entry by entry, each into a new entry, and
\* throws when the sum would not fit.
existing == 0

Overflows(merged) == \E id \in DOMAIN merged : existing > COUNT_LIMIT - 1 - merged[id]

-----------------------------------------------------------------------------
(* Workers.                                                                *)
(*   pc       "start": created; "claim": about to fetch_add; "work": has a *)
(*            root; "done"                                                 *)
(*   idx      the position it claimed last                                 *)
(*   failed   its exception_ptr is set                                     *)

NewWorker == [pc |-> "start", idx |-> 0, bfs_visited |-> <<>>, local_map |-> <<>>, failed |-> FALSE]

\* A motif worker allocates its bfs_visited, a path worker needs none.
StartWorker(i) ==
    /\ worker[i].pc = "start"
    /\ worker' = [worker EXCEPT ![i].pc = "claim",
                    ![i].bfs_visited = IF job.kind = "motifs"
                                       THEN [v \in Vertices(Graph) |-> -1] ELSE <<>>]
    /\ UNCHANGED <<job, m_node_order, next_idx, main, counts>>

\* The allocation throws; the worker keeps the exception and ends.
FailToStart(i) ==
    /\ worker[i].pc = "start"
    /\ job.kind = "motifs"
    /\ worker' = [worker EXCEPT ![i].pc = "done", ![i].failed = TRUE]
    /\ UNCHANGED <<job, m_node_order, next_idx, main, counts>>

\* Mutant: off by one.
HasRoot_past(idx) == idx <= order_size

HasRoot(idx) == idx < order_size

\* Mutant: the counter is set from the worker's own last position.
ClaimRoot_local(i) ==
    /\ worker[i].pc = "claim"
    /\ next_idx' = worker[i].idx + 1
    /\ worker' = [worker EXCEPT ![i].idx = next_idx,
                    ![i].pc = IF HasRoot(next_idx) THEN "work" ELSE "done"]
    /\ UNCHANGED <<job, m_node_order, main, counts>>

\* next_idx.fetch_add, and the loop's test.
ClaimRoot(i) ==
    /\ worker[i].pc = "claim"
    /\ next_idx' = next_idx + 1
    /\ worker' = [worker EXCEPT ![i].idx = next_idx,
                    ![i].pc = IF HasRoot(next_idx) THEN "work" ELSE "done"]
    /\ UNCHANGED <<job, m_node_order, main, counts>>

\* stream_groups_to_counter_for_vertex, all of it.
WorkOnRoot(i) ==
    LET w    == worker[i]
        root == m_node_order[w.idx]
        one  == IF job.kind = "motifs" THEN mark_depth_one(Graph, w.bfs_visited, root) ELSE <<>> IN
    /\ w.pc = "work"
    /\ worker' = [worker EXCEPT
                    ![i].pc = "claim",
                    ![i].bfs_visited = IF job.kind = "motifs"
                                       THEN mark_deeper(Graph, m_order_index, one, root) ELSE <<>>,
                    ![i].local_map = add_to_counts(@, Recorded(one, root))]
    /\ UNCHANGED <<job, m_node_order, next_idx, main, counts>>

WorkerStep(i) == StartWorker(i) \/ FailToStart(i) \/ ClaimRoot(i) \/ WorkOnRoot(i)

-----------------------------------------------------------------------------
(* The calling thread.                                                     *)

\* calculate up to the loop that starts the workers.
Calculate(j) ==
    /\ main = "idle"
    /\ job' = j
    /\ m_node_order' \in SortedOrders[j.graph]
    /\ next_idx' = 0
    /\ worker' = <<>>
    /\ main' = "spawn"
    /\ counts' = NoCounts

SpawnWorker ==
    /\ main = "spawn"
    /\ Len(worker) < thread_count
    /\ worker' = Append(worker, NewWorker)
    /\ UNCHANGED <<job, m_node_order, next_idx, main, counts>>

BeginJoin ==
    /\ main = "spawn"
    /\ Len(worker) = thread_count
    /\ main' = "join"
    /\ UNCHANGED <<job, m_node_order, next_idx, worker, counts>>

\* Mutant: waits for every worker to finish all its roots.
AllJoined_unfailed == \A i \in DOMAIN worker : worker[i].pc = "done" /\ ~worker[i].failed

AllJoined == \A i \in DOMAIN worker : worker[i].pc = "done"

AnyFailed == \E i \in DOMAIN worker : worker[i].failed

\* Back from calculate; its locals are gone.
Leave(returned) ==
    /\ counts' = returned
    /\ job' = NoJob
    /\ m_node_order' = <<>>
    /\ next_idx' = 0
    /\ worker' = <<>>
    /\ main' = "idle"

Rethrow == main = "join" /\ AllJoined /\ AnyFailed /\ Leave(NoCounts)

Merge == /\ main = "join"
         /\ AllJoined
         /\ ~AnyFailed
         /\ Leave(IF Overflows(MergedCounts) THEN NoCounts ELSE MergedCounts)

MainStep == SpawnWorker \/ BeginJoin \/ Rethrow \/ Merge

-----------------------------------------------------------------------------

Init ==
    /\ job = NoJob
    /\ m_node_order = <<>>
    /\ next_idx = 0
    /\ main = "idle"
    /\ worker = <<>>
    /\ counts = NoCounts

Next == \/ \E j \in Jobs : Calculate(j)
        \/ MainStep
        \/ \E i \in DOMAIN worker : WorkerStep(i)

Spec == Init /\ [][Next]_vars

WorkerIds == 1 .. Max({j.threads : j \in Jobs})

\* Threads are scheduled preemptively: one that can step does so eventually.
FairSpec == /\ Spec
            /\ WF_vars(MainStep)
            /\ \A i \in WorkerIds : WF_vars(i \in DOMAIN worker /\ WorkerStep(i))

-----------------------------------------------------------------------------
(* Properties.                                                             *)

IsWorker(w) ==
    /\ w \in [pc : {"start", "claim", "work", "done"}, idx : Nat,
              bfs_visited : [DOMAIN w.bfs_visited -> Int],
              local_map : [DOMAIN w.local_map -> 0 .. COUNT_LIMIT - 1],
              failed : BOOLEAN]
    /\ w.failed => w.pc = "done"
    /\ w.pc = "work" => w.idx \in DOMAIN m_node_order
    /\ w.pc \in {"claim", "work"} /\ job.kind = "motifs" => DOMAIN w.bfs_visited = Vertices(Graph)

\* Every variable has the type the code gives it: m_node_order is a permutation
\* of the vertices, no worker reads it past its end, and none starts on a root
\* without its array of marks.
TypeOK ==
    /\ main \in {"idle", "spawn", "join"}
    /\ main = "idle" <=> job = NoJob
    /\ next_idx \in Nat
    /\ worker \in Seq(Range(worker))
    /\ IF job = NoJob
       THEN worker = <<>>
       ELSE /\ job \in Jobs
            /\ m_node_order \in Bijection(Vertices(Graph), Vertices(Graph))
            /\ Len(worker) <= thread_count
            /\ \A i \in DOMAIN worker : IsWorker(worker[i])

\* No position of the order is claimed twice, and none is skipped: the counter is
\* past every claim, no two workers that hold a root hold the same one, and a
\* worker that ends without failing leaves no position behind.
RootsAreClaimedOnce ==
    \A i \in DOMAIN worker :
        /\ worker[i].pc = "work" =>
             /\ worker[i].idx < next_idx
             /\ \A k \in DOMAIN worker \ {i} :
                  worker[k].pc = "work" => worker[k].idx # worker[i].idx
        /\ worker[i].pc = "done" /\ ~worker[i].failed => next_idx > order_size

\* What an enumeration counts, by definition: connected sets of four vertices, or
\* paths of five; and their identifiers.
Groups == Table([j \in Jobs |-> IF j.kind = "motifs" THEN MotifGroups(j.graph)
                                ELSE SimplePaths(j.graph)])

PathColors(g, p) == [i \in 1 .. 5 |-> get_vertex_color(g, p[i])]

GroupNumber ==
    Table([j \in Jobs |-> Table([x \in Groups[j] |->
        IF j.kind = "motifs" THEN MotifNumbers[j.graph][x]
        ELSE [colors |-> IF sequence_leq(PathColors(j.graph, x), Reverse(PathColors(j.graph, x)))
                         THEN PathColors(j.graph, x) ELSE Reverse(PathColors(j.graph, x)),
              edges  |-> <<FALSE, FALSE, FALSE, FALSE>>]])])

\* The position of the vertex a group is counted at: its first, or its middle one.
GroupPosition(index, x) ==
    IF job.kind = "motifs" THEN Min({index[v] : v \in x}) ELSE index[x[3]]

CountsOf(j, groups) ==
    LET number == GroupNumber[j] IN
    [id \in {number[x] : x \in groups} |->
        Cardinality({x \in groups : number[x] = id}) % COUNT_LIMIT]

\* At any moment the workers' maps together hold every group of the roots that
\* were worked on, once, and no other: whoever claimed the roots, in whatever
\* order, and whatever marks the earlier roots of a worker left behind.
CountsAreOfFinishedRoots ==
    job # NoJob =>
        LET index    == m_order_index
            open     == {worker[i].idx : i \in {k \in DOMAIN worker : worker[k].pc = "work"}}
            finished == {p \in DOMAIN m_node_order : p < next_idx} \ open IN
        MergedCounts = CountsOf(job, {x \in Groups[job] : GroupPosition(index, x) \in finished})

ReferenceCounts == [j \in Jobs |-> CountsOf(j, Groups[j])]

\* calculate implements its promise (GroupCount): the counts it returns are those
\* of the job, or it throws and returns none.
Promise == INSTANCE GroupCount WITH Counts <- ReferenceCounts

ImplementsGroupCount == Promise!Spec

\* Every calculation ends, also when workers fail.
EveryCalculationEnds == (main = "spawn") ~> (main = "idle")

\* A count that does not fit is reported as EnumerationOverflowException, as the
\* table of error codes says: what is returned is what there is to count.
OverflowIsReported ==
    [][Merge /\ counts' # NoCounts =>
        \A x \in Groups[job] :
            Cardinality({y \in Groups[job] : GroupNumber[job][y] = GroupNumber[job][x]})
                < COUNT_LIMIT]_vars

\* Every path recorded has five distinct vertices, as PathProcessor documents.
PathsAreSimple ==
    \A i \in DOMAIN worker :
        worker[i].pc = "work" /\ job.kind = "paths" =>
            LET root == m_node_order[worker[i].idx] IN
            \A e \in stream_paths(Graph, root) :
                Cardinality({concatenate_path(root, e[2])[k] : k \in 1 .. 5}) = 5
=============================================================================
