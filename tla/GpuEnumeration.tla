---------------------------- MODULE GpuEnumeration ----------------------------
(***************************************************************************)
(* GroupEnumerationPreprocessor::calculate with both of its backends: the  *)
(* threads of GroupEnumeration, or, when the caller asked for it, a GPU    *)
(* kernel (CudaMotifBackend, CudaPathBackend) whose threads each take some *)
(* roots and some neighbours of them, emit the groups the workers of a CPU *)
(* emit for those, and count them in one shared GpuCountMap.  When the map *)
(* was too small the kernel is run again with a larger one.                *)
(*                                                                         *)
(* A step of a GPU thread is one atomic operation on the halves' maps.     *)
(* The count is increased in the step that found the key to be one's own:  *)
(* counts are read after the kernel only.                                  *)
(***************************************************************************)
EXTENDS GroupEnumeration, GpuCountMap

CONSTANTS GPU_MAP_INITIAL_CAPACITY,
          GPU_MAP_GROWTH_FACTOR,
          GPU_MAP_GROWTH_MAX_ATTEMPTS,
          GPU_KERNEL_BLOCK_DIM

\* backend says what use_gpu comes to: "cpu", use_gpu is not set; "cuda", it is;
\* "missing", it is, in a build without CUDA.
ASSUME GpuAssumption ==
    /\ \A j \in Jobs : j.backend \in {"cpu", "cuda", "missing"}
    /\ GPU_MAP_INITIAL_CAPACITY \in Nat \ {0}
    /\ GPU_MAP_GROWTH_FACTOR \in Nat \ {0}
    /\ GPU_MAP_GROWTH_MAX_ATTEMPTS \in Nat \ {0}
    /\ GPU_KERNEL_BLOCK_DIM \in Nat \ {0}

VARIABLE device  \* the kernel in progress and its maps

deviceVars == <<job, m_node_order, next_idx, main, worker, counts, device>>

-----------------------------------------------------------------------------
(* The graph on the device: for each direction the rows one after another, *)
(* and where each begins, with the end of the last added.                  *)

Rows(g, reversed) ==
    [i \in 1 .. vertex_count(g) |-> SetToSortSeq(get_neighbours(g, i - 1, reversed), <)]

Csr(g, reversed) ==
    LET rows == Rows(g, reversed) IN
    [neighbors |-> FlattenSeq(rows),
     offsets   |-> [v \in 0 .. vertex_count(g) |->
                      MapThenSumSet(LAMBDA i : Len(rows[i]), 1 .. v)]]

\* An undirected graph has no reversed rows.
DeviceGraph ==
    Table([g \in {j.graph : j \in Jobs} |->
              [fwd |-> Csr(g, FALSE),
               rev |-> IF g.directed THEN Csr(g, TRUE)
                       ELSE [neighbors |-> <<>>, offsets |-> [v \in 0 .. vertex_count(g) |-> 0]]]])

get_neighbour_range(csr, v) == SubSeq(csr.neighbors, csr.offsets[v] + 1, csr.offsets[v + 1])

\* Binary search in the row of src.
has_fwd_edge(g, src, dest) ==
    LET csr == DeviceGraph[g].fwd
        found[low \in Nat, high \in Nat] ==
            LET mid == low + (high - low) \div 2 IN
            /\ low < high
            /\ \/ csr.neighbors[mid + 1] = dest
               \/ csr.neighbors[mid + 1] < dest /\ found[mid + 1, high]
               \/ csr.neighbors[mid + 1] > dest /\ found[low, mid] IN
    found[csr.offsets[src], csr.offsets[src + 1]]

-----------------------------------------------------------------------------
(* The groups a kernel's thread emits.                                     *)

ceil_div(a, b) == (a + b - 1) \div b

max_fwd_degree(g) ==
    LET offsets == DeviceGraph[g].fwd.offsets IN
    Max({offsets[v + 1] - offsets[v] : v \in Vertices(g)})

stride_x(g) == GPU_KERNEL_BLOCK_DIM * ceil_div(vertex_count(g), GPU_KERNEL_BLOCK_DIM)

stride_y(g) == GPU_KERNEL_BLOCK_DIM *
                   Max({1, ceil_div(max_fwd_degree(g), GPU_KERNEL_BLOCK_DIM)})

DeviceThreads(g) == (0 .. stride_x(g) - 1) \X (0 .. stride_y(g) - 1)

\* A GPU thread has no marks: depth one is adjacency to the root.
gpu_is_not_at_depth_one(g, root, v) ==
    v # root /\ ~has_fwd_edge(g, root, v) /\ (g.directed => ~has_fwd_edge(g, v, root))

\* The marks for which is_not_at_depth_one says the same.
gpu_marks(g, root) ==
    [v \in Vertices(g) |-> IF gpu_is_not_at_depth_one(g, root, v) THEN -1 ELSE run_id(root) + 1]

\* The depth-one neighbour a group was emitted from, and whether its row is the
\* reversed one.  A triple is emitted from the first of it in the forward row.
FirstNeighbour(g, root, e) ==
    IF job.kind = "paths" THEN e[2][1][1]
    ELSE IF e[1] # "111" THEN e[2][1]
    ELSE LET forward == {v \in Range(e[2]) : has_fwd_edge(g, root, v)} IN
         Min(IF forward = {} THEN Range(e[2]) ELSE forward)

FromReversedRow(g, root, e) ==
    IF job.kind = "paths" THEN e[1] = "in-in"
    ELSE ~has_fwd_edge(g, root, FirstNeighbour(g, root, e))

\* Where that row has it, from 0.
RowPosition(g, root, e) ==
    LET d   == DeviceGraph[g]
        row == get_neighbour_range(IF FromReversedRow(g, root, e) THEN d.rev ELSE d.fwd, root) IN
    (CHOOSE i \in DOMAIN row : row[i] = FirstNeighbour(g, root, e)) - 1

\* The groups of thread y of those that share a root.
HasNeighbour(g, root, e, y) == RowPosition(g, root, e) % stride_y(g) = y

\* Motif kernels go through the order of degrees, path kernels through the
\* vertices themselves.
HasVertex(g, root, x) ==
    (IF job.kind = "motifs" THEN m_order_index[root] ELSE root) % stride_x(g) = x

Emitted(g, root) == Recorded(IF job.kind = "motifs" THEN gpu_marks(g, root) ELSE <<>>, root)

ThreadGroups(g, t) ==
    UNION {{<<root, r>> : r \in {q \in Emitted(g, root) : HasNeighbour(g, root, q[2], t[2])}} :
            root \in {v \in Vertices(g) : HasVertex(g, v, t[1])}}

-----------------------------------------------------------------------------
(* The kernel.  A thread: todo, the groups it has yet to count; pc, "next" *)
(* between two groups, "high" or "low" when its next atomic operation is   *)
(* on that map; id, key and probe, of the group it is counting.            *)

NoKernel == [attempt |-> 0, capacity |-> 0, high |-> <<>>, low |-> <<>>, count |-> <<>>,
             overflow |-> FALSE, thread |-> <<>>]

min_vertices == IF job.kind = "motifs" THEN 4 ELSE 5

OnDevice == main = "spawn" /\ job.backend = "cuda"

\* One round of run_gpu_enumeration_with_growth up to the launch.
Launched(attempt, capacity) ==
    [NoKernel EXCEPT
        !.attempt = attempt, !.capacity = capacity,
        !.thread = [t \in {u \in DeviceThreads(Graph) : ThreadGroups(Graph, u) # {}} |->
                      [todo |-> ThreadGroups(Graph, t), pc |-> "next",
                       id |-> NoJob, key |-> 0, probe |-> 0]]]

LaunchKernel ==
    /\ OnDevice
    /\ device = NoKernel
    /\ vertex_count(Graph) >= min_vertices
    /\ device' = Launched(1, GPU_MAP_INITIAL_CAPACITY)
    /\ UNCHANGED vars

\* atomic_insert_uint128_count is called for the next group: its key.
NextGroup(t) ==
    /\ device.thread[t].pc = "next"
    /\ \E group \in device.thread[t].todo :
         device' = [device EXCEPT !.thread[t] =
                      [todo |-> @.todo \ {group}, pc |-> "high", id |-> group[2][1],
                       key |-> first_key(group[2][1]), probe |-> 0]]
    /\ UNCHANGED vars

InsertHigh(t) ==
    LET w == device.thread[t] IN
    /\ w.pc = "high"
    /\ device' = [device EXCEPT
                    !.high = insert_and_find(@, device.capacity, w.key, stored_high(w.id)),
                    !.thread[t].pc = "low"]
    /\ UNCHANGED vars

\* The key turns out to be the group's own, or it goes on to the next key, or
\* gives up when it has tried as many as there are slots.
InsertLow(t) ==
    LET w   == device.thread[t]
        low == insert_and_find(device.low, device.capacity, w.key, stored_low(w.id)) IN
    /\ w.pc = "low"
    /\ device' = IF matches(device.high, low, w.key, w.id)
                 THEN [device EXCEPT !.low = low, !.thread[t].pc = "next",
                         !.count = [k \in DOMAIN @ \cup {w.key} |->
                                      IF k = w.key THEN (at(@, k) + 1) % COUNT_LIMIT ELSE @[k]]]
                 ELSE IF w.probe + 1 < device.capacity
                 THEN [device EXCEPT !.low = low, !.thread[t].pc = "high",
                         !.thread[t].key = next_key(w.id, @), !.thread[t].probe = @ + 1]
                 ELSE [device EXCEPT !.low = low, !.thread[t].pc = "next", !.overflow = TRUE]
    /\ UNCHANGED vars

DeviceStep(t) == NextGroup(t) \/ InsertHigh(t) \/ InsertLow(t)

-----------------------------------------------------------------------------
(* The calling thread.                                                     *)

\* cudaDeviceSynchronize waits for this.
KernelEnded ==
    /\ OnDevice
    /\ device # NoKernel
    /\ \A t \in DOMAIN device.thread :
         device.thread[t].pc = "next" /\ device.thread[t].todo = {}

\* The identifiers the job's groups have.
DeviceIds == {r[1] : r \in UNION {Emitted(Graph, v) : v \in Vertices(Graph)}}

cuco_maps_to_enumeration_result ==
    LET keys(id) == keys_of(device.high, device.low, device.count, id) IN
    [id \in {i \in DeviceIds : keys(i) # {}} |->
        MapThenSumSet(LAMBDA k : device.count[k], keys(id)) % COUNT_LIMIT]

TooSmall == device.overflow

Collect ==
    /\ KernelEnded
    /\ ~TooSmall
    /\ Leave(cuco_maps_to_enumeration_result)
    /\ device' = NoKernel

GrowAndRetry ==
    /\ KernelEnded
    /\ TooSmall
    /\ device.attempt < GPU_MAP_GROWTH_MAX_ATTEMPTS
    /\ device' = Launched(device.attempt + 1, device.capacity * GPU_MAP_GROWTH_FACTOR)
    /\ UNCHANGED vars

\* EnumerationOverflowException.
GiveUp ==
    /\ KernelEnded
    /\ TooSmall
    /\ device.attempt = GPU_MAP_GROWTH_MAX_ATTEMPTS
    /\ Leave(NoCounts)
    /\ device' = NoKernel

TooFewVertices ==
    /\ OnDevice
    /\ vertex_count(Graph) < min_vertices
    /\ Leave(<<>>)
    /\ UNCHANGED device

\* The base class's calculate_gpu throws.
NoBackend ==
    /\ main = "spawn"
    /\ job.backend = "missing"
    /\ Leave(NoCounts)
    /\ UNCHANGED device

HostStep == LaunchKernel \/ Collect \/ GrowAndRetry \/ GiveUp \/ TooFewVertices \/ NoBackend

-----------------------------------------------------------------------------

OnCpu == job # NoJob /\ job.backend = "cpu"

CpuMainStep == OnCpu /\ MainStep /\ UNCHANGED device

CpuWorkerStep(i) == OnCpu /\ WorkerStep(i) /\ UNCHANGED device

DeviceInit == Init /\ device = NoKernel

DeviceNext == \/ \E j \in Jobs : Calculate(j) /\ UNCHANGED device
              \/ CpuMainStep
              \/ \E i \in DOMAIN worker : CpuWorkerStep(i)
              \/ HostStep
              \/ \E t \in DOMAIN device.thread : DeviceStep(t)

DeviceSpec == DeviceInit /\ [][DeviceNext]_deviceVars

\* The threads of a CPU as in GroupEnumeration; a kernel runs to its end.
FairDeviceSpec ==
    /\ DeviceSpec
    /\ WF_deviceVars(CpuMainStep)
    /\ \A i \in WorkerIds : WF_deviceVars(i \in DOMAIN worker /\ CpuWorkerStep(i))
    /\ WF_deviceVars(HostStep)
    /\ WF_deviceVars(\E t \in DOMAIN device.thread : DeviceStep(t))
=============================================================================
