# Verification of the subgraph filter suite

This directory holds TLA+ models of the suite (`src/`), the TLC configurations
that check them on small instances, and theorems about them whose proofs TLAPS
checks.

## 1. The system

The suite answers, for a background graph and a library of coloured graphs,
which library graphs can occur in it. Cheap filters rule most of them out, an
exact search decides the rest.

| Component | State | Operations | Hard because of |
|---|---|---|---|
| `ColoredGraph` | compressed rows of out- and in-neighbours, vertex and edge colours | construct, query neighbours, edges, colours, degrees | two symmetric sets of arrays; iterators into one used as offsets into the other |
| `SubgraphSearcher` | `m_stop` (shared by all threads of a call, kept between calls); per thread a path, chosen vertices, restrictions and undo sets; a match counter | `find_all` | threads in batches, early stop by flag and exception, undo on backtracking |
| `MotifPreprocessor`, `CpuKavoshContext` | order of vertices, claim counter, per worker marks and counts | `calculate`, emission of groups per root | claims, marks reused from root to root, each group along one way only |
| `PathProcessor` | the same without marks | `calculate`, emission of paths per middle vertex | simplicity, direction of a path's identifier |
| `GroupEnumerationPreprocessor` | counts | order vertices, run the pool, merge | failing workers, 32-bit counts |
| `MotifDagExpander` | counts | derive counts of sub-motifs | 32-bit counts |
| `GroupEnumerationGraphFilter` | library counts | prune when a count is too small | identifiers of two graphs must mean the same |
| `PatternGraphFilter` | patterns, each with the library graphs it occurs in | prune when a pattern does not occur | a test on results so far; result and index of different lengths |
| `FlowManager` and the managers | names and counts of graphs, per flow | read or compute caches, filter, write results | stale, partial and ambiguous cache entries |
| cache files | a directory of entries, named by category and graph | exists, read, write | writes in place, lookup by prefix |
| `Tree`, `Node` | partial matches as paths of a tree, siblings in a ring | add, delete, cascade | pointer structure with special small cases |
| `MultiGraphPatternFinder` | one forest of match trees per graph | grow a pattern level by level | the trees of all graphs must stay in step |
| `SingleGraphPatternFinder`, `SingleGraphHistogram`, `PatternScorer` | matches and cached candidate scores | absorb a vertex, score candidates | incremental caches |
| pattern preprocessors, `ColorRemapper` | claim counter, results per thread, graphs remapped in place | find patterns in parallel | exceptions between remapping and restoring |
| graph readers, colour maps | maps from labels to colours, handed from run to run | read, extend, save | maps lost, damaged or branched between runs; renumbering of vertices |
| pattern writers, result files, index | files per time stamp | write, read | files cut off, names that continue other names |
| command line, API | none | check options, call a run | which options are needed depends on others |
| GPU backends | three device maps that all threads share | the same enumerations as kernels | two atomic steps per identifier; colliding keys; growth and retry |

The searcher is called by the command line (`sgf_graph_searcher`) and by
`PatternGraphFilter`, which calls one searcher for all its patterns. The two
enumerations are called by `FlowManager` through the preprocess managers, and
their counts go to cache files and to `GroupEnumerationGraphFilter`. Graphs are
read-only once built, except that the pattern preprocessors recolour them.

What makes the components correct:

* the searcher reports each match once, nothing else, and returns; what it
  returns is the number of matches;
* an enumeration returns, whatever the number of threads, the number of groups
  of each identifier, or fails;
* a filter prunes no graph that occurs;
* a cache read returns what was written for that graph, also after a crash;
* the match tree and the histogram agree with the matches they stand for.

`PROJECT.json` lists the components, and under "hazards" what in this code is
hard to test, each at its line.

## 2. The modules

| Module | Models | Role |
|---|---|---|
| `ColoredGraphs` | `ColoredGraph`, read interface | graphs as records, and what an embedding is |
| `MatchSearch` | promise of `SubgraphSearcher::find_all` | abstract specification |
| `SubgraphSearch` | `SubgraphSearcher.cpp` | detailed specification, implements `MatchSearch` |
| `SubgraphSoundness` | | the inductive invariant behind its soundness |
| `SubgraphOnce` | | the inductive invariant that no match is written twice |
| `SubgraphCompleteness` | | the invariants that no match is lost, that undoing is exact and that the counter is right |
| `SubgraphSearchProofs` | | theorems about `SubgraphSearch`: types, threads, the flag, all these invariants, and that `MatchSearch` is implemented |
| `MCSubgraphSearch` | | graphs, patterns, searchers for TLC |
| `KavoshGroups` | `MotifPreprocessor` emission, `CpuKavoshContext` | groups and marks of one root |
| `PathGroups` | `PathProcessor` emission | paths and identifiers of one root |
| `GroupCount` | promise of `GroupEnumerationPreprocessor::calculate` | abstract specification |
| `GroupEnumeration` | `calculate` and both worker pools | detailed specification, implements `GroupCount` |
| `GroupCounting`, `GroupEnumerationProofs` | | the invariant that counts are of the finished roots, its proof, and that `GroupCount` is implemented |
| `GpuCountMap` | `CucoUInt128CountMap` | the count map of a kernel |
| `GpuEnumeration` | `calculate` with either backend, the kernels, `DeviceGraph` | implements `GroupCount` too |
| `MCGroupEnumeration` | | graphs, jobs and hash values for TLC |
| `MatchTree` | `Tree`, `Node` | the tree operations, on links |
| `PatternSearch` | promise of `MultiGraphPatternFinder::find_pattern` | abstract specification |
| `PatternGrowth` | `MultiGraphPatternFinder` over `MatchTree` | detailed specification, implements `PatternSearch` |
| `PatternGrowthProofs` | | what each tree operation does to a tree; theorems about `PatternGrowth`, with its inductive invariant |
| `MCPatternGrowth` | | lists of graphs for TLC |
| `CandidateHistogram` | `SingleGraphHistogram` | the caches of one state |
| `PatternBeam` | `SingleGraphPatternFinder`, `PatternScorer` | the beam search |
| `PatternBeamProofs` | | theorems about `PatternBeam`, with its inductive invariant |
| `FiniteLemmas` | | lemmas about sums, maxima, flattened sequences, ranks and recursive functions, for all the proofs |
| `MCPatternBeam` | | pairs of graphs for TLC |
| `GraphDocuments` | readers, `ColoredGraph`'s constructors, pattern writers | documents to rows, and back |
| `GraphLibrary` | `load_library`, GraphML colour maps | loads, one after the other |
| `MotifInclusion` | `MotifDagExpander`, `GroupEnumerationGraphFilter` | counts, and when they discard a graph |
| `EnumerationFlow` | `enumerator_preprocess_run`, `enumerator_filter_run`, cache managers | runs over one file system |
| `PatternFlow` | `pattern_preprocess_run`, `pattern_filter_run`, preprocessors, `ColorRemapper`, `PatternGraphFilter` | runs over one file system |
| `Arguments` | the three command lines, `SgfApi` | from options to runs |
| `UInt128`, `UInt128Proofs` | `Int128.h` | identifiers on two words, and what their arithmetic computes |
| `CacheFormats`, `ResultFiles` | CSV and MessagePack cache files, result files, pattern index | contents, also cut off anywhere |
| `Flows` | the program | composes the three families of runs, the front ends and the files |
| `FilteringProofs` | | what an occurrence does to the groups of a graph: theorems about `MotifInclusion` and the counts of `EnumerationFlow` |
| `FlowsProofs` | | theorems about the runs of `Flows`, with their inductive invariants |
| `MCFlows` | | graphs, documents, sessions and options for TLC |

How they build on each other: `SubgraphSearch`, `GroupEnumeration`, `MatchTree`,
`CandidateHistogram` and `GraphDocuments` extend `ColoredGraphs`, directly or
through `KavoshGroups` and `PathGroups`. `EnumerationFlow` extends
`GraphLibrary`, `MotifInclusion` and the two group modules (it takes what
`calculate` promises for what a graph's counts are); `PatternFlow` extends it,
`Arguments` extends that, and `Flows` puts `CacheFormats` and `ResultFiles` next
to them. The detailed specifications instantiate their abstract ones with a
refinement mapping, called `Promise` in each. The proof modules extend the module
they are about; no module they reach declares a RECURSIVE operator.

### How the searcher's state and actions correspond to the code

A step of a search thread is the code between two accesses to what the threads
share: the relaxed load of `m_stop` at the head of `recursion_search`, the
locked write of a match, the store to `m_stop` and the addition to the counter
in the thread's body. Everything between two of these reads and writes the
thread's own `SearchContext`, so other interleavings are indistinguishable.

| Model | Code |
|---|---|
| `thread[t]` | the thread started at graph vertex `t`; its `SearchContext` (`path`, `chosen`, `restrictions`) and its call stack (`stack`, one frame for each active `expand_search`; `count`, what the calls have found so far and return as they unwind) |
| `frame.inverse` | `inverse_restrictions`, as a map from every pattern vertex; the empty set stands both for no entry and for an empty one, which undo nothing alike |
| `INVALID_VERTEX_ID` | the marker `update_restriction_entry` leaves in an undo set for an entry that is new |
| `StartSearch`, `TryCandidate` | a call of `recursion_search` up to its test of `m_stop` |
| `Reject`, `WriteMatch`, `ExpandSearch` | the rest of the call: used or not induced; complete; one level deeper |
| `Backtrack` | `restore_restrictions`, the erasures and the return of `expand_search` |
| `StoreStop`, `AddCount` | the two steps of the handler of `MatchFoundException`, or the addition alone |
| `FindAll`, `CheckStop`, `SpawnThread`, `JoinBatch`, `Return` | `find_all`, one action for each step that others can tell apart |

Choices the code leaves to a hash table or a random generator are free: the
order of candidates, and which of equally good vertices comes next. Under
`RANDOM` any open vertex may come next.

### How the enumeration's state and actions correspond to the code

| Model | Code |
|---|---|
| `m_node_order` | any order `std::sort` may leave, by decreasing degree |
| `next_idx` | the atomic counter, one action for each `fetch_add` (`ClaimRoot`) |
| `worker[i]` | a worker with its marks (`bfs_visited`), its map and its `exception_ptr` |
| `WorkOnRoot` | `stream_groups_to_counter_for_vertex`, which touches only the worker's own state, in one action |
| `mark_depth_one`, `mark_deeper`, `emit_*` | `MotifPreprocessor`'s marking and emission for one root, as sets of emitted tuples, one element for each call of the counting function |
| `stream_paths`, `PathNumber` | `PathProcessor`'s paths through one middle vertex, and their identifier |
| `FailToStart` | the allocation of a worker's marks throws |
| `Calculate`, `SpawnWorker`, `BeginJoin`, `Rethrow`, `Merge` | `calculate` and the calling thread's side of the pool |

A motif identifier is the isomorphism class with its colours (`MotifNumber`):
what the generated tables of `MotifMap.cpp` are for, not how they are packed.

### The GPU backend

A device thread takes the groups of one root and some of its neighbours
(`ThreadGroups`, from the grid's strides) and inserts each identifier with a step
for each atomic operation on the maps of halves (`InsertHigh`, `InsertLow`). The
count is increased in the step that found the key, since counts are read after
the kernel only. A key that another identifier took sends a thread on by its own
step; a probe that ran through the whole capacity sets the overflow flag, and
`GrowAndRetry` starts over with larger maps. When a map is full, an insertion
returns what is not a match. The kernels share the emission operators with the CPU,
except for the test of depth one, which is a binary search in the rows there.

### How the pattern searches correspond to the code

| Model | Code |
|---|---|
| a tree: path of vertices -> `son`, `left`, `right` | `Tree` with its `Node`s; a node is the path from the root to it, so two nodes never share one |
| `add_tree_level`, `remove_node`, `delete_node` | the same functions, with the rings of siblings |
| one action of `PatternGrowth` | one turn of `run_one_growth_step`, or the start or end of `find_pattern`: a finder belongs to one thread |
| `m_dead_edge_pairs` | kept between the turns of a call, as in the code |
| a state of the beam | `PatternState`: path, pattern, histogram, score and its flag |
| `outside[v]` | `m_candidate_outside_log_prob`, as how often each vertex's logarithm is in the sum |
| `ExpandState`, `PruneBeam` | one turn of the loop of `expand_beam`; `prune_beam` with the tests after it |
| `SeedThrows`, `ExpansionThrows` | a vertex is absorbed into a histogram one of whose sums of logarithms is infinite: `SingleGraphHistogram` throws there, which ends the search |

Random choices of the multi-graph search are free. Which of two scores is lower
is left open, so that whatever holds does so for every scorer.

### How the flows correspond to the code

A command is what a front end calls. Its run is divided at what another run could
find on disk and at what threads share: a file written, an enumeration computed,
a claim of a pattern worker. Any run may stop at any step (`Abort...`); up to
`MaxBroken` cache files and `MaxTorn` colour maps are left incomplete, also without
an exception, because a failure to flush a stream in its destructor is not noticed.
What a broken file reads as is what `CacheFormats` derives from its bytes
(`CutFilesAreBroken`, part of `FilesReadBack`, relates the two). Directories list
their files, and hash maps their entries, in any order.

A worker's search for patterns is one step that finds some pattern of its graph;
`PatternGrowth` and `PatternBeam` say how it is found. An exact search in
`PatternGraphFilter` is what `MatchSearch` promises. File names are sequences of the
parts between underscores, since that is what the lookup by prefix tells apart.

## 3. The runs

| Run | States | What it shows |
|---|---|---|
| `search` | 62,617 | see below |
| `enumeration` | 21,379 | see below |
| `growth` | 920 | see below |
| `beam` | 1,772 | see below |
| `flows` | 58,641 | see below |
| `at_most_one` | counterexample | a `stop_after_first` call may return 2 |
| `overflow` | counterexample | a count that wraps is returned, not reported |
| `simple_paths` | counterexample | a recorded path may visit a vertex twice |
| `renumbered` | counterexample | a graph is discarded for one that is isomorphic to it |
| `binomial` | counterexample | a directed pattern's score wraps around |
| `cache_hit` | counterexample | a graph is answered from another graph's cache file |
| `never_pruned` | counterexample | the pattern filter discards nothing |

**`search`** makes any sequence of calls, of two dozen, on one of six searchers
that between them have every prior policy, both kinds of graph and both
semantics (not every combination). It checks that

* `ImplementsMatchSearch`: each match is reported once and nothing else is,
  a call returns the number reported, and without `stop_after_first` only after
  all were, whatever the interleaving;
* `RestrictionsAreOfThePath`: after any descents and returns, the restrictions
  are those computed afresh from the partial match;
* `WrittenAreEmbeddings`, `WrittenOnce`: soundness, and no match twice, each on
  its own and in the states between reports;
* `MatchesAreAccounted`: the counter and the counts that running threads hold
  add up to the matches written, also when an exception unwinds a thread;
* `StopMeansFound`: the flag of one call never ends the next;
* `ThreadsAreBounded`: at most a batch of threads runs, all to be joined;
* `EveryCallReturns`.

The graphs have three or four vertices, with a triangle, a chord, a 2-cycle, a
vertex of another colour and two components among them; the patterns one to
four. Smaller patterns never undo a filtered restriction, and the 4-cycle is
the smallest that filters one twice. A disconnected pattern has no match by the
interface (its second part is never next to the first), and an empty one is
refused. `BATCH_SIZE` is 2 where the code has 512: every graph with three start
vertices fills a batch and begins another. Matches of one call differ in the
threads that find them, so no symmetry is used.

**`enumeration`** makes any sequence of calculations of fifteen jobs, with one to
three workers or on a GPU. It checks that

* `ImplementsGroupCount`: what `calculate` returns is the number of connected
  groups of four vertices (of simple paths of five), per identifier, or nothing
  when a worker failed, a GPU map stayed too small or there is no GPU backend;
* `CountsAreOfFinishedRoots`: at any moment the workers' maps together hold
  each group of the finished roots once, whatever marks earlier roots left in a
  worker's array;
* `RootsAreClaimedOnce`, `EveryCalculationEnds`.

The graphs have five or six vertices, which is the least for a group at every
depth pattern (1-1-1, 1-1-2, 1-2-2, 1-2-3) next to vertices outside it; the
jobs with fewer vertices than a group has, with no vertex and with more threads
than vertices are the boundary cases. Path jobs are undirected here because of
`simple_paths`. `COUNT_LIMIT` stands for 2^32; 1000 is never reached. Halves and
keys of identifiers have three bits, all identifiers start at two keys of which
one is the reserved one, and one has a half with every bit set: the collisions and
sentinels that 64 bits make rare happen in every kernel. The first map has two
slots, so that kernels are repeated and some give up.

**`growth`** makes any sequence of calls of `find_pattern`, random or not, on lists
of up to three graphs of up to five vertices, with a third, a half or all of the
graphs asked for, also with a directed and an undirected graph in one list. It
checks that

* `ImplementsPatternSearch`: the pattern only grows, and the graphs reported are
  exactly those it occurs in;
* `LeavesAreMatches`: the leaves of a graph's tree are the pattern's matches in it,
  all of them, each once;
* `TreesAreLinked`: rings of siblings are closed and consistent, no node is left
  without a leaf below it, and none is lost, through extension and cascades;
* `DeadPairsAreUnsupported`: a pair once found dead has no match with that edge, as
  long as it is remembered;
* `CountsAreOfExtensions`: the counts of a tree, from paths that are updated
  incrementally, name exactly the extensions there are, and leaves that share a
  parent are neighbours, so that `validate_parent_ordering` never throws;
* `EverySearchEnds`.

Four vertices are the least for a cascade of two levels next to a branch that
stays, and two graphs for trees that must stay in step.

**`beam`** makes any sequence of searches of nine jobs, pairs of graphs with limits from
2 to 6, among them colours that the background lacks (whose logarithms overflow
and whose share of the quota is undefined) and graphs without vertices. It checks
that

* `StatesAreInducedMatches`, `HistogramsAreExact`: after any absorptions the pattern
  and the caches of a state are those of a fresh computation;
* `ScoresAreCurrent`: no stale score decides a pruning or the end;
* `BeamStaysInBounds`, `SeedsFitTheirColors`: the limit holds after the first pruning
  (not before: every seed gets a state), and no colour is asked for more vertices
  than it has;
* `EverySearchEnds`.

`HistogramsAreExact` compares caches of undirected graphs only: in a directed one
`outside` sums over out-neighbours, while an absorbed in-neighbour is taken out as
well, so it may hold less than a fresh sum. `MAX_ITERATIONS` is 3, enough to expand,
warm up and prune twice; `WORD` stands for 2^64.

**`flows`** runs twelve sessions of one to four commands: preprocessing that is stopped
and repeated, filtering that caches, filtering from that cache, binary files,
non-induced and directed graphs, pattern searches of either kind, of graphs that
a filter left, and pattern filters; and loads of labelled libraries that start
from each other's colour maps, of directed files, whose edges are met by their sources,
and of labels with a comma. It checks that

* `CachesAreRight`: a complete cache file holds the counts of the graph it is named
  after, and a run that caches leaves a file for every graph it goes past;
* `FilteringIsSafe`: a library graph that occurs in the query is not discarded, also
  from a cache that a crash cut short. Paths are compared in undirected graphs
  here, because of `renumbered`;
* `CachingIsTransparent`: between intact files a verdict is the one that computing
  afresh would give;
* `SearchedOnce`, `LibraryIsRestored`, `IndexIsTrue`: every search is made once
  whatever the interleaving, the graphs have their own colours again on every way
  out, and an index names graphs in which the pattern occurs, in those colours;
* `ColorsMeanLabels`: in loads whose maps descend from each other, and were read as they
  were saved, two vertices have one colour exactly when they have one label;
* `FilesAreReadAsWritten`, `FilesReadBack`: documents with any order of ids, gaps and
  links become the graphs they describe or are refused, as long as their numbers fit in
  32 bits; one with numbers that do not fit is refused or becomes the graph it describes
  modulo 2^32, since the readers cast (see below; `NumbersWrap` has examples of each). Every
  file the program writes is read as what was written. Both also go through samples:
  4,367 documents, of which 2,632 have a number that does not fit, each read as directed
  and as undirected, 72 graphs, cache files around the sizes at which a header grows, and every way
  of cutting a file off;
* `AcceptedArgumentsSuffice`: the front ends call no run without what it reads;
* `EveryRunEnds`.

Two cache files may be left broken, which is the least for a query and a library
file at once; words have 8 bits in two halves, colours and ids 4 (`WORD`,
`HALF_WORD`, `MAX_UINT32`, `MAX_VERTEX_COLOR`); patterns have one vertex or three.

### The findings

* **`at_most_one`**: two threads pass their test of `m_stop` before either stores it;
  both write, both add 1. `SubgraphSearcher.h:61` promises at most 1.
* **`overflow`**: `COUNT_LIMIT` is 2, so that two occurrences of a motif wrap. The test
  in `calculate` compares against an entry that was just created, hence 0, and the
  additions that do wrap are not tested.
* **`simple_paths`**: a vertex that is both an in- and an out-neighbour of the middle
  vertex of a directed path is paired with itself.
* **`renumbered`**: a directed path whose colours read the same both ways is counted
  in the direction in which it was found, which depends on the numbering of the
  vertices. A library graph is then discarded for a query that differs from it in
  the numbers of two vertices.
* **`binomial`**: potential edges of a directed pattern are counted as of an
  undirected one, and the unsigned difference to its edges wraps around.
* **`cache_hit`**: the cache file of `g` exists, but `read` also returns those of `g_2`,
  and the first of them is taken.
* **`never_pruned`**: the pattern filter searches a pattern only if all the graphs it
  would discard are discarded already, so it discards none.

Also met while modelling, without a run of its own:

* `attempt_add_vertex` truncates the number of graphs a vertex must be supported by
  (one half of three graphs is one), and `find_pattern` returns the pattern that lost
  too many graphs, so a pattern may occur in fewer than `--multigraph-alive-percent`.
* README.md:150-159 of the suite shows a first run that saves a colour map; a map is
  saved only by a run that was given one (`FlowManager.cpp:149`, `:232`, `:309`).
* Background graphs and pattern files are read by readers of their own
  (`FlowManager.cpp:335`, `:398`), which number GraphML labels from zero.
* Numbers that do not fit in 32 bits are cast, not refused, which is why
  `FilesAreReadAsWritten` claims no more of them than their remainder:
  `VertexEdgeGraphReader.cpp:43` takes the vertex id 2^32 for 0, and
  `JsonGraphReader.cpp:131`, `:182`, `:184` and `:211` cast colours and the ends of links
  (node ids are tested). README.md:110 of the suite says that JSON colours "must be
  non-negative integers"; a colour of -1 is read as 2^32 - 1. An edge colour of a
  vertex-edge file that does not fit is taken for none (`VertexEdgeGraphReader.cpp:121`).
* A label that contains a comma does not survive a saved colour map
  (`GraphmlColorMapIOManager.cpp:45`, `:62`): rows are split at the first comma, so what
  follows it makes the map unreadable, or, if it begins with a number, gives that number
  to the label before the comma (`a,1` is read as `a` with colour 1). `GraphLibrary` models
  both (`Saved`, `CommasAreLost`); `ColorsMeanLabels` does not cover maps that descend from
  such a one, where the colours of two labels may clash.
* Nothing compares the index of `--preprocess-single-graph` with the size of the library,
  or tests that it is not negative (`FlowManager.cpp:342`): the write past the end of
  `to_process` is undefined and left out (`CommandsAssumption`).
* `sgf-pattern-finder` accepts results of an earlier run without the background graph
  it then reads (`SgfPatternFinderArgumentParser.cpp:243`); `SgfApi` does not.
* A run that loads the counts of one kind of group and computes those of the other
  pairs results with the loaded names (`FlowManager.cpp:194`), and with more names
  than graphs reads past the library; the step is undefined and left out.
* `PatternGraphFilter` has one flag per pattern and indexes it by library graph.
* Two searches of one run write their patterns under one time stamp, the second over
  the first.

### Fairness

`FairSpec` of each module assumes weak fairness of every thread's steps and of
the calling thread's: both are operating-system threads, scheduled preemptively,
and none of their steps waits for anything but the join, whose guard stays true
once it is. A kernel runs to its end. Nothing obliges the program to make a call, so
`FindAll`, `Calculate` and `FindPattern` have no fairness. In `PatternGrowth` and
`Flows` the condition is written out, as what weak fairness means there: a call is
over again and again, or the loop turns again and again; in `Flows` it is about
any step of the process, of which there is one. It does not say which step, so
`EveryRunEnds` holds also when no run is ever stopped. The safety properties do
not depend on it.

### Deadlock

Deadlock is checked in every run but those of `MCFlows`, whose sessions end. In the
others another call can always be made, so a deadlock would be a state in which
every thread waits.

## 4. What is proved

TLAPS checks the following for every set of graphs, patterns, searchers, batch
sizes, numbers of threads, count limits, beam limits, thresholds and word sizes that
satisfy `SearchAssumption`, `EnumerationAssumption`, `BeamAssumption` or
`GrowthAssumption`. These say what the constructors of `ColoredGraph` guarantee
(vertices `0 .. n-1`, no loops, both directions of an undirected edge, colours that
are numbers), that marker values are not vertices, that a number of threads is not
zero, which `SgfApi.cpp:81` refuses, and that a finder is given a list of such graphs
and a fraction. `NullAssumption` says that a null pointer points to no node. The
theorems on `Flows` use `InputsAssumption`, that a directory has finitely many files and
each is read as such a graph (`load_library` ends the run on one that is not), and
`CommandsAssumption`, that a pattern run has a directory to read and at least one
thread, which `SgfPatternFinderArgumentParser.cpp:159` and `SgfApi.cpp:128` see to, and
that the index of a single graph is one of the library, which nothing sees to;
`StemsAssumption`, that a stem has a part, if an empty one; and
`EnumerationsAssumption`, that a run that needs a library has a directory to read, since a
run without one ends before it does anything, and that no run caches what it loads
(the front ends refuse both options together, see `Arguments`). `ColorsStayLabels` uses
what `GraphLibrary` assumes of its constants: documents are sequences of nodes and
links in a finite directory that can be listed, a map written by hand numbers its labels
consecutively, as README.md asks, and time stamps are no other file's name.
`ColorsAssumption` and `LimitAssumption` say that colours and the limit of a count are
numbers, the first not negative (`uint32_t`), the second positive.

| Theorem | Statement |
|---|---|
| `SubgraphSearchProofs!TypeCorrect` | `Spec => []TypeOK` |
| `SubgraphSearchProofs!StopIsFound` | `Spec => []StopMeansFound` |
| `SubgraphSearchProofs!BoundedThreads` | `Spec => []ThreadsAreBounded` |
| `SubgraphSearchProofs!Soundness` | `Spec => []WrittenAreEmbeddings` |
| `SubgraphSearchProofs!WritesOnce` | `Spec => []WrittenOnce` |
| `SubgraphSearchProofs!KeepsPromise` | `Spec => ImplementsMatchSearch` |
| `SubgraphSearchProofs!UndoingIsExact` | `Spec => []RestrictionsAreOfThePath` |
| `SubgraphSearchProofs!NoneUncounted` | `Spec => []MatchesAreAccounted` |
| `GroupEnumerationProofs!TypeCorrect` | `Spec => []TypeOK` |
| `GroupEnumerationProofs!RootsClaimedOnce` | `Spec => []RootsAreClaimedOnce` |
| `GroupEnumerationProofs!CountsAreRight` | `PathJobsAreUndirected => (Spec => []CountsAreOfFinishedRoots)` |
| `GroupEnumerationProofs!KeepsPromise` | `PathJobsAreUndirected => (Spec => ImplementsGroupCount)` |
| `PatternGrowthProofs!GrowthTypeCorrect` | `Spec => []TypeOK` |
| `PatternGrowthProofs!LeavesStayMatches` | `Spec => []LeavesAreMatches` |
| `PatternGrowthProofs!TreesStayLinked` | `Spec => []TreesAreLinked` |
| `PatternGrowthProofs!DeadPairsStayDead` | `Spec => []DeadPairsAreUnsupported` |
| `PatternGrowthProofs!CountsStayExact` | `Spec => []CountsAreOfExtensions` |
| `PatternGrowthProofs!GrowthKeepsPromise` | `Spec => ImplementsPatternSearch` |
| `PatternBeamProofs!TypeCorrect` | `Spec => []TypeOK` |
| `PatternBeamProofs!PatternsAreInduced` | `Spec => []StatesAreInducedMatches` |
| `PatternBeamProofs!CachesAreFresh` | `Spec => []HistogramsAreExact` |
| `PatternBeamProofs!ScoresStayCurrent` | `Spec => []ScoresAreCurrent` |
| `PatternBeamProofs!BeamIsBounded` | `Spec => []BeamStaysInBounds` |
| `PatternBeamProofs!SeedsFit` | `Spec => []SeedsFitTheirColors` |
| `FlowsProofs!SearchesAreMadeOnce` | `Spec => []SearchedOnce` |
| `FlowsProofs!ColorsAreRestored` | `Spec => []LibraryIsRestored` |
| `FlowsProofs!IndexTellsTheTruth` | `Spec => []IndexIsTrue` |
| `FlowsProofs!EnumerationInvariant` | `Spec => []EnumerationInv` |
| `FlowsProofs!CachesStayRight` | `StemsDiffer(Sessions) => (Spec => []CachesAreRight)` |
| `FlowsProofs!CachingChangesNoVerdict` | `Ordinary => (Spec => []CachingIsTransparent)` |
| `FlowsProofs!ColorsStayLabels` | `Spec => []ColorsMeanLabels` |
| `FlowsProofs!OccurringGraphsSurvive` | `Ordinary` and, for every session, `DirectionsAgree(s)` and `ExpansionsFit(s)`: `Spec => []FilteringIsSafe` |
| `FlowsProofs!TypesStayCorrect` | `CountsFit => (Spec => []TypeOK)` |
| `FilteringProofs!InducedHasNoMore` | a graph that occurs as an induced subgraph has no more motifs of any identifier |
| `FilteringProofs!OccurrenceHasNoMorePaths` | an undirected graph that occurs, induced or not, has no more paths of any number |
| `FilteringProofs!OccurringHasNoMore` | a graph that occurs, induced or not, has no more motifs of any identifier than the other's expanded counts give, unless these wrap |
| `UInt128Proofs!LessComparesValues`, `ValuesDiffer` | comparing and telling apart two-word identifiers is that of numbers |
| `UInt128Proofs!PlusAddsValues`, `MinusSubtractsValues`, `DivmodDivides` | their sum (modulo the width), difference and long division are those of numbers |

`TypeOK` of the searcher is inductive, with one lemma for each action. The
others need more than the property:

* `StopMeansFound` is not inductive, because the flag is raised one step after
  the match is written. `StopInv` adds that a thread in `found` or `stopped`
  belongs to a stopping call that has written a match.
* `ThreadsAreBounded` needs the room `SpawnThread` finds: in `check` and `spawn`
  the batch is not full (`BatchInv`).
* `WrittenAreEmbeddings` needs `SoundInv` (module `SubgraphSoundness`): each
  candidate a thread still has, in its restrictions, in the sets its frames walk
  (`TodoAgrees`) and in what its undo sets will give back (`UndoAgrees`), has the
  colour of its pattern vertex and the edges to the part of the partial match it
  is about. The frames of the stack are the entries of the path
  (`FramesArePath`). A vertex next to the partial match always has a restriction
  (`RestrictionsAgree`): otherwise a fresh one, built from one neighbour only,
  would forget the others. For the same reason undoing removes an entry only
  when no frame that stays is next to its vertex, which is what `UndoAgrees`
  says of the marker. `DescendAgrees` and `PopAgrees` carry this through
  `ExpandSearch` and `Backtrack`; `CompleteEmbeds` concludes when all pattern
  vertices are placed, by counting. The undirected case leans on edges being
  symmetric: there the code checks one direction.
* `WrittenOnce` needs `OnceInv` (module `SubgraphOnce`): a match that was written
  follows its thread's stack down to a frame that is done with the branch the match
  takes there (`Passed`), so the thread does not come to it again. No other thread
  does either, because threads have different vertices and a match belongs to the
  thread of the vertex it gives to the start vertex (`StartsAt`).
* `ImplementsMatchSearch` needs, next to the above, `CompleteInv` (module
  `SubgraphCompleteness`). `NoneIsLost` says of a call that was not stopped that each
  match not yet written is `Pending` in its thread, or that the thread is still to be
  spawned. A branch could be lost only where a frame takes its candidates from
  the restrictions, so `CandidatesAreKept` says that no vertex of a match was filtered
  out for good: where a match follows the stack, it is a candidate, or will be given
  back when the frames above are undone. `OnlyReached` says when an entry is missing,
  so that the code makes a fresh one. `ChosenTogether`: a match is complete only if the
  pattern is in one part. `CountsAgree`: each thread's count is the number of
  matches it wrote, and the counter that of the threads that have ended; it needs
  `WrittenOnce`. `ReturnsAtEnd`: the loop ends early only in a stopping call. Each step
  then is one of the promise: `FindAll` its start, `WriteMatch` a report, `Return` its
  return, and every other a stutter. The theorem is about safety; that a call
  returns is liveness.
* `RestrictionsAreOfThePath` is the exact form of what the two proofs above need one
  half of each, and inductive only together with what undoing will give back:
  `CandidatesAreExact` says that at every depth `n` of the stack the current candidates
  of a vertex and those in the undo sets of the frames above `n` are together the ones
  rebuilt from the first `n` frames.
* `MatchesAreAccounted` follows from `CountsAgree`: the matches written are divided by
  the thread they belong to, and the threads that still hold some are those that
  have not added their count.
* `RootsAreClaimedOnce` needs that every claimed position is below the counter.
* `CountsAreOfFinishedRoots` needs `CountInv` (module `GroupCounting`). A worker's marks
  are those of roots it has finished, which come before the one it claims
  (`MarksAreOfFinishedRoots`), so the depth-one test reads them right although they
  are never cleared. What is emitted for a root is then one tuple for each group whose
  first vertex in the order is the root (`EmittedOnce` for motifs, pairs below
  the middle for paths), so that a call of the counting function is a group. The sum of the
  workers' counts is, modulo `COUNT_LIMIT`, the number of groups at the finished
  positions: `SumFunction` changes by one summand in each step, which `FiniteLemmas` says.
* `ImplementsGroupCount` follows when all positions are finished: `Merge` adds each
  worker's map, modulo the same limit, and what `Groups` holds is the disjoint union of the
  groups at each position. The hypothesis `PathJobsAreUndirected` of both leaves out
  the directed paths of which `simple_paths` shows that they are miscounted.
* The six theorems on the growth of a pattern share `GrowthInv`. Inside a call
  (`Inside`) the list of a graph's leaves holds its matches of the pattern, each once
  and in the order of a walk through the tree; the nodes of its tree are exactly those
  on the way to a leaf (`OnWay`) and its links are right (`IsTree`); a graph is alive
  while its tree has a leaf; and no leaf supports a pair remembered as dead.
  * Links: `IsTree` gives each parent a `HasRing`, an explicit cyclic order of its
    sons that `right` and `left` walk in opposite directions. A first part of the proofs shows
    what linking one son and unlinking one do to the ring, with the rings of one
    and two siblings as cases, since the code treats them apart, and so that
    `remove_node` takes exactly the ways that led to this leaf only.
  * Recursions: adding a level and filtering the leaves one by one are functions
    on the positions. `RunExists` and `RunStays` turn such a function into a run whose
    steps stay in what they should.
  * Counting: the neighbours of a path are updated from leaf to leaf. Because
    the leaves are in order, what is on the path below the common ancestor is
    what has to be replaced, and each entry stands for the leaves below it whose
    path it is next to. The count of a vertex is a sum over leaves that is positive just
    when one of them can be extended (`SumIsPositive`).
  * Promise: adding a vertex or an edge is its `Grow`, the start and the end of
    `find_pattern` its `Begin` and `End`, anything else a stutter.
* The six theorems on the beam share `BeamInv`: control (`ControlInv`: what the loop
  counter, the beam and the returned states are between the actions), and that every
  state in any beam fits (`BeamsInv`): its path is a match that grew connectedly, its
  pattern is the induced one, its caches are exact, and its score, if marked valid, is
  that of its pattern. `absorb` folds over the neighbours of the new vertex
  in any order; the proof gives the fold a closed form (`Added`) and compares that
  with a fresh computation vertex by vertex. The seeds are chosen with a quota
  that is filled up by a recursion over the colours; it is shown to exist and to
  stay below each colour's capacity.
* The first three theorems on `Flows` share `FlowInv`, an invariant of every sequence of runs:
  * Claims: a number below the counter that is to be searched was searched, or a worker
    is at it, or one has failed (`ClaimsAreKept`); no two workers are at one number, and
    none is at one that was searched (`WorkerIs`, `ClaimsDiffer`). When all workers have
    ended, at least one of them has seen the counter at its end, since
    `thread_count` is positive whenever there is something to search.
  * Colours: the colour map of a search knows every colour of every graph (`MapKnows`, by
    a run through the recursive functions of `ColorRemapper`), so each place in it is a
    colour again (`RecoloredIs`, `RestoredIs`).
  * Finds: what is found in a recoloured graph is found, in the colours of the files, in
    the graph that was read (`RecoloredEmbeds`); a pattern numbered from the vertices it
    was found on occurs there (`NumberedEmbeds`, by counting ranks).
  * Files: a pattern file takes the mark off an index that was whole, and an index is
    written when the files below `written` are all those of this search, also when an
    earlier search of the same run left more of them (`FindsAre`). What another run
      or a crash does between two of these steps cannot touch either.
* The next three share `EnumerationInv` and, for the verdicts, `VerdictInv`:
  * Cache files (`FilesAre`): each is named after a kind and a graph that some run may
    count, and is incomplete or holds the counts of such a graph with that stem. A file
    that is there is never overwritten, so this survives any later run, and a broken one.
  * Runs (`RunIs`): where a run computes a kind, the names it goes by are those of its
    graphs (`NamesAreTheirs`); what waits to be written is of the next graph, which
    has no file yet (`WaitingIs`); a run that caches has left a file for each graph
    it is past (`NoneLeftOut`), since it goes past one only by a hit, or with a file
    written, if a broken one.
  * Verdicts (`EnumerationIs`, `ResultsAre`): an enumeration whose file was not left
    incomplete is that of the graph whose stem it goes by, and so are the flags made of
    it. Files are only added, so a file that is whole at the end was so when it was read.

  `CachesStayRight` needs that the stems of two graphs differ: the name of a file does
  not say from which directory its graph came. `CachingChangesNoVerdict` needs more,
  and each hypothesis is needed. No stem may be the beginning of another
  (`StemsAreNoPrefixes`), or the cache of `a.b` answers for `a`, which is what `cache_hit`
  shows. And no run may load its paths and compute its motifs (`NothingIsMixed`), or
  it gives verdicts under the names it loaded for graphs in the order of the directory
  (`FlowManager.cpp:194`). `MCFlows` assumes all three of its sessions, so that TLC
  evaluates them on the very sessions on which the properties are checked.
* `ColorsMeanLabels` needs `GraphmlInv`. Every map file that is whole was given or is the
  map of a load that saved it (`MapIs`), and a load whose maps are all whole has a map
  that is one to one and keeps the colours of every map it descends from (`LoadIs`). A
  whole file may still hold a bad map, if it descends from a torn one; that is
  why the invariant speaks of lineages and not of files. A file once saved stays, because
  time stamps only advance (`StampsAre`). Labels that a file brings get the numbers
  that follow those in use, since of two new labels one is met first (`MetInOrder`).

* `FilteringIsSafe` needs two arguments.
  * Runs: `SafeInv` says of one session of commands (`SafeIn`) that every cache file, also
    one left incomplete, has some of the counts of a graph of the session and none larger
    (`FilesAreOf`, `IsPart`): the rows of a CSV file that were written are right, and
    a last count that lost digits is smaller (`BrokenIsPart`). So a library graph is
    asked for no more than its whole file would ask (`PartIsCovered`), which is why a
    torn file on that side does no harm, and one on the query's does: the property
    leaves it out, as `VerdictInv` does. Verdicts are on graphs of the
    session under their own stems (`NamesAreOf`, `VerdictsAreSafe`), which
    `StemsAreNoPrefixes` is needed for.
  * Graphs: an occurrence carries groups to groups, no two to one. In an induced
    one a group's edges are kept, so that its canonical structure and least
    colouring, and with them its identifier, are too (`InducedHasNoMore`); in an undirected
    graph a path's number depends on the colours along it only, and edges are all it
    takes (`OccurrenceHasNoMorePaths`). Otherwise the group it is carried to may have more
    edges. Then its structure contains the first one's, so the DAG has an
    edge from it, laid over by a permutation that carries the colours along, and
    `expand` adds what such groups count (`OccurringHasNoMore`).

  Its hypotheses are needed too. Numbers of directed paths depend on how vertices are
  numbered, which `renumbered` shows, and a command that takes directed graphs for
  undirected ones expands by the wrong DAG: hence `DirectionsAgree`. And `expand` adds unchecked,
  so that a count could wrap at 2^32 and fall below what is asked of it: hence `ExpansionsFit`.
  `MCFlows` assumes both of its sessions (`SessionsAgree`).

* `TypeOK` of `Flows` follows from the three invariants of the families and `TypeInv`. Its
  parts are what one run leaves for another to read: what a broken write leaves of counts is
  counts (`BrokenHasCounts`: a number of which digits are lost is smaller); there is a name
  for every enumeration, whichever way these were obtained (`RunHasCounts`); an index has
  finitely many rows, so that a filter can walk through its patterns and give each a flag
  (`StoreIsFinite`, `FilterGivesFlags`, by induction on what is left of the walk); and runs
  of different families never overlap (`OneAtATime`). No count of any graph may reach the
  limit (`CountsFit`), which `MCFlows` assumes of its graphs (`CountsAreKept`).

The theorems on `GroupEnumeration` are about its `Spec`, the CPU backend; the run
checks the same properties under `GpuEnumeration`. Those of `UInt128Proofs` hold for
every word that is the square of a half-word, of which 2^32 is one; carries and
borrows are where two words differ from one number, and the proofs go by cases of
whether the lower words overflow.

Only TLC checks, and why:

* liveness, because fairness and ENABLED are out of the prover's reach;
* the properties of `GpuEnumeration`'s specification, which share their statements with the
  CPU's but rest on atomic steps of a hash map that grows;
* `FilesAreReadAsWritten`, `FilesReadBack` and `AcceptedArgumentsSuffice` of `flows`: those
  of documents and file formats rest on recursive definitions, for which there is no
  induction, and that of arguments is about the options `MCFlows` enumerates.

Sums over finite sets are within reach although the library's induction theorems take
operators: `FiniteLemmas` goes by well-founded induction on sets (a minimal
counterexample under strict inclusion), in which the predicate is a set.

## 5. The plan

The components the source names are modelled; what is left is to prove more.

There is a theorem for every safety property of the runs but those section 4 names. What
could be added: the properties of `GpuEnumeration`'s specification, for which the proof
would need an invariant of the count map under its atomic steps (each group is in one
slot, or in the hands of one thread); and the refinement of a worker's search in
`PatternFlow`, one step there, by the finders of `PatternGrowth` and `PatternBeam`.

## 6. What is not modelled

* Syntax: of JSON, GraphML and options. A document is what a file says once its syntax is
  read; cache, result and index files are modelled to the byte or the field, because they
  may be cut off, and colour maps to the row and its first comma. Labels with line breaks
  are not modelled. Logging, help texts, return codes.
* The 12,000 entries of the generated tables (`MotifMap.cpp`, `DirectedMotifDag.cpp`,
  `UndirectedMotifDag.cpp`). `MotifNumber` and `MotifInclusion` model what they are for,
  isomorphism classes of four vertices and the classes below them; that each entry
  says so is a matter for a test. They are a third of the implementation's lines,
  and most of what else no definition stands for is declarations and comments in
  headers, which is why the share of mapped lines stays below what the components
  suggest.
* Failures of a kernel launch or of device memory: the code tests for neither
  (`CucoUInt128CountMap.h:200`). `CudaSearcherBackend` is an empty file.
* `FlowManager::subgraph_isomorphism_run`, which reads two graphs and makes one call of
  a searcher: its arguments are in `Arguments`, its call is one of `SubgraphSearch`.
* The failure of `std::thread` itself, or of a match writer inside a thread: both
  end the process (`std::terminate`).
* Concurrent calls of `find_all` on one searcher: `m_stop` is shared, so they
  would disturb each other, but nothing in the repository makes them. Nor does it
  run two processes on one directory.
* Calls of a searcher on graphs of the other kind (directed or not): the callers
  build the searcher from the graph's own flag.
* Floating-point values of scores, weights and random draws; what is computed from
  what is kept. Scores of the searcher's prior policies are integers in the code
  too, stored as doubles. `COMBINED` scores every vertex alike, as the code does: it
  fills no prior for it.
* The values of `SgfApi`'s cache configuration and of `find_subgraph`'s output path,
  which nothing checks: they are taken to be usable.
