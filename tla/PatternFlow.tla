----------------------------- MODULE PatternFlow -----------------------------
(***************************************************************************)
(* FlowManager's runs over patterns.  pattern_preprocess_run looks for     *)
(* patterns of several library graphs (MultiGraphPatternPreprocessor) and  *)
(* of single ones (SingleGraphPatternPreprocessor), all of them or those   *)
(* an earlier enumerator_filter_run did not discard, and keeps them in     *)
(* pattern files with an index of the graphs each was found in.            *)
(* pattern_filter_run reads them back for PatternGraphFilter.              *)
(*                                                                         *)
(* A search recolours the graphs of the library in place, so that colours  *)
(* are consecutive, and its worker threads share them and the counter they *)
(* claim their work from.                                                  *)
(***************************************************************************)
EXTENDS EnumerationFlow

CONSTANT PatternSize   \* the patterns found have so many vertices, or a single one

VARIABLES job,      \* the pattern run in progress
          worker,   \* its worker threads
          store,    \* [dir, stamp] -> the pattern files and the index written there
          verdicts  \* the results of the last pattern_filter_run: background -> flags

patternVars == <<job, worker, store, verdicts>>

NoJob == [pc |-> "idle"]

\* What the readers return: a ColoredGraph, whose colours and edges are all there is.
IsGraph(g) ==
    /\ IsColoredGraph(g)
    /\ g = [color |-> [v \in Vertices(g) |-> get_vertex_color(g, v)],
            edges |-> g.edges, directed |-> g.directed]

\* A directory lists finitely many files.
ASSUME InputsAssumption ==
    \A d \in DOMAIN Inputs :
        /\ IsFiniteSet(DOMAIN Inputs[d])
        /\ \A f \in DOMAIN Inputs[d] : IsGraph(Inputs[d][f])

\* The front ends pass at least one thread and a number of patterns (Arguments); a
\* directory that cannot be listed ends a run before it does anything.  Nothing tests
\* that the index of a single graph is one of the library: another one is undefined
\* behavior (to_process[index]), and is left out.
ASSUME CommandsAssumption ==
    \A s \in Sessions : \A c \in Commands(s) : c.run = "pattern_preprocess" =>
        /\ c.input \in DOMAIN Inputs
        /\ c.threads \in Nat \ {0}
        /\ c.preprocess_multigraph \in Nat
        /\ c.preprocess_singlegraph \in {-1} \cup 0 .. Cardinality(DOMAIN Inputs[c.input]) - 1

-----------------------------------------------------------------------------
(* ColorRemapper and PatternUtils::recolor_pattern.                        *)

scan_graph_colors(graph, color_map) ==
    LET scanned[n \in 0 .. vertex_count(graph)] ==
            IF n = 0 THEN color_map
            ELSE IF get_vertex_color(graph, n - 1) \in ToSet(scanned[n - 1]) THEN scanned[n - 1]
            ELSE Append(scanned[n - 1], get_vertex_color(graph, n - 1)) IN
    scanned[vertex_count(graph)]

\* color_map, the original colours in the order in which they first appear.
map_colors(graphs) ==
    LET scanned[k \in 0 .. Len(graphs)] ==
            IF k = 0 THEN <<>> ELSE scan_graph_colors(graphs[k], scanned[k - 1]) IN
    scanned[Len(graphs)]

recolor_graph(graph, color_map) ==
    [graph EXCEPT !.color = [v \in DOMAIN @ |-> (CHOOSE i \in DOMAIN color_map : color_map[i] = @[v]) - 1]]

\* Of a graph that was recoloured, or of a pattern found in one.
restore_graph_colors(graph, color_map) ==
    [graph EXCEPT !.color = [v \in DOMAIN @ |-> color_map[@[v] + 1]]]

-----------------------------------------------------------------------------
(* What a search finds: MultiGraphPatternFinder gives a pattern with the   *)
(* graphs it occurs in (PatternGrowth), SingleGraphPatternFinder some that *)
(* are induced in its graph (PatternBeam).                                 *)

\* The vertices of a pattern are numbered from 0, in the order of g's.
Numbered(g) ==
    LET vertex == [n \in 0 .. vertex_count(g) - 1 |->
                     CHOOSE v \in Vertices(g) : Cardinality({w \in Vertices(g) : w < v}) = n] IN
    [color    |-> [n \in DOMAIN vertex |-> get_vertex_color(g, vertex[n])],
     edges    |-> {e \in (DOMAIN vertex) \X (DOMAIN vertex) : is_edge(g, vertex[e[1]], vertex[e[2]])},
     directed |-> g.directed]

PatternsOf(g) ==
    {Numbered(Inside(g, S)) : S \in {S \in SUBSET Vertices(g) :
        Cardinality(S) \in {1, PatternSize} /\ IsConnected(Inside(g, S))}}

Sources(pattern, library) == {i \in DOMAIN library : Embeddings(pattern, library[i], FALSE) # {}}

Found(pattern, sources) == [pattern |-> pattern, sources |-> sources]

multi_patterns(library) ==
    {Found(p, Sources(p, library)) : p \in UNION {PatternsOf(library[i]) : i \in DOMAIN library}}

-----------------------------------------------------------------------------
(* The run in progress:                                                    *)
(*   pc          "phase": between searches; "search": workers run; "write" *)
(*   phases      the searches still to do                                  *)
(*   names, library, color_map, to_process                                 *)
(*   next        the atomic counter of the search                          *)
(*   outputs     what the last search returned                             *)
(*   written     how many of its pattern files are written                 *)
(*   cache, backgrounds: of a pattern_filter_run, whose pc is "filter"     *)
(* and its workers: pc, what they found, and the claims they worked on.    *)

phases(c) == (IF c.preprocess_multigraph > 0 THEN <<"multi">> ELSE <<>>)
               \o (IF c.preprocess_singlegraph # -1 THEN <<"single">> ELSE <<>>)
               \o (IF c.results_file THEN <<"results">> ELSE <<>>)

Stamp == [dir |-> job.command.output_path, stamp |-> Len(session)]

\* build_to_process: graphs that no result names are processed too.
build_to_process(names, filter_map) ==
    [i \in DOMAIN names |-> ~(names[i].stem \in DOMAIN filter_map /\ filter_map[names[i].stem])]

\* load_library, in the order of the directory; the background graph is read too.
StartPatternRun ==
    LET c == Head(session) IN
    /\ run = IdleRun /\ job = NoJob
    /\ session # <<>>
    /\ c.run = "pattern_preprocess"
    /\ session' = Tail(session)
    /\ \E names \in SetToSeqs(DOMAIN Inputs[c.input]) :
         job' = [pc |-> "phase", command |-> c, phases |-> phases(c), names |-> names,
                 library |-> [i \in DOMAIN names |-> graph_of[names[i]]],
                 color_map |-> <<>>, to_process |-> <<>>, next |-> 0,
                 outputs |-> <<>>, written |-> 0]
    /\ UNCHANGED <<files, results, run, worker, store, verdicts>>

Phase == Head(job.phases)

\* The graphs a search of single graphs is for.
ToProcess ==
    CASE Phase = "multi"   -> {<<>>}
      [] Phase = "single"  -> {[i \in DOMAIN job.names |-> i = job.command.preprocess_singlegraph + 1]}
      [] Phase = "results" -> {build_to_process(job.names, results[r]) : r \in DOMAIN results}

\* The claims there are to make: patterns, or positions in the library.
Claims == IF Phase = "multi" THEN job.command.preprocess_multigraph ELSE Len(job.library)

NewWorker == [pc |-> "start", claim |-> 0, found |-> <<>>, searched |-> <<>>]

thread_count(to_process) ==
    Min({job.command.threads,
         IF Phase = "multi" THEN job.command.preprocess_multigraph
         ELSE Cardinality({i \in DOMAIN to_process : to_process[i]})})

\* calculate up to the start of its workers; single-graph searches map the colours
\* of the background graph first, and end the run if it cannot be read.
Calculate ==
    /\ job.pc = "phase"
    /\ job.phases # <<>>
    /\ Phase = "multi" \/ job.command.background \in InputFiles
    /\ \E to_process \in ToProcess :
         LET color_map == map_colors((IF Phase = "multi" THEN <<>>
                                      ELSE <<graph_of[job.command.background]>>) \o job.library) IN
         /\ job' = [job EXCEPT !.pc = "search", !.next = 0, !.to_process = to_process,
                       !.color_map = color_map,
                       !.library = [i \in DOMAIN @ |-> recolor_graph(@[i], color_map)]]
         /\ worker' = [t \in 1 .. thread_count(to_process) |-> NewWorker]
    /\ UNCHANGED <<enumerationVars, store, verdicts>>

\* A worker constructs its finder.
StartWorker(t) ==
    /\ worker[t].pc = "start"
    /\ worker' = [worker EXCEPT ![t].pc = "claim"]
    /\ UNCHANGED <<enumerationVars, job, store, verdicts>>

\* Mutant: the claim is taken from a copy of the counter.
Claim_again(t) ==
    /\ worker[t].pc = "claim"
    /\ job' = [job EXCEPT !.next = IF worker[t].claim = @ THEN @ + 1 ELSE @]
    /\ worker' = [worker EXCEPT ![t].claim = job.next,
                    ![t].pc = IF job.next < Claims THEN "work" ELSE "done"]
    /\ UNCHANGED <<enumerationVars, store, verdicts>>

Claim(t) ==
    /\ worker[t].pc = "claim"
    /\ job' = [job EXCEPT !.next = @ + 1]
    /\ worker' = [worker EXCEPT ![t].claim = job.next,
                    ![t].pc = IF job.next < Claims THEN "work" ELSE "done"]
    /\ UNCHANGED <<enumerationVars, store, verdicts>>

\* Mutant: patterns keep the colours of the search.
recolor_pattern_forgotten(pattern, color_map) == pattern

recolor_pattern(pattern, color_map) == restore_graph_colors(pattern, color_map)

FindPattern(t) ==
    LET w     == worker[t]
        graph == job.library[w.claim + 1]
        found(outcomes) ==
            worker' = [worker EXCEPT ![t].pc = "claim", ![t].searched = Append(@, w.claim),
                ![t].found = @ \o [k \in DOMAIN outcomes |->
                    Found(recolor_pattern(outcomes[k].pattern, job.color_map), outcomes[k].sources)]] IN
    /\ w.pc = "work"
    /\ \/ Phase = "multi" /\ \E o \in multi_patterns(job.library) : found(<<o>>)
       \/ /\ Phase # "multi"
          /\ job.to_process[w.claim + 1]
          /\ \/ found(<<>>)
             \/ \E p \in PatternsOf(graph) : found(<<Found(p, {w.claim + 1})>>)
       \/ /\ Phase # "multi"
          /\ ~job.to_process[w.claim + 1]
          /\ worker' = [worker EXCEPT ![t].pc = "claim"]
    /\ UNCHANGED <<enumerationVars, job, store, verdicts>>

\* A search throws; the worker keeps the exception and ends.
WorkerFails(t) ==
    /\ worker[t].pc \in {"start", "work"}
    /\ worker' = [worker EXCEPT ![t].pc = "failed"]
    /\ UNCHANGED <<enumerationVars, job, store, verdicts>>

AllJoined == \A t \in DOMAIN worker : worker[t].pc \in {"done", "failed"}

NoneFailed == \A t \in DOMAIN worker : worker[t].pc # "failed"

\* Mutant: the colours are left as they are.
MergeResults_recolored ==
    /\ job.pc = "search" /\ AllJoined /\ NoneFailed
    /\ job' = [job EXCEPT !.pc = "write",
                  !.outputs = FlattenSeq([t \in DOMAIN worker |-> worker[t].found])]
    /\ worker' = <<>>
    /\ UNCHANGED <<enumerationVars, store, verdicts>>

\* The workers' results, in their order, and the original colours again.
MergeResults ==
    /\ job.pc = "search" /\ AllJoined /\ NoneFailed
    /\ job' = [job EXCEPT !.pc = "write",
                  !.outputs = FlattenSeq([t \in DOMAIN worker |-> worker[t].found]),
                  !.library = [i \in DOMAIN @ |-> restore_graph_colors(@[i], job.color_map)]]
    /\ worker' = <<>>
    /\ UNCHANGED <<enumerationVars, store, verdicts>>

\* The first exception is rethrown, past the restoring of the colours, and ends
\* the run, with the copy of the library.
Rethrow ==
    /\ job.pc = "search" /\ AllJoined /\ ~NoneFailed
    /\ job' = NoJob
    /\ worker' = <<>>
    /\ UNCHANGED <<enumerationVars, store, verdicts>>

-----------------------------------------------------------------------------
(* IPatternCacheIOManager::write and read.                                 *)

EmptyStore == [patterns |-> <<>>, index |-> <<>>, library |-> <<>>, whole |-> FALSE]

Stored == IF Stamp \in DOMAIN store THEN store[Stamp] ELSE EmptyStore

\* Two searches of one run have one time stamp: the second writes over the files
\* of the first.
WritePattern ==
    LET i == job.written IN
    /\ job.pc = "write"
    /\ i < Len(job.outputs)
    /\ store' = Put(store, Stamp, [Stored EXCEPT !.whole = FALSE,
                               !.patterns = Put(@, i, job.outputs[i + 1].pattern)])
    /\ job' = [job EXCEPT !.written = @ + 1]
    /\ UNCHANGED <<enumerationVars, worker, verdicts>>

\* Rows of the index; a pattern without sources has none and is lost.
index(outputs) ==
    [i \in {i \in 0 .. Len(outputs) - 1 : outputs[i + 1].sources # {}} |-> outputs[i + 1].sources]

\* The index is the last file to be written.
WriteIndex ==
    /\ job.pc = "write"
    /\ job.written = Len(job.outputs)
    /\ store' = Put(store, Stamp, [Stored EXCEPT !.whole = TRUE,
                               !.index = index(job.outputs), !.library = job.names])
    /\ job' = [job EXCEPT !.pc = "phase", !.phases = Tail(@), !.outputs = <<>>, !.written = 0]
    /\ UNCHANGED <<enumerationVars, worker, verdicts>>

-----------------------------------------------------------------------------
(* PatternGraphFilter.                                                     *)

\* The flags past the last one that has a word of its own read as false.
is_check_relevant(result, indices_to_filter) ==
    \A i \in indices_to_filter : i \in DOMAIN result /\ result[i]

apply_prune(result, indices) == [i \in DOMAIN result |-> result[i] \/ i \in indices]

\* One flag per pattern, one search per pattern that is still of use.
filter(library_cache, graph, is_induced) ==
    FoldLeft(LAMBDA result, found :
                 IF is_check_relevant(result, found.sources)
                      /\ Embeddings(found.pattern, graph, is_induced) = {}
                 THEN apply_prune(result, found.sources) ELSE result,
             [k \in DOMAIN library_cache |-> FALSE], library_cache)

\* The index gives the patterns, in the order of a hash map.
StartPatternFilter ==
    LET c == Head(session) IN
    /\ run = IdleRun /\ job = NoJob
    /\ session # <<>>
    /\ c.run = "pattern_filter"
    /\ session' = Tail(session)
    /\ verdicts' = <<>>
    /\ \E s \in DOMAIN store :
         /\ s.dir = c.input
         /\ DOMAIN store[s].index \subseteq DOMAIN store[s].patterns
         /\ \E order \in SetToSeqs(DOMAIN store[s].index),
               backgrounds \in SetToSeqs(DOMAIN Inputs[c.background]) :
              job' = [pc |-> "filter", command |-> c, backgrounds |-> backgrounds,
                      cache |-> [k \in DOMAIN order |->
                          Found(store[s].patterns[order[k]], store[s].index[order[k]])]]
    /\ UNCHANGED <<files, results, run, worker, store>>

\* The index or a pattern file is missing.
NoIndex ==
    LET c == Head(session) IN
    /\ run = IdleRun /\ job = NoJob
    /\ session # <<>>
    /\ c.run = "pattern_filter"
    /\ session' = Tail(session)
    /\ verdicts' = <<>>
    /\ \/ \A s \in DOMAIN store : s.dir = c.input => store[s].index = <<>>
       \/ \E s \in DOMAIN store : s.dir = c.input
                                  /\ ~(DOMAIN store[s].index \subseteq DOMAIN store[s].patterns)
    /\ UNCHANGED <<files, results, run, job, worker, store>>

FilterBackground ==
    /\ job.pc = "filter"
    /\ job.backgrounds # <<>>
    /\ verdicts' = Put(verdicts, Head(job.backgrounds),
           filter(job.cache, graph_of[Head(job.backgrounds)], job.command.is_induced))
    /\ job' = [job EXCEPT !.backgrounds = Tail(@)]
    /\ UNCHANGED <<enumerationVars, worker, store>>

-----------------------------------------------------------------------------

FinishPatternRun ==
    /\ \/ job.pc = "phase" /\ job.phases = <<>>
       \/ job.pc = "filter" /\ job.backgrounds = <<>>
    /\ job' = NoJob
    /\ UNCHANGED <<enumerationVars, worker, store, verdicts>>

\* An exception of the calling thread, a signal or a crash.
AbortPatternRun ==
    /\ job # NoJob
    /\ job' = NoJob
    /\ worker' = <<>>
    /\ UNCHANGED <<enumerationVars, store, verdicts>>

PatternInit == job = NoJob /\ worker = <<>> /\ store = <<>> /\ verdicts = <<>>

WorkerStep(t) == StartWorker(t) \/ Claim(t) \/ FindPattern(t) \/ WorkerFails(t)

PatternNext == StartPatternRun \/ Calculate \/ (\E t \in DOMAIN worker : WorkerStep(t))
                 \/ MergeResults \/ Rethrow \/ WritePattern \/ WriteIndex
                 \/ StartPatternFilter \/ NoIndex \/ FilterBackground
                 \/ FinishPatternRun \/ AbortPatternRun

-----------------------------------------------------------------------------
(* Properties.                                                             *)

\* The graphs of a library are written in colours of their files, or in consecutive
\* ones while they are searched; workers exist only then.
PatternTypeOK ==
    /\ job.pc \in {"idle", "phase", "search", "write", "filter"}
    /\ job.pc # "search" => worker = <<>>
    /\ job.pc \in {"phase", "search", "write"} =>
         /\ IsSuffix(job.phases, phases(job.command))
         /\ job.written \in 0 .. Len(job.outputs)
    /\ \A t \in DOMAIN worker :
         /\ worker[t].pc \in {"start", "claim", "work", "done", "failed"}
         /\ worker[t].pc = "work" => worker[t].claim \in 0 .. Claims - 1
    /\ \A b \in DOMAIN verdicts : verdicts[b] \in [DOMAIN verdicts[b] -> BOOLEAN]

\* Every search there is to make is made once, whatever the threads' interleaving.
SearchedOnce ==
    job.pc = "search" /\ AllJoined /\ NoneFailed =>
        \A c \in 0 .. Claims - 1 :
            Cardinality({turn \in (DOMAIN worker) \X (1 .. Claims) :
                            /\ turn[2] \in DOMAIN worker[turn[1]].searched
                            /\ worker[turn[1]].searched[turn[2]] = c})
              = IF Phase = "multi" \/ job.to_process[c + 1] THEN 1 ELSE 0

\* Between searches the library is the one that was read, colour by colour.
LibraryIsRestored ==
    job.pc \in {"phase", "write"} =>
        \A i \in DOMAIN job.names : job.library[i] = graph_of[job.names[i]]

\* A pattern file of an index that was written to its end holds a pattern, in the
\* colours of the library's files, that occurs in every graph its rows name.
IndexIsTrue ==
    \A s \in DOMAIN store : store[s].whole =>
        \A i \in DOMAIN store[s].index :
            /\ i \in DOMAIN store[s].patterns
            /\ \A k \in store[s].index[i] :
                 Embeddings(store[s].patterns[i], graph_of[store[s].library[k]], FALSE) # {}

\* PatternGraphFilter.h: "true = pruned", one flag per library graph, when none of
\* its patterns occurs in the background graph.
PrunesWhatIsAbsent ==
    job.pc = "filter" =>
        \A b \in DOMAIN verdicts : \A i \in UNION {f.sources : f \in ToSet(job.cache)} :
            (\A f \in ToSet(job.cache) : i \in f.sources =>
                Embeddings(f.pattern, graph_of[b], job.command.is_induced) = {})
              => i \in DOMAIN verdicts[b] /\ verdicts[b][i]
=============================================================================
