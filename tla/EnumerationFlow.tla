--------------------------- MODULE EnumerationFlow ---------------------------
(***************************************************************************)
(* FlowManager's runs over enumerations: enumerator_preprocess_run counts  *)
(* the groups of every graph of a library and keeps them in cache files,   *)
(* one per graph; enumerator_filter_run obtains those of the query graphs, *)
(* computed, from the files of an earlier run, or loaded whole, and tells  *)
(* which library graphs occur in none of them.                             *)
(*                                                                         *)
(* Runs follow one another over one file system.  A run may stop anywhere, *)
(* by an exception, a signal or a crash, and a file being written may be   *)
(* left incomplete: what a later run finds is what the earlier ones left.  *)
(*                                                                         *)
(* A file name is a stem and an extension; a stem is the sequence of its   *)
(* parts between underscores.                                              *)
(***************************************************************************)
EXTENDS GraphLibrary, MotifInclusion, KavoshGroups, PathGroups

CONSTANTS Inputs,    \* directory -> file name -> the graph read from it
          MaxBroken, \* how many files are left incomplete
          NoDir      \* an option that was not given

VARIABLES files,    \* the cache files: [dir, name, format] -> [counts, state]
          results,  \* the result files of the last command: <<query stem, kind>> -> library stem -> BOOLEAN
          run       \* the run in progress

enumerationVars == <<files, results, run, session>>

IdleRun == [pc |-> "idle"]

InputFiles == UNION {DOMAIN Inputs[d] : d \in DOMAIN Inputs}

\* A stem has a part, if an empty one.
ASSUME StemsAssumption == \A f \in InputFiles : f.stem \in Seq(STRING) /\ f.stem # <<>>

graph_of == [f \in InputFiles |-> LET d == CHOOSE d \in DOMAIN Inputs : f \in DOMAIN Inputs[d] IN Inputs[d][f]]

\* Colours are uint32_t.
ASSUME ColorsAssumption ==
    \A f \in InputFiles : \A v \in Vertices(graph_of[f]) : get_vertex_color(graph_of[f], v) \in Nat

-----------------------------------------------------------------------------
(* What is enumerated.                                                     *)

\* How many groups have each identifier.
CountsOf(identifiers) ==
    [id \in Range(identifiers) |-> Cardinality({x \in DOMAIN identifiers : identifiers[x] = id})]

RecordedPaths(g) == UNION {{root} \X stream_paths(g, root) : root \in Vertices(g)}

\* EnumerationPreprocessManager::preprocess_graph for either kind, whatever the
\* threads do (GroupEnumeration); a graph is named by the file it was read from.
preprocess_graph ==
    Table([kind \in {"path_cache", "motif_cache"} |-> [f \in InputFiles |->
        LET g == graph_of[f] IN
        IF kind = "motif_cache"
        THEN CountsOf([S \in MotifGroups(g) |-> motif_identifier(g, S)])
        ELSE CountsOf([r \in RecordedPaths(g) |-> PathNumber(g, r[1], r[2][2])])]])

-----------------------------------------------------------------------------
(* Cache files.                                                            *)

\* A count of ten digits loses up to nine of them.
PowersOfTen == {10, 100, 1000, 10000, 100000, 1000000, 10000000, 100000000, 1000000000}

\* What a broken write of a file leaves.  The binary reader expects the number of
\* entries its header gives and throws; the CSV reader takes the complete rows
\* and what digits there are of a last count, and throws on a row without any.
Broken(counts, format) ==
    LET rows(S)    == [counts |-> Restrict(counts, S), state |-> "broken"]
        cut(S, k, n) == [counts |-> [id \in S \cup {k} |-> IF id = k THEN n ELSE counts[id]],
                         state |-> "broken"]
        starts(n)  == {n \div tens : tens \in PowersOfTen} \ {0}
        others(k)  == SUBSET (DOMAIN counts \ {k}) IN
    {[counts |-> <<>>, state |-> "unreadable"]}
        \cup IF format = "csv"
             THEN {rows(S) : S \in (SUBSET DOMAIN counts) \ {DOMAIN counts}}
                    \cup UNION {UNION {{cut(S, k, n) : S \in others(k)} : n \in starts(counts[k])} :
                                  k \in DOMAIN counts}
             ELSE {}

File(dir, name, format) == [dir |-> dir, name |-> name, format |-> format]

\* ICacheIOManager::read: the file of that name and every one whose name goes on
\* after an underscore, each under the part of its name that follows.
MatchingFiles(dir, name, format) ==
    {f \in DOMAIN files : f.dir = dir /\ f.format = format /\ IsPrefix(name, f.name)}

graph_name(f, name) == IF f.name = name THEN name ELSE SubSeq(f.name, Len(name) + 1, Len(f.name))

AllReadable(matching) == \A f \in matching : files[f].state # "unreadable"

read(dir, name, format) ==
    LET matching == MatchingFiles(dir, name, format) IN
    [n \in {graph_name(f, name) : f \in matching} |->
        files[CHOOSE f \in matching : graph_name(f, name) = n].counts]

-----------------------------------------------------------------------------
(* The run in progress: what it was asked for; the kinds of enumeration it *)
(* still has to do, the first of them being done; m_graph_names and        *)
(* m_library, whose graphs are named by the files they were read from; the *)
(* enumerations of this kind so far; and one that waits to be written.     *)

Command == run.command
Kind    == Head(run.stages)

stages(c) == (IF c.paths THEN <<"path_cache">> ELSE <<>>)
               \o (IF c.motifs THEN <<"motif_cache">> ELSE <<>>)

\* The query enumerations of this kind are loaded, not computed.
load_dir(c, kind) ==
    IF c.run = "preprocess" THEN NoDir
    ELSE IF kind = "path_cache" THEN c.graphs_path_cache_dir ELSE c.graphs_motif_cache_dir

write_dir(c) == IF c.run = "preprocess" THEN c.output_path
                ELSE IF c.cache_enumeration THEN c.graph_cache_dir ELSE NoDir

library_dir(c, kind) == IF kind = "path_cache" THEN c.path_cache_dir ELSE c.motif_cache_dir

NeedsLibrary(c) ==
    \E kind \in ToSet(stages(c)) : load_dir(c, kind) = NoDir

\* A directory lists its files in any order.
load_library(c) ==
    IF NeedsLibrary(c) THEN SetToSeqs(DOMAIN Inputs[c.input]) ELSE {<<>>}

\* A directory that cannot be listed ends a run before it does anything; and the front
\* ends let no run cache what it loads (Arguments).
ASSUME EnumerationsAssumption ==
    \A s \in Sessions : \A c \in Commands(s) : c.run \in {"preprocess", "filter"} =>
        /\ NeedsLibrary(c) => c.input \in DOMAIN Inputs
        /\ write_dir(c) # NoDir => \A kind \in ToSet(stages(c)) : load_dir(c, kind) = NoDir

NextGraph == Len(run.enumeration) + 1

\* Mutant: both kinds of enumeration of a graph go by one name.
per_graph_cache_name_kindless(kind, file) == <<"motif_cache">> \o file.stem

per_graph_cache_name(kind, file) == <<kind>> \o file.stem

CacheFile(i) == File(write_dir(Command), per_graph_cache_name(Kind, run.names[i]), Command.format)

Computing == /\ run.pc = "graphs"
             /\ run.stages # <<>>
             /\ load_dir(Command, Kind) = NoDir
             /\ NextGraph <= Len(run.names)

Enumerated(counts) == [run EXCEPT !.pc = "graphs", !.enumeration = Append(@, counts)]

-----------------------------------------------------------------------------
(* Steps of a run.                                                         *)

\* Up to the first graph of the first kind.
StartRun ==
    LET c == Head(session) IN
    /\ run = IdleRun
    /\ session # <<>>
    /\ c.run \in {"preprocess", "filter"}
    /\ session' = Tail(session)
    /\ results' = <<>>
    /\ \E names \in load_library(c) :
         run' = [pc |-> "graphs", command |-> c, stages |-> stages(c), names |-> names,
                 library |-> names,
                 enumeration |-> <<>>, pending |-> <<>>]
    /\ UNCHANGED files

\* get_single_graph_enumeration finds a file of this name, and takes the first of
\* what read returns, in the order of a hash map.
CacheHit ==
    LET name     == per_graph_cache_name(Kind, run.names[NextGraph])
        matching == MatchingFiles(write_dir(Command), name, Command.format) IN
    /\ Computing
    /\ write_dir(Command) # NoDir
    /\ CacheFile(NextGraph) \in DOMAIN files
    /\ AllReadable(matching)
    /\ \E f \in matching : run' = Enumerated(files[f].counts)
    /\ UNCHANGED <<files, results, session>>

\* Past the end of the library, where a stage that loaded its graphs has left more
\* names than there are graphs, the access is undefined and no step is described.
Compute ==
    LET counts == preprocess_graph[Kind][run.library[NextGraph]] IN
    /\ Computing
    /\ NextGraph \in DOMAIN run.library
    /\ write_dir(Command) = NoDir \/ CacheFile(NextGraph) \notin DOMAIN files
    /\ run' = IF write_dir(Command) = NoDir THEN Enumerated(counts)
              ELSE [run EXCEPT !.pc = "write", !.pending = counts]
    /\ UNCHANGED <<files, results, session>>

WriteCache ==
    /\ run.pc = "write"
    /\ files' = Put(files, CacheFile(NextGraph), [counts |-> run.pending, state |-> "whole"])
    /\ run' = Enumerated(run.pending)
    /\ UNCHANGED <<results, session>>

\* The disk fills up or the process dies while the file is open.  A failure that
\* only shows when the stream is flushed by its destructor is not noticed.
WriteBreaks ==
    /\ run.pc = "write"
    /\ Cardinality({f \in DOMAIN files : files[f].state # "whole"}) < MaxBroken
    /\ \E content \in Broken(run.pending, Command.format) :
         files' = Put(files, CacheFile(NextGraph), content)
    /\ run' \in {IdleRun, Enumerated(run.pending)}
    /\ UNCHANGED <<results, session>>

\* Mutant: the graphs keep the names of before.
LoadEnumeration_unnamed ==
    LET dir    == load_dir(Command, Kind)
        loaded == read(dir, <<Kind>>, Command.format) IN
    /\ run.pc = "graphs"
    /\ run.stages # <<>>
    /\ dir # NoDir
    /\ AllReadable(MatchingFiles(dir, <<Kind>>, Command.format))
    /\ \E order \in SetToSeqs(DOMAIN loaded) :
         run' = [run EXCEPT !.pc = "filter",
                    !.enumeration = [i \in DOMAIN order |-> loaded[order[i]]]]
    /\ UNCHANGED <<files, results, session>>

\* Mutant: names and enumerations are taken in two walks of the map, in two orders.
LoadEnumeration_twice ==
    LET dir    == load_dir(Command, Kind)
        loaded == read(dir, <<Kind>>, Command.format) IN
    /\ run.pc = "graphs"
    /\ run.stages # <<>>
    /\ dir # NoDir
    /\ AllReadable(MatchingFiles(dir, <<Kind>>, Command.format))
    /\ \E order, other \in SetToSeqs(DOMAIN loaded) :
         run' = [run EXCEPT !.pc = "filter",
                    !.names = [i \in DOMAIN order |-> [stem |-> order[i], ext |-> ""]],
                    !.enumeration = [i \in DOMAIN other |-> loaded[other[i]]]]
    /\ UNCHANGED <<files, results, session>>

\* load_graph_enumeration: every file of the kind, in the order of a hash map.  The
\* names of the graphs are replaced, also for the kinds that follow.
LoadEnumeration ==
    LET dir    == load_dir(Command, Kind)
        loaded == read(dir, <<Kind>>, Command.format) IN
    /\ run.pc = "graphs"
    /\ run.stages # <<>>
    /\ dir # NoDir
    /\ AllReadable(MatchingFiles(dir, <<Kind>>, Command.format))
    /\ \E order \in SetToSeqs(DOMAIN loaded) :
         run' = [run EXCEPT !.pc = "filter",
                    !.names = [i \in DOMAIN order |-> [stem |-> order[i], ext |-> ""]],
                    !.enumeration = [i \in DOMAIN order |-> loaded[order[i]]]]
    /\ UNCHANGED <<files, results, session>>

\* Mutant: the kind that was done is done again.
EnumerationDone_again ==
    /\ run.pc = "graphs"
    /\ run.stages # <<>>
    /\ load_dir(Command, Kind) = NoDir
    /\ NextGraph > Len(run.names)
    /\ run' = IF Command.run = "preprocess"
              THEN [run EXCEPT !.enumeration = <<>>]
              ELSE [run EXCEPT !.pc = "filter"]
    /\ UNCHANGED <<files, results, session>>

\* Every graph of the library has its enumeration.
EnumerationDone ==
    /\ run.pc = "graphs"
    /\ run.stages # <<>>
    /\ load_dir(Command, Kind) = NoDir
    /\ NextGraph > Len(run.names)
    /\ run' = IF Command.run = "preprocess"
              THEN [run EXCEPT !.stages = Tail(@), !.enumeration = <<>>]
              ELSE [run EXCEPT !.pc = "filter"]
    /\ UNCHANGED <<files, results, session>>

\* The transformation of the query's counts: only motifs, and only if asked.
post_process(kind, counts) ==
    IF kind = "motif_cache" /\ Command.non_induced THEN expand(counts, Command.is_directed) ELSE counts

\* run_enumeration_filter_stage, for every query graph; a result file replaces one
\* of the same stem.
FilterStage ==
    LET dir     == library_dir(Command, Kind)
        library == read(dir, <<Kind>>, Command.format)
        last(s) == Max({i \in DOMAIN run.enumeration : run.names[i].stem = s})
        stems   == {run.names[i].stem : i \in DOMAIN run.enumeration}
        flags   == [r \in stems \X {Kind} |->
                      LET features == post_process(Kind, run.enumeration[last(r[1])]) IN
                      [l \in DOMAIN library |-> can_be_filtered(features, library[l])]] IN
    /\ run.pc = "filter"
    /\ AllReadable(MatchingFiles(dir, <<Kind>>, Command.format))
    /\ results' = [r \in DOMAIN results \cup DOMAIN flags |->
                      IF r \in DOMAIN flags THEN flags[r] ELSE results[r]]
    /\ run' = [run EXCEPT !.pc = "graphs", !.stages = Tail(@), !.enumeration = <<>>]
    /\ UNCHANGED <<files, session>>

Finish ==
    /\ run.pc = "graphs"
    /\ run.stages = <<>>
    /\ run' = IdleRun
    /\ UNCHANGED <<files, results, session>>

\* An exception (a calculation that overflows, a directory or a file that cannot
\* be read), a signal, or the end of the machine.
Abort ==
    /\ run # IdleRun
    /\ run' = IdleRun
    /\ UNCHANGED <<files, results, session>>

-----------------------------------------------------------------------------

EnumerationInit == files = <<>> /\ results = <<>> /\ run = IdleRun /\ session \in Sessions

RunStep == CacheHit \/ Compute \/ WriteCache \/ WriteBreaks \/ LoadEnumeration
             \/ EnumerationDone \/ FilterStage \/ Finish \/ Abort

EnumerationNext == StartRun \/ RunStep

EnumerationSpec == EnumerationInit /\ [][EnumerationNext]_enumerationVars

-----------------------------------------------------------------------------
(* Properties.                                                             *)

IsCounts(c) == c \in [DOMAIN c -> 0 .. COUNT_LIMIT - 1]

\* The names, graphs and enumerations of a run stay in step: there is a name for
\* every enumeration, and one for every graph that is to be computed.
EnumerationTypeOK ==
    /\ \A f \in DOMAIN files : IsCounts(files[f].counts)
                               /\ files[f].state \in {"whole", "broken", "unreadable"}
    /\ \A r \in DOMAIN results : results[r] \in [DOMAIN results[r] -> BOOLEAN]
    /\ \E s \in Sessions : IsSuffix(session, s)
    /\ run # IdleRun =>
         /\ run.pc \in {"graphs", "write", "filter"}
         /\ IsSuffix(run.stages, stages(Command))
         /\ Len(run.enumeration) <= Len(run.names)
         /\ \A i \in DOMAIN run.enumeration : IsCounts(run.enumeration[i])
         /\ run.pc = "write" => IsCounts(run.pending) /\ NextGraph <= Len(run.names)

FileNamed(stem) == CHOOSE f \in InputFiles : f.stem = stem

\* No file with the counts of this graph was left incomplete.
Intact(stem, kind) == \A f \in DOMAIN files : f.name = <<kind>> \o stem => files[f].state = "whole"

\* A complete cache file holds the counts of the graph it is named after, whatever
\* runs were stopped, resumed and repeated before; and a run that caches goes past
\* a graph only when it left a file for it, so one that ends normally leaves none out.
CachesAreRight ==
    /\ \A f \in DOMAIN files :
         files[f].state = "whole" => files[f].counts = preprocess_graph[Head(f.name)][FileNamed(Tail(f.name))]
    /\ run # IdleRun /\ run.stages # <<>> /\ load_dir(Command, Kind) = NoDir /\ write_dir(Command) # NoDir =>
         \A i \in DOMAIN run.enumeration : CacheFile(i) \in DOMAIN files

\* Does a library graph occur in a query graph?
Occurs == Table([induced \in BOOLEAN |->
          {e \in InputFiles \X InputFiles : Embeddings(graph_of[e[1]], graph_of[e[2]], induced) # {}}])

\* Filtering is safe: a library graph that occurs in a query graph (as an induced
\* subgraph, unless paths are compared or the motifs were expanded) is not
\* discarded, also when its own cache file is one that a crash cut short.
FilteringIsSafe ==
    run # IdleRun =>
        \A r \in DOMAIN results : Intact(r[1], r[2]) =>
            \A l \in DOMAIN results[r] : results[r][l] =>
                <<FileNamed(l), FileNamed(r[1])>>
                    \notin Occurs[r[2] = "motif_cache" /\ ~Command.non_induced]

\* GroupEnumerationGraphFilter.h: a library graph is discarded because "the query cannot
\* be isomorphic to that library graph"; so one is not that differs from the query in
\* the numbering of its vertices only.
IsomorphicGraphsSurvive ==
    run # IdleRun =>
        \A r \in DOMAIN results : Intact(r[1], r[2]) =>
            \A l \in DOMAIN results[r] : results[r][l] /\ Intact(l, r[2]) =>
                LET library == graph_of[FileNamed(l)]
                    query   == graph_of[FileNamed(r[1])] IN
                Cardinality(Vertices(library)) = Cardinality(Vertices(query))
                    => Embeddings(library, query, TRUE) = {}

\* The graphs that the runs of some sessions may count.
CountedFiles(sessions) ==
    UNION {DOMAIN Inputs[c.input] :
        c \in {c \in UNION {Commands(s) : s \in sessions} : c.run \in {"preprocess", "filter"} /\ NeedsLibrary(c)}}

\* A stem tells which graph a file holds, if not which directory it was read from.
StemsDiffer(sessions) ==
    \A f \in CountedFiles(sessions), g \in InputFiles : f.stem = g.stem => f = g

\* No name of a graph goes on where that of another ends.
StemsAreNoPrefixes(sessions) ==
    \A f, g \in CountedFiles(sessions) : IsPrefix(f.stem, g.stem) => f = g

\* A run that loads its paths and computes its motifs: these it computes for its graphs
\* in the order of the directory, under the names it has loaded.
MixesKinds(c) ==
    /\ c.run = "filter"
    /\ stages(c) = <<"path_cache", "motif_cache">>
    /\ load_dir(c, "path_cache") # NoDir
    /\ load_dir(c, "motif_cache") = NoDir

NothingIsMixed(sessions) == \A s \in sessions : \A c \in Commands(s) : ~MixesKinds(c)

\* The graphs of a session are all directed or none is, as every command says; the paths
\* of directed graphs are not compared, whose numbers go by those of the vertices.
DirectionsAgree(s) ==
    \E directed \in BOOLEAN :
        /\ \A f \in CountedFiles({s}) : graph_of[f].directed = directed
        /\ \A c \in Commands(s) : c.run \in {"preprocess", "filter"} =>
              c.is_directed = directed /\ (directed => ~c.paths)

\* The counts of no graph wrap when they are expanded.
ExpansionsFit(s) ==
    \A c \in Commands(s) : c.run = "filter" /\ c.motifs /\ c.non_induced =>
        \A f \in CountedFiles({s}) : ExpansionFits(preprocess_graph["motif_cache"][f], c.is_directed)

\* No count of any graph is too large to be kept.
CountsFit == \A kind \in {"path_cache", "motif_cache"}, f \in InputFiles : IsCounts(preprocess_graph[kind][f])

\* Caching changes no result: between intact files, the verdict on a query and a
\* library graph is the one their enumerations give, wherever these came from.
CachingIsTransparent ==
    run # IdleRun =>
        \A r \in DOMAIN results : Intact(r[1], r[2]) =>
            \A l \in DOMAIN results[r] : Intact(l, r[2]) =>
                LET fresh(stem) == preprocess_graph[r[2]][FileNamed(stem)] IN
                results[r][l] = can_be_filtered(post_process(r[2], fresh(r[1])), fresh(l))

\* FlowManager.h documents that a graph is answered from the cache if the cache has
\* a file for it: what a hit returns is what that file holds.
HitsAreOfTheGraph ==
    [][CacheHit => Last(run'.enumeration) = files[CacheFile(NextGraph)].counts]_enumerationVars
=============================================================================
