------------------------------- MODULE MCFlows -------------------------------
(* A small library, three directories of query graphs, and what is asked.  *)
EXTENDS Flows

\* An undirected graph from its colours, in vertex order, and half its edges.
U(colors, half) ==
    [color |-> [v \in 0 .. Len(colors) - 1 |-> colors[v + 1]],
     edges |-> half \cup {<<e[2], e[1]>> : e \in half}, directed |-> FALSE]

D(colors, arcs) ==
    [color |-> [v \in 0 .. Len(colors) - 1 |-> colors[v + 1]],
     edges |-> arcs, directed |-> TRUE]

\* A claw, and a walk along five vertices.
Claw == U(<<1, 1, 1, 1>>, {<<0, 1>>, <<0, 2>>, <<0, 3>>})
Walk == U(<<1, 2, 1, 1, 2>>, {<<0, 1>>, <<1, 2>>, <<2, 3>>, <<3, 4>>})
\* Ten claws; a ring that the walk goes around; a claw with one edge too many.
Star == U(<<1, 1, 1, 1, 1, 1>>, {<<0, 1>>, <<0, 2>>, <<0, 3>>, <<0, 4>>, <<0, 5>>})
Ring == U(<<1, 2, 1, 1, 2>>, {<<0, 1>>, <<1, 2>>, <<2, 3>>, <<3, 4>>, <<4, 0>>})
Paw  == U(<<1, 1, 1, 1>>, {<<0, 1>>, <<0, 2>>, <<0, 3>>, <<1, 2>>})
\* A directed row of four vertices; one with a 2-cycle.
Row  == D(<<1, 2, 1, 2>>, {<<0, 1>>, <<1, 2>>, <<2, 3>>})
Back == D(<<1, 2, 1, 2>>, {<<0, 1>>, <<1, 2>>, <<2, 3>>, <<2, 1>>})

\* A directed path with a turn at its middle, and the same with two vertices swapped.
Turn == D(<<1, 1, 1, 1, 1>>, {<<0, 1>>, <<0, 2>>, <<1, 3>>, <<4, 2>>})
Swap == D(<<1, 1, 1, 1, 1>>, {<<0, 2>>, <<0, 1>>, <<2, 3>>, <<4, 1>>})

\* Two graphs of three vertices, and two backgrounds: a path of both, and a stranger.
Cherry   == U(<<4, 7, 4>>, {<<0, 1>>, <<1, 2>>})
Triangle == U(<<7, 4, 9>>, {<<0, 1>>, <<1, 2>>, <<0, 2>>})
Meadow   == U(<<9, 4, 7, 4>>, {<<0, 1>>, <<1, 2>>, <<2, 3>>, <<0, 2>>})
Stranger == U(<<5, 5>>, {<<0, 1>>})

Json(stem) == [stem |-> stem, ext |-> "json"]

MCInputs ==
    [d \in {"library", "queries", "paws", "rows", "backs", "pair", "fields", "meadow", "versions",
           "turns", "swaps"} |->
        CASE d = "library" -> (Json(<<"claw">>) :> Claw) @@ (Json(<<"walk">>) :> Walk)
          [] d = "queries" -> (Json(<<"star">>) :> Star) @@ (Json(<<"ring">>) :> Ring)
          [] d = "paws"    -> Json(<<"paw">>) :> Paw
          [] d = "rows"    -> Json(<<"row">>) :> Row
          [] d = "backs"   -> Json(<<"back">>) :> Back
          [] d = "pair"    -> (Json(<<"cherry">>) :> Cherry) @@ (Json(<<"triangle">>) :> Triangle)
          [] d = "fields"  -> (Json(<<"meadow">>) :> Meadow) @@ (Json(<<"stranger">>) :> Stranger)
          [] d = "meadow"  -> Json(<<"meadow">>) :> Meadow
          [] d = "versions" -> (Json(<<"g">>) :> Claw) @@ (Json(<<"g", "2">>) :> Walk)
          [] d = "turns"   -> Json(<<"turn">>) :> Turn
          [] d = "swaps"   -> Json(<<"swap">>) :> Swap]

\* Options that are flags, if they are wanted.
Flags(wanted) == [option \in wanted |-> TRUE]

Preprocess(input, kinds, format, dir, directed) ==
    Head(sgf_graph_enumerator(
        Flags({"preprocess"} \cup kinds \cup (IF directed THEN {"is_directed"} ELSE {}))
          @@ [library_dir |-> input, cache_dir |-> dir, reader_type |-> "json", cache_type |-> format]))

Filter(input, kinds, format, dir, directed, non_induced, cache, load) ==
    Head(sgf_graph_enumerator(
        Flags({"filter"} \cup kinds \cup (IF directed THEN {"is_directed"} ELSE {})
                \cup (IF non_induced THEN {"non_induced"} ELSE {})
                \cup (IF cache # NoDir THEN {"cache_enumeration"} ELSE {}))
          @@ [graph_dir |-> input, graph_input_type |-> "json", cache_type |-> format,
              motif_cache_dir |-> dir, path_cache_dir |-> dir,
              result_folder |-> "results", result_type |-> "json"]
          @@ (IF cache # NoDir THEN [graph_cache_dir |-> cache] ELSE <<>>)
          @@ (IF load # NoDir THEN [load_motif_graph_cache_dir |-> load, load_path_graph_cache_dir |-> load]
              ELSE <<>>)))

Everything == {"paths", "motifs"}

PatternPreprocess(input, multi, single, from_results, background, threads, dir) ==
    Head(sgf_pattern_finder(
        Flags({"preprocess"} \cup (IF from_results THEN {"preprocess_single_graph_from_results"} ELSE {}))
          @@ [library_input_folder |-> input, reader_type |-> "json", preprocess_multigraph |-> multi,
              preprocess_single_graph |-> single, results_file_path |-> "results",
              background_graph_path |-> Json(<<background>>), thread_number |-> threads,
              output_folder |-> dir, pattern_output_type |-> "json"]))

PatternFilter(dir, background) ==
    Head(sgf_pattern_finder(
        Flags({"filter"})
          @@ [pattern_mapping_cache |-> dir, pattern_type |-> "json", reader_type |-> "json",
              background_graph_folder |-> background, output_path |-> "results", output_type |-> "csv",
              prior_policy |-> "combined"]))

\* Documents with labels A to E; one vertex of "queries" has none, and "arcs" is not
\* directed although it is asked for so.
A == <<"name", 1>>
B == <<"name", 2>>
C == <<"name", 3>>
\* The label A, a comma and the number 1; and with something else after the comma.
AOne == <<"comma", A, 1>>
AOther == <<"comma", A, NoColor>>
Between(a, b, c) == [source |-> a, target |-> b, color |-> c]

Labelled(labels, links) ==
    [nodes |-> [i \in DOMAIN labels |-> [id |-> i, color |-> labels[i]]], links |-> links, directed |-> FALSE]

Directed(document) == [document EXCEPT !.directed = TRUE]

MCDirectories ==
    [d \in {"abc", "queries", "more", "arcs", "ways", "list", "lists"} |->
        CASE d = "abc" -> ("a" :> Labelled(<<A, B>>, <<Between(1, 2, NoColor)>>))
                             @@ ("b" :> Labelled(<<B, C>>, <<Between(1, 2, NoColor)>>))
          [] d = "queries" -> ("q" :> Labelled(<<C, B>>, <<Between(1, 2, C)>>))
                                 @@ ("r" :> Labelled(<<NoColor, <<"name", 4>>>>, <<Between(1, 2, NoColor)>>))
          [] d = "more" -> "m" :> Labelled(<<<<"name", 5>>, NoColor, A>>, <<Between(1, 2, A), Between(1, 3, A)>>)
          [] d = "arcs" -> "a" :> Labelled(<<A, B>>, <<Between(1, 2, A)>>)
          [] d = "list" -> "l" :> Labelled(<<B, AOne>>, <<Between(1, 2, NoColor)>>)
          [] d = "lists" -> "l" :> Labelled(<<A, AOther>>, <<Between(1, 2, NoColor)>>)
          [] d = "ways" -> ("v" :> Directed(Labelled(<<A, A>>, <<Between(2, 1, B), Between(1, 2, C)>>)))
                              @@ ("w" :> Directed(Labelled(<<B, C>>, <<Between(1, 2, A), Between(2, 1, A)>>)))]

MCGivenMaps == <<"given", 1>> :> (B :> 0)

Load(dir, is_directed, color_map_path) ==
    [run |-> "load", dir |-> dir, is_directed |-> is_directed, color_map_path |-> color_map_path]

\* A map that is handed on, and handed on again, or from which two maps branch; a
\* library without a map; maps of directed files, and of labels with a comma; and a
\* library that is read as what it is not.
MCLoads ==
    {<<Load("abc", FALSE, <<"given", 1>>), Load("queries", FALSE, Stamped(2)), Load("more", FALSE, Stamped(1))>>,
     <<Load("abc", FALSE, <<"given", 1>>), Load("queries", FALSE, Stamped(2)), Load("more", FALSE, Stamped(2))>>,
     <<Load("abc", FALSE, NoPath), Load("queries", FALSE, Stamped(1))>>,
     <<Load("ways", TRUE, NoPath), Load("ways", FALSE, Stamped(1))>>,
     <<Load("list", FALSE, <<"given", 1>>), Load("list", FALSE, Stamped(1))>>,
     <<Load("lists", FALSE, <<"given", 1>>), Load("lists", FALSE, Stamped(1))>>,
     <<Load("arcs", TRUE, NoPath)>>}

\* The colors of a directed file are numbered by the sources of its edges.
ASSUME EdgesAreMetBySource ==
    LET document == MCDirectories["ways"]["v"] IN
    /\ Labels(document) = <<A, A, C, B>>
    /\ Labels([document EXCEPT !.directed = FALSE]) = <<A, A, B, C>>

\* A label with a comma is lost with the map that is saved: what is read gives its color
\* to another label, whatever color that has, or is refused.
ASSUME CommasAreLost ==
    /\ Saved((B :> 0) @@ (AOne :> 7)) = [color_map |-> (B :> 0) @@ (A :> 1), state |-> "altered"]
    /\ Saved((A :> 0) @@ (B :> 2) @@ (AOne :> 1)) = [color_map |-> (A :> 1) @@ (B :> 2), state |-> "altered"]
    /\ Saved((A :> 0) @@ (AOther :> 1)) = Unreadable
    /\ Saved((A :> 0) @@ (B :> 1)) = [color_map |-> (A :> 0) @@ (B :> 1), state |-> "whole"]

\* Preprocessing that is repeated when it was stopped, filtering that caches, and
\* filtering from that cache; binary files, and motifs that need not be induced;
\* directed graphs.
MCSessions ==
    {<<Preprocess("library", Everything, "csv", "cache", FALSE),
       Preprocess("library", Everything, "csv", "cache", FALSE),
       Filter("queries", Everything, "csv", "cache", FALSE, FALSE, "graphs", NoDir),
       Filter("queries", {"motifs"}, "csv", "cache", FALSE, TRUE, NoDir, "graphs")>>,
     <<Preprocess("library", {"motifs"}, "binary", "cache", FALSE),
       Preprocess("library", {"motifs"}, "binary", "cache", FALSE),
       Filter("paws", {"motifs"}, "binary", "cache", FALSE, TRUE, "graphs", NoDir),
       Filter("paws", {"motifs"}, "binary", "cache", FALSE, TRUE, "graphs", NoDir)>>,
     <<Preprocess("rows", {"motifs"}, "csv", "rows", TRUE),
       Filter("backs", {"motifs"}, "csv", "rows", TRUE, TRUE, "rows", NoDir),
       Filter("backs", {"motifs"}, "csv", "rows", TRUE, FALSE, NoDir, "rows")>>,
     <<Preprocess("pair", {"paths"}, "csv", "pairs", FALSE),
       Filter("meadow", {"paths"}, "csv", "pairs", FALSE, FALSE, NoDir, NoDir),
       PatternPreprocess("pair", 0, -1, TRUE, "meadow", 2, "patterns")>>,
     <<PatternPreprocess("pair", 2, 1, FALSE, "meadow", 2, "patterns"),
       PatternFilter("patterns", "fields")>>}
        \cup MCLoads

\* What the theorems about caches ask of names and runs.
ASSUME SessionsAreOrdinary ==
    StemsDiffer(MCSessions) /\ StemsAreNoPrefixes(MCSessions) /\ NothingIsMixed(MCSessions)

\* What the theorem about filtering asks of graphs and counts besides.
ASSUME SessionsAgree == \A s \in MCSessions : DirectionsAgree(s) /\ ExpansionsFit(s)

\* What the theorem about types asks of counts.
ASSUME CountsAreKept == CountsFit

Repeated == <<Preprocess("versions", {"motifs"}, "csv", "cache", FALSE),
              Preprocess("versions", {"motifs"}, "csv", "cache", FALSE)>>

-----------------------------------------------------------------------------
(* Documents of vertices in any order and with gaps in their ids, with one *)
(* link or two, of one color, of two or without one; and graphs to write.  *)

Node(id, color) == [id |-> id, color |-> color]

SampleNodes == {<<Node(0, 1)>>, <<Node(2, 1), Node(0, 2)>>, <<Node(0, 1), Node(0, 2)>>, <<Node(-1, 1)>>,
                <<Node(1, NoColor)>>, <<Node(3, 2), Node(0, 1), Node(2, 1)>>}

\* Ids and colors that do not fit in 32 bits: one id alone, one beside the id it is cast to.
WideNodes == {<<Node(16, 1)>>, <<Node(16, 1), Node(0, 2)>>, <<Node(2, 1), Node(16, 2)>>,
              <<Node(0, -1), Node(2, 1)>>, <<Node(0, 17), Node(2, 1)>>}

SampleLinks == {Between(a, b, c) : a \in {0, 2}, b \in {0, 2, 3}, c \in {NoColor, 1, 2}}

\* Ends that are cast to 0 and 2, and colors below and above those of 32 bits.
WideLinks == {Between(16, 2, NoColor), Between(-14, 0, 1), Between(0, 18, 1), Between(0, 2, -1),
              Between(0, 2, 17), Between(0, 2, 1), Between(2, 0, 15)}

UpToTwo(links) == UNION {[1 .. k -> links] : k \in 0 .. 2}

SampleDocuments ==
    {[nodes |-> n, links |-> l] : n \in SampleNodes \cup WideNodes, l \in UpToTwo(SampleLinks) \cup UpToTwo(WideLinks)}

\* What a test of the range of ids leaves: no negative ones, and none too large in JSON.
IdsAreTested(doc, directed) ==
    \A id \in Ids(doc) :
        /\ id < 0 => read_vertex_edge(doc, directed) = Rejected
        /\ id \notin 0 .. MAX_UINT32 => read_json(doc, directed) = Rejected

SampleGraphs ==
    {IF directed THEN D(colors, arcs) ELSE U(colors, arcs) :
        colors \in {<<1, 1, 1>>, <<1, 2, 1>>, <<2, 2, 1>>}, directed \in BOOLEAN,
        arcs \in SUBSET {<<0, 1>>, <<1, 2>>, <<2, 0>>, <<1, 0>>}}

SamplesAreRead ==
    /\ \A doc \in SampleDocuments, directed \in BOOLEAN :
          /\ ReadsAs(read_json(doc, directed), doc, directed)
          /\ ReadsAs(read_vertex_edge(doc, directed), doc, directed)
          /\ IdsAreTested(doc, directed)
    /\ \A graph \in SampleGraphs : ReadsBack(graph)

\* What does not fit is not refused: an id of 16 is vertex 0 in a vertex-edge file, an
\* end of 16 is the vertex 0 in JSON, and a color of -1 is the largest.
ASSUME NumbersWrap ==
    /\ read_vertex_edge([nodes |-> <<Node(16, 1)>>, links |-> <<Between(0, 0, NoColor)>>], FALSE).m_colors = (0 :> 1)
    /\ row_range(read_json([nodes |-> <<Node(0, 1), Node(2, 1)>>, links |-> <<Between(16, 2, NoColor)>>], FALSE),
                 0, FALSE) = <<1>>
    /\ read_json([nodes |-> <<Node(0, -1)>>, links |-> <<>>], FALSE).m_colors = (0 :> MAX_UINT32)

\* Of documents whose numbers fit in 32 bits, the readers of numbered documents reject
\* those that describe no graph, and of the others make the graph they describe: the
\* compressed rows of each vertex hold its neighbours, in either direction, once and
\* with the colors of their edges, also behind vertices that have none.  Of a document
\* with numbers that do not fit they make nothing, or the graph it describes modulo
\* 2^32, where a line's color that does not fit may be none; and they refuse negative
\* ids, and JsonGraphReader also too large ones.  What the pattern writers write, of
\* the samples and of every pattern that a search has left in its files, the readers
\* read as the pattern that was written.
FilesAreReadAsWritten ==
    /\ SamplesAreRead
    /\ \A s \in DOMAIN store : \A i \in DOMAIN store[s].patterns : ReadsBack(store[s].patterns[i])

-----------------------------------------------------------------------------
(* Cache files: keys whose words and decimal digits carry and borrow, as   *)
(* many entries as make a header longer, and files cut off anywhere.       *)

Listed(S) == FoldSet(LAMBDA x, s : Append(s, x), <<>>, S)

SampleKeys == Listed({0, 1, 65535} \X {0, 9, 10, 255, 256, 65535})

SampleEntries(n) ==
    [i \in 1 .. n |-> [key |-> UInt(SampleKeys[i][1], SampleKeys[i][2]), count |-> 4 * i * i]]

Entries(counts) ==
    LET ids == Listed(DOMAIN counts) IN
    [i \in DOMAIN ids |-> [key |-> UInt(i % 3, 9973 * i), count |-> counts[ids[i]]]]

Whole(entries) == [k \in {entries[i].key : i \in DOMAIN entries} |->
                     (CHOOSE e \in ToSet(entries) : e.key = k).count]

FormatsReadBack(entries) ==
    \A format \in {"csv", "binary"} : read_from_file(format, write_to_file(format, entries)) = Whole(entries)

\* A file that was cut off is read as one of those that Broken leaves, or whole.
CutFilesAreBroken(entries) ==
    \A format \in {"csv", "binary"} :
        LET content == write_to_file(format, entries) IN
        \A n \in 0 .. Len(content) - 1 :
            LET counts == read_from_file(format, SubSeq(content, 1, n)) IN
            \/ counts = Malformed
            \/ format = "csv" /\ counts \in {Whole(entries)} \cup {c.counts : c \in Broken(Whole(entries), format)}

SampleSizes == {0, 1, 15, 16, 255, 256, 65535, 65536, 1000000}

SamplesReadBack ==
    /\ \A n \in {0, 1, 2, 15, 16, 18} : FormatsReadBack(SampleEntries(n))
    /\ \A n \in {0, 1, 3} : CutFilesAreBroken(SampleEntries(n))
    /\ \A size \in SampleSizes : read_map_header(write_map_header(size)) = size

\* Names of graphs, some the beginning of others, with their flags.
SampleNames == <<<<20>>, <<20, 21>>, <<20, 1>>, <<21, 20, 20>>>>

AllFlags == [DOMAIN SampleNames -> BOOLEAN]

Flagged(names, flags) == [n \in ToSet(names) |-> flags[CHOOSE i \in DOMAIN names : names[i] = n]]

SampleIndex == [i \in 1 .. 3 |-> [pattern |-> SampleNames[i], indices |-> SubSeq(<<0, 7, 12>>, 1, i)]]

Indexed(entries) == [p \in {entries[i].pattern : i \in DOMAIN entries} |->
                       UNION {ToSet(entries[i].indices) : i \in {i \in DOMAIN entries : entries[i].pattern = p}}]

\* The names of a run's graphs are numbered; whether a graph was discarded.
ResultsReadBack(flagged) ==
    LET graphs == Listed(DOMAIN flagged)
        names  == [i \in DOMAIN graphs |-> SampleNames[i]]
        flags  == [i \in DOMAIN graphs |-> flagged[graphs[i]]] IN
    read_results_csv(write_results_csv(names, flags)) = Flagged(names, flags)

\* Of what was cut off, the rows before the cut or nothing; of an index, also a row
\* whose number lost its last digits.
CutResultsAreParts(names, flags) ==
    LET content == write_results_csv(names, flags) IN
    \A n \in 0 .. Len(content) - 1 :
        LET taken == read_results_csv(SubSeq(content, 1, n)) IN
        taken = Malformed \/ taken = Restrict(Flagged(names, flags), DOMAIN taken)

CutIndexesAreParts(entries) ==
    LET content == write_mapping(entries)
        whole   == Indexed(entries) IN
    \A n \in 0 .. Len(content) - 1 :
        LET taken == read_mapping(SubSeq(content, 1, n)) IN
        \/ taken = Malformed
        \/ /\ DOMAIN taken \subseteq DOMAIN whole
           /\ \A p \in DOMAIN taken : \A k \in taken[p] : \E l \in whole[p] : k \in {l, l \div 10}

ResultSamplesReadBack ==
    /\ \A flags \in AllFlags :
          /\ read_results_csv(write_results_csv(SampleNames, flags)) = Flagged(SampleNames, flags)
          /\ parse_json_file(build_json_object(SampleNames, flags), TRUE) = Flagged(SampleNames, flags)
          /\ CutResultsAreParts(SampleNames, flags)
    /\ read_mapping(write_mapping(SampleIndex)) = Indexed(SampleIndex)
    /\ CutIndexesAreParts(SampleIndex)

\* What a cache file holds is what was counted, in either format, however many
\* entries it has and however large their identifiers are: the samples, and every
\* whole file of a run, under any identifiers.  Of a file that was cut off a reader
\* takes rows that were written whole and at most one count that lost its last
\* digits, or it throws.  So it is with the files of filter results, in which every
\* graph has the flag it got, and with the index of the patterns.
FilesReadBack ==
    /\ SamplesReadBack
    /\ ResultSamplesReadBack
    /\ \A f \in DOMAIN files : files[f].state = "whole" => FormatsReadBack(Entries(files[f].counts))
    /\ \A r \in DOMAIN results : ResultsReadBack(results[r])

-----------------------------------------------------------------------------
(* Arguments: the options a mode must have, all of them or all but one,    *)
(* with any choice of those that are at issue; and calls of the API.       *)

AllButOne(needed) == {needed} \cup {needed \ {option} : option \in needed}

\* The arguments with these options, and their values.
OptionChoices(options, values) == {[option \in given |-> values[option]] : given \in options}

With(samples, numbers) == {n @@ a : n \in numbers, a \in samples}

EnumeratorSamples ==
    LET needed == {"library_dir", "cache_dir", "reader_type", "cache_type", "graph_dir",
                   "graph_input_type", "result_folder", "result_type"}
        chosen == {"preprocess", "filter", "motifs", "paths", "motif_cache_dir", "path_cache_dir",
                   "cache_enumeration", "graph_cache_dir", "load_motif_graph_cache_dir",
                   "load_path_graph_cache_dir"}
        values == [library_dir |-> "in", cache_dir |-> "out", reader_type |-> "json", cache_type |-> "csv",
                   graph_dir |-> "in", graph_input_type |-> "graphml", result_folder |-> "out",
                   result_type |-> "csv", motif_cache_dir |-> "m", path_cache_dir |-> "p",
                   graph_cache_dir |-> "g", load_motif_graph_cache_dir |-> "lm",
                   load_path_graph_cache_dir |-> "lp"]
                     @@ Flags({"preprocess", "filter", "motifs", "paths", "cache_enumeration"}) IN
    OptionChoices({n \cup c : n \in AllButOne(needed), c \in SUBSET chosen}, values)
      \cup With(OptionChoices({needed \cup {"preprocess", "motifs"}}, values), {[thread_number |-> n] : n \in {0, 1, 16}})

FinderSamples ==
    LET needed == {"library_input_folder", "output_folder", "pattern_output_type", "reader_type",
                   "pattern_mapping_cache", "pattern_type", "background_graph_folder", "output_path",
                   "output_type", "prior_policy"}
        chosen == {"preprocess", "filter", "preprocess_single_graph_from_results", "results_file_path",
                   "background_graph_path"}
        values == [library_input_folder |-> "in", output_folder |-> "out", pattern_output_type |-> "json",
                   reader_type |-> "vertex-edge", pattern_mapping_cache |-> "p", pattern_type |-> "json",
                   background_graph_folder |-> "b", output_path |-> "out", output_type |-> "csv",
                   prior_policy |-> "constant", results_file_path |-> "r", background_graph_path |-> "bg"]
                     @@ Flags({"preprocess", "filter", "preprocess_single_graph_from_results"}) IN
    With(OptionChoices({n \cup c : n \in AllButOne(needed), c \in SUBSET chosen}, values),
         {[preprocess_single_graph |-> k, thread_number |-> t] : k \in {-1, 0}, t \in {0, 2}}
           \cup {[preprocess_multigraph |-> k, multigraph_alive_percent |-> p] : k \in {0, 2}, p \in {0, 50, 101}})

SearcherSamples ==
    LET values == [subgraph_path |-> "s", background_path |-> "b", reader_type |-> "json",
                   prior_policy |-> "random", output_path |-> "out"] IN
    OptionChoices(SUBSET DOMAIN values, values)

LibraryCalls == EnumerateLibraryParams({NoDir, "in"}, {NoDir, "out"}, {0, 1})

\* A configuration that does nothing, and one that loads.
CacheConfigs ==
    {c \in GraphEnumerationCacheConfig({NoDir, "g"}) :
        ~c.cache_enumeration /\ c.graph_cache_dir = NoDir /\ c.graphs_path_cache_dir = NoDir}

FilterCalls == FilterWithEnumerationParams({NoDir, "in"}, {"out"}, {NoDir, "c"}, CacheConfigs, {0, 1})

PatternCalls ==
    PreprocessPatternsParams({NoDir, "in"}, {"out"}, {NoDir, "r"}, {NoDir, "b"}, {0, 1})

PatternFilterCalls == FilterWithPatternsParams({NoDir, "in"}, {NoDir, "b"}, {NoDir, "out"})

SubgraphCalls == FindSubgraphParams({NoDir, "s"}, {NoDir, "b"}, {"out"})

CommandsOf(calls) == UNION {ToSet(c) : c \in calls} \ {Rejected}

AcceptedCommands ==
    CommandsOf({sgf_graph_enumerator(a) : a \in EnumeratorSamples} \cup {sgf_graph_searcher(a) : a \in SearcherSamples}
                 \cup {enumerate_library(p) : p \in LibraryCalls} \cup {filter_with_enumeration(p) : p \in FilterCalls}
                 \cup {preprocess_patterns(p) : p \in PatternCalls}
                 \cup {filter_with_patterns(p) : p \in PatternFilterCalls}
                 \cup {find_subgraph(p) : p \in SubgraphCalls})

ArgumentsSuffice ==
    /\ \A c \in AcceptedCommands : Suffices(c)
    /\ \A c \in CommandsOf({sgf_pattern_finder(a) : a \in FinderSamples}) :
          Suffices(c) \/ (WorkIsThere(c) /\ c.results_file /\ Missing(c) = {"background"})

\* What the front ends accept, a run can work with: no run is called without a path
\* that it reads, for work that is divided among no threads or with nothing to do, or
\* to cache what it loads.  sgf-pattern-finder is the exception the source makes: it
\* accepts results of an earlier run without a background graph, which SgfApi does
\* not.  The cache configuration of SgfApi and the output path of find_subgraph, which
\* nothing checks, are taken to be usable: one that loads or does nothing, and not
\* empty.  What is left of a session is such calls, too.
AcceptedArgumentsSuffice ==
    /\ ArgumentsSuffice
    /\ \A i \in DOMAIN session : Suffices(session[i])

-----------------------------------------------------------------------------

CacheHitSessions == {Repeated}
RenumberedSessions == {<<Preprocess("turns", {"paths"}, "csv", "cache", TRUE),
                         Filter("swaps", {"paths"}, "csv", "cache", TRUE, FALSE, NoDir, NoDir)>>}
NeverPrunedSessions == {<<PatternPreprocess("pair", 1, -1, FALSE, "meadow", 1, "patterns"),
                          PatternFilter("patterns", "fields")>>}
=============================================================================
