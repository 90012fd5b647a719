------------------------------- MODULE Arguments -------------------------------
(***************************************************************************)
(* The front ends: the command lines of sgf-graph-enumerator,              *)
(* sgf-pattern-finder and sgf-graph-searcher, and the functions of SgfApi. *)
(* Each takes options and runs nothing, or refuses them, or calls one of   *)
(* FlowManager's runs, or two of them in turn.                             *)
(*                                                                         *)
(* The options of a command line are a record of those that were given;    *)
(* the fields of an API call may hold an empty string (NoDir) and, the     *)
(* optional ones, nothing (NotGiven).  Numbers that do not parse are taken *)
(* with those that do not fit, and fractions are percentages.              *)
(***************************************************************************)
EXTENDS PatternFlow

CONSTANT NotGiven

Given(args, option) == option \in DOMAIN args

get_optional_string(args, option) == IF Given(args, option) THEN args[option] ELSE NoDir

Or(args, option, default) == IF Given(args, option) THEN args[option] ELSE default

\* Calls of FlowManager, or the exception of the parser.
Runs(ok, commands) == IF ok THEN commands ELSE <<Rejected>>

ReaderTypes == {"graphml", "json", "vertex-edge"}
CacheTypes  == {"binary", "csv"}
ResultTypes == {"json", "csv"}
PriorPolicies == {"subgraph-degree-squared", "graph-degree-squared", "constant", "random",
                  "subgraph-degree", "combined"}

fits_uint32(number) == number \in 0 .. MAX_UINT32

\* The default is 10 threads.
HasThreads(args) == fits_uint32(Or(args, "thread_number", 10)) /\ Or(args, "thread_number", 10) # 0

ShowsHelp(args) == DOMAIN args = {} \/ Given(args, "help")

-----------------------------------------------------------------------------
(* sgf-graph-enumerator.                                                   *)

EnumeratorOptions ==
    {"help", "preprocess", "filter", "motifs", "paths", "is_directed", "non_induced", "gpu", "thread_number",
     "cache_type", "log_file_path", "graphml_color_map_path", "library_dir", "reader_type", "cache_dir",
     "graph_dir", "graph_input_type", "result_folder", "result_type", "motif_cache_dir", "path_cache_dir",
     "cache_enumeration", "graph_cache_dir", "load_motif_graph_cache_dir", "load_path_graph_cache_dir"}

parse_preprocess_args(args) ==
    /\ \A option \in {"library_dir", "cache_dir", "reader_type", "cache_type"} : Given(args, option)
    /\ args.reader_type \in ReaderTypes
    /\ args.cache_type \in CacheTypes

parse_filter_args(args) ==
    /\ \A option \in {"cache_type", "graph_dir", "graph_input_type", "result_folder", "result_type"} :
          Given(args, option)
    /\ args.cache_type \in CacheTypes
    /\ args.graph_input_type \in ReaderTypes
    /\ args.result_type \in ResultTypes

validate_mode_selection(args) == Given(args, "preprocess") # Given(args, "filter")

validate_feature_selection(args) == Given(args, "motifs") \/ Given(args, "paths")

validate_cache_enumeration_flags(args) ==
    Given(args, "cache_enumeration") =>
        /\ Given(args, "graph_cache_dir")
        /\ ~Given(args, "load_motif_graph_cache_dir")
        /\ ~Given(args, "load_path_graph_cache_dir")

\* Mutant: one cache directory is enough.
validate_filter_args_either(args) ==
    /\ Given(args, "motif_cache_dir") \/ Given(args, "path_cache_dir")
    /\ validate_cache_enumeration_flags(args)

validate_filter_args(args) ==
    /\ Given(args, "motifs") => Given(args, "motif_cache_dir")
    /\ Given(args, "paths") => Given(args, "path_cache_dir")
    /\ validate_cache_enumeration_flags(args)

run_preprocess(args) ==
    [run |-> "preprocess", input |-> args.library_dir, is_directed |-> Given(args, "is_directed"),
     paths |-> Given(args, "paths"), motifs |-> Given(args, "motifs"), format |-> args.cache_type,
     output_path |-> args.cache_dir, threads |-> Or(args, "thread_number", 10)]

run_filter(args) ==
    [run |-> "filter", input |-> args.graph_dir, is_directed |-> Given(args, "is_directed"),
     paths |-> Given(args, "paths"), motifs |-> Given(args, "motifs"), format |-> args.cache_type,
     motif_cache_dir |-> get_optional_string(args, "motif_cache_dir"),
     path_cache_dir |-> get_optional_string(args, "path_cache_dir"),
     output_path |-> args.result_folder, non_induced |-> Given(args, "non_induced"),
     cache_enumeration |-> Given(args, "cache_enumeration"),
     graph_cache_dir |-> get_optional_string(args, "graph_cache_dir"),
     graphs_motif_cache_dir |-> get_optional_string(args, "load_motif_graph_cache_dir"),
     graphs_path_cache_dir |-> get_optional_string(args, "load_path_graph_cache_dir"),
     threads |-> Or(args, "thread_number", 10)]

sgf_graph_enumerator(args) ==
    IF DOMAIN args \subseteq EnumeratorOptions /\ ShowsHelp(args) THEN <<>>
    ELSE Runs(/\ DOMAIN args \subseteq EnumeratorOptions
              /\ HasThreads(args)
              /\ Given(args, "preprocess") => parse_preprocess_args(args)
              /\ Given(args, "filter") => parse_filter_args(args)
              /\ validate_mode_selection(args)
              /\ validate_feature_selection(args)
              /\ Given(args, "filter") => validate_filter_args(args),
              <<IF Given(args, "preprocess") THEN run_preprocess(args) ELSE run_filter(args)>>)

-----------------------------------------------------------------------------
(* sgf-pattern-finder, which can do both of its runs.                      *)

FinderOptions ==
    {"help", "preprocess", "filter", "is_directed", "reader_type", "thread_number", "log_file_path",
     "library_input_folder", "output_folder", "pattern_output_type", "preprocess_single_graph_from_results",
     "results_file_path", "results_file_type", "preprocess_single_graph", "background_graph_path",
     "score_threshold", "preprocess_multigraph", "multigraph_alive_percent", "graphml_color_map_path",
     "pattern_mapping_cache", "pattern_type", "background_graph_folder", "output_path", "output_type",
     "prior_policy", "is_induced", "max_active_patterns", "alpha_0", "alpha_decay"}

parse_pattern_preprocess_args(args) ==
    /\ \A option \in {"library_input_folder", "output_folder", "pattern_output_type"} : Given(args, option)
    /\ args.pattern_output_type \in ReaderTypes
    /\ Or(args, "results_file_type", "json") \in ResultTypes
    /\ fits_uint32(Or(args, "preprocess_multigraph", 0))
    /\ fits_uint32(Or(args, "max_active_patterns", 0))

parse_pattern_filter_args(args) ==
    /\ \A option \in {"pattern_mapping_cache", "pattern_type", "background_graph_folder", "output_path",
                      "output_type", "prior_policy"} : Given(args, option)
    /\ args.pattern_type \in ReaderTypes
    /\ args.output_type \in ResultTypes
    /\ args.prior_policy \in PriorPolicies

AlivePercent(percent) == percent > 0 /\ percent <= 100

validate_preprocess_args(args) ==
    /\ Given(args, "preprocess_single_graph_from_results") => Given(args, "results_file_path")
    /\ Or(args, "preprocess_single_graph", -1) # -1 => Given(args, "background_graph_path")
    /\ Or(args, "preprocess_multigraph", 0) > 0 => AlivePercent(Or(args, "multigraph_alive_percent", 50))

run_pattern_preprocess(args) ==
    [run |-> "pattern_preprocess", input |-> args.library_input_folder, output_path |-> args.output_folder,
     preprocess_multigraph |-> Or(args, "preprocess_multigraph", 0),
     alive_percent |-> Or(args, "multigraph_alive_percent", 50),
     preprocess_singlegraph |-> Or(args, "preprocess_single_graph", -1),
     results_file |-> Given(args, "preprocess_single_graph_from_results"),
     results_file_path |-> get_optional_string(args, "results_file_path"),
     background |-> get_optional_string(args, "background_graph_path"),
     threads |-> Or(args, "thread_number", 10)]

run_pattern_filter(args) ==
    [run |-> "pattern_filter", input |-> args.pattern_mapping_cache, output_path |-> args.output_path,
     background |-> args.background_graph_folder, is_induced |-> Given(args, "is_induced")]

sgf_pattern_finder(args) ==
    IF DOMAIN args \subseteq FinderOptions /\ ShowsHelp(args) THEN <<>>
    ELSE Runs(/\ DOMAIN args \subseteq FinderOptions
              /\ Given(args, "reader_type") /\ args.reader_type \in ReaderTypes
              /\ HasThreads(args)
              /\ Given(args, "preprocess") \/ Given(args, "filter")
              /\ Given(args, "preprocess") => parse_pattern_preprocess_args(args) /\ validate_preprocess_args(args)
              /\ Given(args, "filter") => parse_pattern_filter_args(args),
              (IF Given(args, "preprocess") THEN <<run_pattern_preprocess(args)>> ELSE <<>>)
                  \o (IF Given(args, "filter") THEN <<run_pattern_filter(args)>> ELSE <<>>))

-----------------------------------------------------------------------------
(* sgf-graph-searcher.                                                     *)

SearcherOptions == {"help", "subgraph_path", "background_path", "reader_type", "directed", "induced",
                    "prior_policy", "stop_on_first_match", "output_path", "log_file_path"}

run_searcher(args) ==
    [run |-> "search", subgraph |-> args.subgraph_path, background |-> args.background_path,
     is_output |-> Given(args, "output_path"), output_path |-> get_optional_string(args, "output_path"),
     is_induced |-> Given(args, "induced"), stop_on_first_match |-> Given(args, "stop_on_first_match")]

sgf_graph_searcher(args) ==
    IF DOMAIN args \subseteq SearcherOptions /\ ShowsHelp(args) THEN <<>>
    ELSE Runs(/\ DOMAIN args \subseteq SearcherOptions
              /\ \A option \in {"subgraph_path", "background_path", "reader_type", "prior_policy"} : Given(args, option)
              /\ args.reader_type \in ReaderTypes
              /\ args.prior_policy \in PriorPolicies,
              <<run_searcher(args)>>)

-----------------------------------------------------------------------------
(* SgfApi.                                                                 *)

\* The fields of the parameters that the checks and the runs read, with their paths
\* and numbers from given sets; optional paths may be absent.
EnumerateLibraryParams(inputs, outputs, numbers) ==
    [library_path : inputs, output_path : outputs, is_directed : BOOLEAN, motifs : BOOLEAN,
     paths : BOOLEAN, format : CacheTypes, threads : numbers]

GraphEnumerationCacheConfig(dirs) ==
    [cache_enumeration : BOOLEAN, graph_cache_dir : dirs,
     graphs_motif_cache_dir : dirs, graphs_path_cache_dir : dirs]

FilterWithEnumerationParams(inputs, outputs, caches, configs, numbers) ==
    [query_graph_path : inputs, output_folder : outputs, is_directed : BOOLEAN, motifs : BOOLEAN,
     paths : BOOLEAN, motif_cache_dir : caches \cup {NotGiven}, path_cache_dir : caches \cup {NotGiven},
     format : CacheTypes, non_induced : BOOLEAN, threads : numbers, cache_config : configs]

PreprocessPatternsParams(inputs, outputs, results_files, backgrounds, numbers) ==
    [library_path : inputs, output_path : outputs, threads : numbers,
     single_graph_index : numbers \cup {NotGiven}, results_file_path : results_files \cup {NotGiven},
     background_graph_path : backgrounds \cup {NotGiven}, preprocess_multigraph : numbers,
     alive_percent : {0, 50, 101}]

FilterWithPatternsParams(inputs, backgrounds, outputs) ==
    [pattern_cache_path : inputs, background_graph_folder : backgrounds, output_path : outputs,
     is_induced : BOOLEAN]

FindSubgraphParams(inputs, backgrounds, outputs) ==
    [subgraph_path : inputs, background_path : backgrounds, output_path : outputs \cup {NotGiven},
     is_induced : BOOLEAN, stop_on_first_match : BOOLEAN]

optional_or_empty(value) == IF value = NotGiven THEN NoDir ELSE value

require_cache_file(enabled, value) == enabled => value \notin {NotGiven, NoDir}

enumerate_library(params) ==
    Runs(/\ NoDir \notin {params.library_path, params.output_path}
         /\ params.motifs \/ params.paths
         /\ params.threads # 0,
         <<[run |-> "preprocess", input |-> params.library_path, is_directed |-> params.is_directed,
            paths |-> params.paths, motifs |-> params.motifs, format |-> params.format,
            output_path |-> params.output_path, threads |-> params.threads]>>)

\* The configuration of the cache for the query graphs is passed on as it is.
filter_with_enumeration(params) ==
    Runs(/\ NoDir \notin {params.query_graph_path, params.output_folder}
         /\ params.threads # 0
         /\ params.motifs \/ params.paths
         /\ require_cache_file(params.motifs, params.motif_cache_dir)
         /\ require_cache_file(params.paths, params.path_cache_dir),
         <<[run |-> "filter", input |-> params.query_graph_path, is_directed |-> params.is_directed,
            paths |-> params.paths, motifs |-> params.motifs, format |-> params.format,
            motif_cache_dir |-> optional_or_empty(params.motif_cache_dir),
            path_cache_dir |-> optional_or_empty(params.path_cache_dir),
            output_path |-> params.output_folder, non_induced |-> params.non_induced,
            cache_enumeration |-> params.cache_config.cache_enumeration,
            graph_cache_dir |-> params.cache_config.graph_cache_dir,
            graphs_motif_cache_dir |-> params.cache_config.graphs_motif_cache_dir,
            graphs_path_cache_dir |-> params.cache_config.graphs_path_cache_dir,
            threads |-> params.threads]>>)

preprocess_patterns(params) ==
    LET use_single_index == params.single_graph_index # NotGiven
        use_results_file == params.results_file_path # NotGiven IN
    Runs(/\ NoDir \notin {params.library_path, params.output_path}
         /\ params.threads # 0
         /\ ~(use_single_index /\ use_results_file)
         /\ use_single_index \/ use_results_file => params.background_graph_path \notin {NotGiven, NoDir}
         /\ params.results_file_path # NoDir
         /\ params.preprocess_multigraph > 0 => AlivePercent(params.alive_percent),
         <<[run |-> "pattern_preprocess", input |-> params.library_path, output_path |-> params.output_path,
            preprocess_multigraph |-> params.preprocess_multigraph, alive_percent |-> params.alive_percent,
            preprocess_singlegraph |-> IF use_single_index THEN params.single_graph_index ELSE -1,
            results_file |-> use_results_file,
            results_file_path |-> optional_or_empty(params.results_file_path),
            background |-> optional_or_empty(params.background_graph_path), threads |-> params.threads]>>)

filter_with_patterns(params) ==
    Runs(NoDir \notin {params.pattern_cache_path, params.background_graph_folder, params.output_path},
         <<[run |-> "pattern_filter", input |-> params.pattern_cache_path, output_path |-> params.output_path,
            background |-> params.background_graph_folder, is_induced |-> params.is_induced]>>)

\* An output path that is there and empty asks for output, to a file without a name.
find_subgraph(params) ==
    Runs(NoDir \notin {params.subgraph_path, params.background_path},
         <<[run |-> "search", subgraph |-> params.subgraph_path, background |-> params.background_path,
            is_output |-> params.output_path # NotGiven, output_path |-> optional_or_empty(params.output_path),
            is_induced |-> params.is_induced, stop_on_first_match |-> params.stop_on_first_match]>>)

-----------------------------------------------------------------------------
(* What the runs need.                                                     *)

\* The options that a run reads.
Needed(c) ==
    CASE c.run = "preprocess" -> {"input", "output_path"}
      [] c.run = "filter" ->
           {"output_path"} \cup (IF c.paths THEN {"path_cache_dir"} ELSE {})
             \cup (IF c.motifs THEN {"motif_cache_dir"} ELSE {})
             \cup (IF NeedsLibrary(c) THEN {"input"} ELSE {})
             \cup (IF NeedsLibrary(c) /\ c.cache_enumeration THEN {"graph_cache_dir"} ELSE {})
      [] c.run = "pattern_preprocess" ->
           {"input", "output_path"}
             \cup (IF ToSet(phases(c)) \cap {"single", "results"} # {} THEN {"background"} ELSE {})
             \cup (IF c.results_file THEN {"results_file_path"} ELSE {})
      [] c.run = "pattern_filter" -> {"input", "output_path", "background"}
      [] c.run = "search" -> {"subgraph", "background"} \cup (IF c.is_output THEN {"output_path"} ELSE {})
      [] OTHER -> {}

\* The options that it reads and that were not given.
Missing(c) == {option \in Needed(c) : c[option] = NoDir}

\* The numbers a run divides its work by are positive, and it has work to divide.
WorkIsThere(c) ==
    CASE c.run \in {"preprocess", "filter"} -> c.threads > 0 /\ stages(c) # <<>>
      [] c.run = "pattern_preprocess" ->
           c.threads > 0 /\ (c.preprocess_multigraph > 0 => AlivePercent(c.alive_percent))
      [] OTHER -> TRUE

\* Enumerations that are loaded are not cached again.
LoadsOrCaches(c) ==
    c.run = "filter" /\ c.cache_enumeration =>
        \A kind \in ToSet(stages(c)) : load_dir(c, kind) = NoDir

Suffices(c) == Missing(c) = {} /\ WorkIsThere(c) /\ LoadsOrCaches(c)
=============================================================================
