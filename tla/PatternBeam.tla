----------------------------- MODULE PatternBeam -----------------------------
(***************************************************************************)
(* SingleGraphPatternFinder: a beam search for rare patterns of one graph. *)
(* A state of the beam is one match in the search graph, the pattern it    *)
(* induces and the histogram of its extensions.  An iteration expands      *)
(* every state of the beam, one after the other, then prunes the beam to   *)
(* its best scores.  Scores are sums of logarithms: which of two states    *)
(* has the lower one is left open, what a score is computed from is not.   *)
(***************************************************************************)
EXTENDS CandidateHistogram, SequencesExt

CONSTANTS Jobs,             \* records [background, search, max_active]
          MAX_ITERATIONS, PRUNE_WARMUP_ITERATIONS, MIN_STATES_FOR_GAP_PRUNE,
          NUMBER_OF_STATES_TO_RETURN,
          WORD,             \* unsigned arithmetic is modulo this: 2^64
          NoSearch          \* find_pattern is not running

INITIAL_BEAM_DIVISOR == 3

SEED_MATCH_BUFFER_FACTOR == 2

ASSUME BeamAssumption ==
    /\ {MAX_ITERATIONS, PRUNE_WARMUP_ITERATIONS, NUMBER_OF_STATES_TO_RETURN} \subseteq Nat
    /\ MIN_STATES_FOR_GAP_PRUNE \in Nat \ {0}
    /\ NoSearch \notin Jobs
    /\ \A j \in Jobs : /\ IsColoredGraph(j.background) /\ IsColoredGraph(j.search)
                       /\ j.background.directed = j.search.directed
                       /\ \A v \in Vertices(j.search) : get_vertex_color(j.search, v) \in Nat
                       /\ j.max_active \in Nat \ {0}

VARIABLES
    job,            \* the finder's background and the call's graph, or NoSearch
    m_beam,         \* the states not expanded yet in this iteration
    expanded_beam,
    branching_factor,
    any_expanded,
    iteration,
    pc,             \* where find_pattern is
    result          \* the patterns of the last call

vars == <<job, m_beam, expanded_beam, branching_factor, any_expanded, iteration, pc, result>>

search_graph == job.search

is_directed == search_graph.directed

Smaller(a, b) == IF a < b THEN a ELSE b

Larger(a, b) == IF a > b THEN a ELSE b

-----------------------------------------------------------------------------
(* States.  score stands for what the scorer is given: the colours whose   *)
(* log-probabilities were added, the edges and the vertices.  beam_score   *)
(* is the one it was computed from last.                                   *)

colors_count(c) == Cardinality({v \in Vertices(job.background) : get_vertex_color(job.background, v) = c})

Pattern(colors, edges) == [colors |-> colors, edges |-> edges]

edge_count(s) ==
    IF is_directed THEN Cardinality(s.pattern.edges) ELSE Cardinality(s.pattern.edges) \div 2

potential_pattern_edges(n) == (n * (n - 1)) \div 2

\* PatternScorer::score: how often each colour's log-probability is in the sum, how
\* often that of an edge, and, in unsigned arithmetic, how often that of none.
score_state(s) ==
    LET n == Len(s.pattern.colors) IN
    [colors |-> s.color_log_prob,
     edges  |-> IF n > 1 THEN edge_count(s) ELSE 0,
     absent |-> IF n > 1 THEN (potential_pattern_edges(n) - edge_count(s)) % WORD ELSE 0]

Unscored == [colors |-> <<>>, edges |-> 0, absent |-> 0]

create_initial_state(v) ==
    [path           |-> <<v>>,
     pattern        |-> Pattern(<<get_vertex_color(search_graph, v)>>, {}),
     hist           |-> absorb_vertex(search_graph, EmptyHistogram(search_graph), v),
     color_log_prob |-> <<get_vertex_color(search_graph, v)>>,
     beam_score     |-> Unscored,
     score_valid    |-> FALSE]

\* Mutant: arcs from earlier vertices to the new one are not looked up.
new_edges_forward(s, v) ==
    LET new == Len(s.path) IN
    UNION {IF is_edge(search_graph, v, s.path[i + 1])
           THEN {<<new, i>>} \cup IF is_directed THEN {} ELSE {<<i, new>>} ELSE {}
           : i \in 0 .. Len(s.path) - 1}

\* The edges between the new pattern vertex and every vertex matched before.
new_edges(s, v) ==
    LET new == Len(s.path) IN
    UNION {(IF is_edge(search_graph, v, s.path[i + 1])
            THEN {<<new, i>>} \cup IF is_directed THEN {} ELSE {<<i, new>>} ELSE {})
           \cup (IF is_directed /\ is_edge(search_graph, s.path[i + 1], v) THEN {<<i, new>>} ELSE {})
           : i \in 0 .. Len(s.path) - 1}

\* Mutant: the cached score survives the expansion.
expand_one_state_valid(s, v) ==
    LET c == get_vertex_color(search_graph, v) IN
    [s EXCEPT !.pattern = Pattern(Append(@.colors, c), @.edges \cup new_edges(s, v)),
              !.color_log_prob = Append(@, c),
              !.hist = absorb_vertex(search_graph, @, v),
              !.path = Append(@, v)]

expand_one_state(s, v) ==
    LET c == get_vertex_color(search_graph, v) IN
    [s EXCEPT !.pattern = Pattern(Append(@.colors, c), @.edges \cup new_edges(s, v)),
              !.color_log_prob = Append(@, c),
              !.hist = absorb_vertex(search_graph, @, v),
              !.path = Append(@, v),
              !.score_valid = FALSE]

\* A copy is scored anew.
clone_state(s) == [s EXCEPT !.score_valid = FALSE]

\* The state becomes that of the last candidate, after a copy for each of the others.
expand_state(s, top) ==
    IF top = {} THEN {s}
    ELSE LET last == Max(top) IN
         {expand_one_state(clone_state(s), v) : v \in top \ {last}} \cup {expand_one_state(s, last)}

-----------------------------------------------------------------------------
(* The initial beam.                                                       *)

vertices_by_color(c) == {v \in Vertices(search_graph) : get_vertex_color(search_graph, v) = c}

\* They are kept in increasing order: the first n.
first_vertices(c, n) ==
    {v \in vertices_by_color(c) : Cardinality({u \in vertices_by_color(c) : u < v}) < n}

search_colors == {search_graph.color[v] : v \in Vertices(search_graph)}

\* Colours of the search graph that the background lacks.
absent_colors == {c \in search_colors : colors_count(c) = 0}

\* By probability, in any order among equals; but the first colour the background
\* lacks, when there is one, is returned alone.
collect_sorted_colors_with_matches ==
    IF absent_colors # {} THEN {<<Min(absent_colors)>>}
    ELSE {o \in SetToSeqs(search_colors) :
            \A i, k \in DOMAIN o : i < k => colors_count(o[i]) <= colors_count(o[k])}

initial_beam_size == job.max_active \div INITIAL_BEAM_DIVISOR

capacity(c) == Cardinality(vertices_by_color(c))

\* Seeds are taken until they have matches enough for the beam twice over.
select_valid_seeds(order) ==
    LET matches[i \in 0 .. Len(order)] == IF i = 0 THEN 0 ELSE matches[i - 1] + capacity(order[i])
        enough == {i \in DOMAIN order : matches[i] >= initial_beam_size * SEED_MATCH_BUFFER_FACTOR} IN
    SubSeq(order, 1, IF enough = {} THEN Len(order) ELSE Min(enough))

\* The weight of a seed is 1/p; as integers, with one denominator for all.
weight(seeds, i) ==
    FoldFunctionOnSet(LAMBDA a, b : a * b, 1, [k \in DOMAIN seeds |-> colors_count(seeds[k])],
                      DOMAIN seeds \ {i})

\* round(target * weight / total).  For a colour of probability 0 that is
\* infinity / infinity, and what the conversion of NaN to an unsigned gives is
\* undefined: after the min and max, anything from 1 to the capacity.
allocate_proportionally(seeds) ==
    LET total == SumFunction([i \in DOMAIN seeds |-> weight(seeds, i)])
        round(i) == (2 * initial_beam_size * weight(seeds, i) + total) \div (2 * total) IN
    IF absent_colors # {} THEN [DOMAIN seeds -> 1 .. capacity(seeds[1])]
    ELSE {[i \in DOMAIN seeds |-> Larger(1, Smaller(round(i), capacity(seeds[i])))]}

\* Mutant: the rest of the quota goes to a seed whatever it has left.
fill_remaining_quota_blind(seeds, alloc) ==
    LET allocated == SumFunction(alloc) IN
    IF allocated >= initial_beam_size THEN alloc
    ELSE [alloc EXCEPT ![1] = @ + initial_beam_size - allocated]

\* Seeds with matches left share what is missing, the heaviest first: their order.
fill_remaining_quota(seeds, alloc) ==
    LET needed[i \in 0 .. Len(seeds)] ==
            IF i = 0 THEN Larger(0, initial_beam_size - SumFunction(alloc))
            ELSE needed[i - 1] - Smaller(needed[i - 1], capacity(seeds[i]) - alloc[i]) IN
    [i \in DOMAIN seeds |-> alloc[i] + needed[i - 1] - needed[i]]

create_beam_from_seeds(seeds, counts) ==
    UNION {{create_initial_state(v) : v \in first_vertices(seeds[i], counts[i])} : i \in DOMAIN seeds}

\* The beams build_initial_beam may make.
InitialBeams ==
    UNION {LET seeds == select_valid_seeds(order) IN
           {create_beam_from_seeds(seeds, fill_remaining_quota(seeds, alloc)) :
               alloc \in allocate_proportionally(seeds)}
           : order \in collect_sorted_colors_with_matches}

\* The vertex absorbed last met a candidate whose sum is infinite: absorb_vertex throws.
Overflowing(s) == outside_overflows(search_graph, s.hist, absent_colors)

\* Some score may be below the threshold, or none.
any_state_below_threshold == BOOLEAN

FindPattern(j) ==
    /\ job = NoSearch
    /\ job' = j
    /\ pc' = "seed"
    /\ result' = {}
    /\ UNCHANGED <<m_beam, expanded_beam, branching_factor, any_expanded, iteration>>

\* The constructor or find_pattern throws: a graph is empty.
EmptyGraphThrows ==
    /\ pc = "seed"
    /\ Vertices(job.background) = {} \/ Vertices(search_graph) = {}
    /\ pc' = "return"
    /\ UNCHANGED <<job, m_beam, expanded_beam, branching_factor, any_expanded, iteration, result>>

\* build_initial_beam; then some state may be below the threshold already.
BuildInitialBeam ==
    /\ pc = "seed"
    /\ Vertices(job.background) # {} /\ Vertices(search_graph) # {}
    /\ \E beam \in InitialBeams :
         /\ \A s \in beam : ~Overflowing(s)
         /\ m_beam' = beam
    /\ iteration' = 0
    /\ pc' \in {IF below THEN "return" ELSE "iterate" : below \in any_state_below_threshold}
    /\ UNCHANGED <<job, expanded_beam, branching_factor, any_expanded, result>>

\* HistogramOverflowException while a seed is absorbed leaves find_pattern.
SeedThrows ==
    /\ pc = "seed"
    /\ Vertices(job.background) # {} /\ Vertices(search_graph) # {}
    /\ \E beam \in InitialBeams : \E s \in beam : Overflowing(s)
    /\ pc' = "return"
    /\ UNCHANGED <<job, m_beam, expanded_beam, branching_factor, any_expanded, iteration, result>>

-----------------------------------------------------------------------------
(* One iteration.                                                          *)

\* Mutant: nothing caps the iterations.
BeginIteration_uncapped ==
    /\ pc = "iterate"
    /\ branching_factor' = Larger(1, job.max_active \div Larger(1, Cardinality(m_beam)))
    /\ expanded_beam' = {}
    /\ any_expanded' = FALSE
    /\ pc' = "expand"
    /\ UNCHANGED <<job, m_beam, iteration, result>>

\* expand_beam up to its loop.
BeginIteration ==
    /\ pc = "iterate"
    /\ iteration < MAX_ITERATIONS
    /\ branching_factor' = Larger(1, job.max_active \div Larger(1, Cardinality(m_beam)))
    /\ expanded_beam' = {}
    /\ any_expanded' = FALSE
    /\ pc' = "expand"
    /\ UNCHANGED <<job, m_beam, iteration, result>>

LastIteration ==
    /\ pc = "iterate"
    /\ iteration >= MAX_ITERATIONS
    /\ pc' = "return"
    /\ UNCHANGED <<job, m_beam, expanded_beam, branching_factor, any_expanded, iteration, result>>

\* No state's expansion reads another's, so the order of the beam is left out.
NextState == CHOOSE s \in m_beam : TRUE

\* The next state of the beam becomes one state per candidate, or stays as it is.
ExpandState ==
    LET s == NextState IN
    /\ pc = "expand"
    /\ m_beam # {}
    /\ m_beam' = m_beam \ {s}
    /\ \E top \in get_top_k_vertices(s.hist, branching_factor) :
         /\ \A e \in expand_state(s, top) : ~Overflowing(e)
         /\ expanded_beam' = expanded_beam \cup expand_state(s, top)
         /\ any_expanded' = (any_expanded \/ top # {})
    /\ UNCHANGED <<job, branching_factor, iteration, pc, result>>

\* So does one from a candidate's score, or while a candidate is absorbed.
ExpansionThrows ==
    LET s == NextState IN
    /\ pc = "expand"
    /\ m_beam # {}
    /\ \/ score_may_overflow(search_graph, s.hist, absent_colors)
       \/ \E top \in get_top_k_vertices(s.hist, branching_factor) :
             \E e \in expand_state(s, top) : Overflowing(e)
    /\ m_beam' = {}
    /\ expanded_beam' = {}
    /\ pc' = "return"
    /\ UNCHANGED <<job, branching_factor, any_expanded, iteration, result>>

\* Mutant: goes on although nothing was expanded.
NothingExpanded_again ==
    /\ pc = "expand"
    /\ m_beam = {}
    /\ ~any_expanded
    /\ m_beam' = expanded_beam
    /\ expanded_beam' = {}
    /\ pc' = "iterate"
    /\ UNCHANGED <<job, branching_factor, any_expanded, iteration, result>>

\* No state had a candidate.
NothingExpanded ==
    /\ pc = "expand"
    /\ m_beam = {}
    /\ ~any_expanded
    /\ m_beam' = expanded_beam
    /\ expanded_beam' = {}
    /\ pc' = "return"
    /\ UNCHANGED <<job, branching_factor, any_expanded, iteration, result>>

Scored(s) == [s EXCEPT !.beam_score = score_state(s), !.score_valid = TRUE]

\* How many states prune_beam may keep: after the warm-up, up to the largest gap.
keep_counts(n) ==
    LET least == Larger(MIN_STATES_FOR_GAP_PRUNE, (3 * n + 9) \div 10)
        cuts  == IF iteration >= PRUNE_WARMUP_ITERATIONS THEN least .. n - 1 ELSE {} IN
    {Smaller(k, job.max_active) : k \in {n} \cup cuts}

\* Mutant: the limit of active patterns is not applied.
PruneBeam_unlimited ==
    /\ pc = "expand"
    /\ m_beam = {}
    /\ any_expanded
    /\ m_beam' = {Scored(s) : s \in expanded_beam}
    /\ expanded_beam' = {}
    /\ iteration' = iteration + 1
    /\ pc' \in {IF below THEN "return" ELSE "iterate" : below \in any_state_below_threshold}
    /\ UNCHANGED <<job, branching_factor, any_expanded, result>>

\* prune_beam, and the test of the threshold.
PruneBeam ==
    LET n == Cardinality(expanded_beam) IN
    /\ pc = "expand"
    /\ m_beam = {}
    /\ any_expanded
    /\ IF n <= 1 THEN m_beam' = expanded_beam
       ELSE \E k \in keep_counts(n) : m_beam' \in kSubset(k, {Scored(s) : s \in expanded_beam})
    /\ expanded_beam' = {}
    /\ iteration' = iteration + 1
    /\ pc' \in {IF below THEN "return" ELSE "iterate" : below \in any_state_below_threshold}
    /\ UNCHANGED <<job, branching_factor, any_expanded, result>>

\* Those of the lowest scores.
select_best_states(beam) == kSubset(Smaller(NUMBER_OF_STATES_TO_RETURN, Cardinality(beam)), beam)

\* collect_best_patterns and the end of find_pattern.
Return ==
    /\ pc = "return"
    /\ \E best \in select_best_states(m_beam) : result' = {s.pattern : s \in best}
    /\ job' = NoSearch
    /\ m_beam' = {}
    /\ iteration' = 0
    /\ branching_factor' = 0
    /\ any_expanded' = FALSE
    /\ pc' = "idle"
    /\ UNCHANGED expanded_beam

SearchStep == \/ EmptyGraphThrows \/ BuildInitialBeam \/ SeedThrows \/ BeginIteration \/ LastIteration
              \/ ExpandState \/ ExpansionThrows \/ NothingExpanded \/ PruneBeam \/ Return

Init ==
    /\ job = NoSearch
    /\ m_beam = {}
    /\ expanded_beam = {}
    /\ branching_factor = 0
    /\ any_expanded = FALSE
    /\ iteration = 0
    /\ pc = "idle"
    /\ result = {}

Next == (\E j \in Jobs : FindPattern(j)) \/ SearchStep

Spec == Init /\ [][Next]_vars

\* find_pattern runs on one thread and waits for nothing.
FairSpec == Spec /\ WF_vars(SearchStep)

-----------------------------------------------------------------------------
(* Properties.                                                             *)

States == m_beam \cup expanded_beam

\* Every variable has the type the code gives it, and a state's parts are of one
\* size: a vertex of the pattern for every vertex of the path.
TypeOK ==
    /\ pc \in {"idle", "seed", "iterate", "expand", "return"}
    /\ (pc = "idle") <=> (job = NoSearch)
    /\ job \in Jobs \cup {NoSearch}
    /\ iteration \in 0 .. MAX_ITERATIONS
    /\ branching_factor \in Nat /\ any_expanded \in BOOLEAN
    /\ \A s \in States : /\ s.path \in Seq(Vertices(search_graph))
                         /\ Len(s.pattern.colors) = Len(s.path)
                         /\ s.score_valid \in BOOLEAN

\* The pattern of a state is what the search graph induces on its path, on vertices
\* that are all different and each next to an earlier one; the colour sum is of them.
StatesAreInducedMatches ==
    \A s \in States :
        LET colors == [i \in DOMAIN s.path |-> get_vertex_color(search_graph, s.path[i])] IN
        /\ IsInjective(s.path)
        /\ \A i \in 2 .. Len(s.path) : s.path[i] \in Around(search_graph, {s.path[k] : k \in 1 .. i - 1})
        /\ s.pattern.colors = colors /\ s.color_log_prob = colors
        /\ s.pattern.edges = {<<e[1] - 1, e[2] - 1>> : e \in
                {e \in (DOMAIN s.path) \X (DOMAIN s.path) :
                    is_edge(search_graph, s.path[e[1]], s.path[e[2]])}}

\* After any sequence of absorptions the candidates of a state are the vertices next
\* to its match; in an undirected graph their caches hold what a fresh computation
\* would, although they were only ever incremented and decremented.
HistogramsAreExact ==
    \A s \in States :
        /\ s.hist.match = {s.path[i] : i \in DOMAIN s.path}
        /\ s.hist.candidates = Around(search_graph, s.hist.match)
        /\ ~is_directed =>
             \A v \in s.hist.candidates :
                 /\ s.hist.neighbours[v] =
                        Cardinality(get_neighbours(search_graph, v, FALSE) \cap s.hist.match)
                 /\ s.hist.outside[v] = OutsideOf(search_graph, s.hist.match, v)

\* A score marked valid is the score of the pattern as it is now, so that neither the
\* threshold nor the choice of the best states reads an older one.
ScoresAreCurrent == \A s \in States : s.score_valid => s.beam_score = score_state(s)

\* After its first pruning the beam never starts an iteration with more states than
\* the configured maximum, however many seeds there were; and it is never empty.
BeamStaysInBounds ==
    pc = "iterate" => /\ m_beam # {}
                      /\ iteration > 0 => Cardinality(m_beam) <= job.max_active

\* The initial beam never takes more states of a colour than it has vertices.
SeedsFitTheirColors ==
    pc = "seed" /\ Vertices(job.background) # {} /\ Vertices(search_graph) # {} =>
        \A order \in collect_sorted_colors_with_matches :
            LET seeds == select_valid_seeds(order) IN
            \A alloc \in allocate_proportionally(seeds) :
                \A i \in DOMAIN seeds :
                    fill_remaining_quota(seeds, alloc)[i] \in 1 .. capacity(seeds[i])

\* Every call of find_pattern ends.
EverySearchEnds == (pc # "idle") ~> (pc = "idle")

\* The edge term of a score is that of a binomial over the potential edges of the
\* pattern, as PatternScorer documents: edges there and edges missing are all of them.
ScoresAreBinomial ==
    \A s \in States :
        LET n == Len(s.pattern.colors) IN
        n > 1 => score_state(s).edges + score_state(s).absent = potential_pattern_edges(n)
=============================================================================
