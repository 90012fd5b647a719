---------------------------- MODULE SubgraphSearch ----------------------------
(***************************************************************************)
(* SubgraphSearcher::find_all: the calling thread spawns one thread per    *)
(* start vertex, in batches; each thread backtracks over partial matches,  *)
(* keeping for every unmatched pattern vertex next to the partial match    *)
(* the set of graph vertices it may still take (its restriction), and      *)
(* undoing on the way back exactly what it changed on the way down.        *)
(*                                                                         *)
(* Threads share m_stop, the match counter and the match writer, and       *)
(* nothing else.  A step of a thread is the code between two accesses to   *)
(* these: the relaxed load of m_stop, the (locked) write of a match, the   *)
(* store to m_stop, the addition to the counter.                           *)
(***************************************************************************)
EXTENDS ColoredGraphs, Sequences, Functions, FiniteSetsExt, Bags

CONSTANTS Calls,              \* the calls made: records [graph, subgraph, stop]
          Searchers,          \* the searchers: records [directed, induced, policy]
          BATCH_SIZE,         \* threads alive at most between two joins
          INVALID_VERTEX_ID,  \* marks, in an undo set, an entry made by the step
          NoCall

Policies == {"SUBGRAPH_DEGREE", "SUBGRAPH_DEGREE_SQUARED", "GRAPH_DEGREE_SQUARED",
             "CONSTANT", "COMBINED", "RANDOM"}

ASSUME SearchAssumption ==
    /\ BATCH_SIZE \in Nat \ {0}
    /\ INVALID_VERTEX_ID \notin Nat
    /\ NoCall \notin Calls
    /\ \A c \in Calls : /\ IsColoredGraph(c.graph)
                        /\ IsColoredGraph(c.subgraph)
                        /\ c.stop \in BOOLEAN
    /\ Searchers \subseteq [directed : BOOLEAN, induced : BOOLEAN, policy : Policies]

VARIABLES
    searcher,         \* m_directed, m_induced and m_policy of the one searcher
    call,             \* the call in progress, or NoCall
    m_stop,           \* the flag every thread of a call reads
    start_vertex,     \* the pattern vertex every thread starts from
    main,             \* where the calling thread is in find_all
    vertex,           \* its loop variable
    batch,            \* the threads it has not joined yet
    thread,           \* the threads spawned by this call, by start graph vertex
    matches_counter,
    written,          \* the matches written so far by this call, a bag
    result            \* what the last call returned

vars == <<searcher, call, m_stop, start_vertex, main, vertex, batch, thread,
          matches_counter, written, result>>

Graph    == call.graph
Subgraph == call.subgraph

-----------------------------------------------------------------------------
(* Vertex ordering: the prior policies.                                    *)

all_adjacent(g, v) ==
    get_neighbours(g, v, FALSE)
        \cup (IF searcher.directed THEN get_neighbours(g, v, TRUE) ELSE {})

score_second_degree_vertices(g, v) ==
    MapThenSumSet(LAMBDA w : Cardinality(all_adjacent(g, w)), all_adjacent(g, v))

\* The score of a pattern vertex under a policy that does not draw at random.
restriction_score(c, restrictions, v) ==
    LET candidates == IF v \in DOMAIN restrictions THEN restrictions[v] ELSE {} IN
    CASE searcher.policy = "SUBGRAPH_DEGREE" ->
            Cardinality(all_adjacent(c.subgraph, v))
      [] searcher.policy = "SUBGRAPH_DEGREE_SQUARED" ->
            score_second_degree_vertices(c.subgraph, v)
      [] searcher.policy = "GRAPH_DEGREE_SQUARED" ->
            - MapThenSumSet(LAMBDA w : score_second_degree_vertices(c.graph, w), candidates)
      [] searcher.policy = "CONSTANT" -> - Cardinality(candidates)
      [] OTHER -> 0

\* The vertices choose_start may return: any one where it draws at random, else
\* the first of the best.
choose_start(c) ==
    LET best == {v \in Vertices(c.subgraph) : \A w \in Vertices(c.subgraph) :
                    restriction_score(c, <<>>, v) >= restriction_score(c, <<>>, w)} IN
    IF searcher.policy \in {"CONSTANT", "GRAPH_DEGREE_SQUARED", "RANDOM"}
    THEN Vertices(c.subgraph)
    ELSE {v \in best : \A w \in best : v <= w}

\* The first vertex not chosen yet, as a set.
find_unchosen_vertex(chosen) ==
    {v \in Vertices(Subgraph) \ chosen :
        \A w \in Vertices(Subgraph) \ chosen : v <= w}

\* The vertices choose_next may return.  It walks an unordered map, so the first
\* entry with at most one candidate, and the first of equally good entries, may
\* be any of them.
choose_next(restrictions, chosen) ==
    LET open  == DOMAIN restrictions \ chosen
        tight == {v \in open : Cardinality(restrictions[v]) <= 1}
        best  == {v \in open : \A w \in open :
                    restriction_score(call, restrictions, v)
                        >= restriction_score(call, restrictions, w)} IN
    IF tight # {} THEN tight
    ELSE IF open = {} THEN find_unchosen_vertex(chosen)
    ELSE IF searcher.policy = "RANDOM" THEN open ELSE best

-----------------------------------------------------------------------------
(* Restrictions: what they become when graph vertex gv takes pattern vertex *)
(* sv, and how to take that back.                                          *)

\* Mutant: a vertex with exactly the degree asked for is left out.
colored_neighborhood_strict(v, color, min_degree, reversed) ==
    {w \in get_neighbours(Graph, v, reversed) :
        /\ get_vertex_color(Graph, w) = color
        /\ min_degree < IF reversed THEN in_degree(Graph, w) ELSE out_degree(Graph, w)}

colored_neighborhood(v, color, min_degree, reversed) ==
    {w \in get_neighbours(Graph, v, reversed) :
        /\ get_vertex_color(Graph, w) = color
        /\ min_degree <= IF reversed THEN in_degree(Graph, w) ELSE out_degree(Graph, w)}

intersect_neighborhoods(v, color, min_deg_out, min_deg_in) ==
    colored_neighborhood(v, color, min_deg_out, FALSE)
        \cap colored_neighborhood(v, color, min_deg_in, TRUE)

compute_new_restriction(u, sv, gv) ==
    LET color == get_vertex_color(Subgraph, u)
        out   == is_edge(Subgraph, sv, u)
        in    == is_edge(Subgraph, u, sv)
        toU   == colored_neighborhood(gv, color, out_degree(Subgraph, u), FALSE)
        fromU == colored_neighborhood(gv, color, in_degree(Subgraph, u), TRUE) IN
    CASE ~searcher.directed -> toU
      [] searcher.directed /\ out /\ ~in -> toU
      [] searcher.directed /\ in /\ ~out -> fromU
      [] OTHER -> intersect_neighborhoods(gv, color, out_degree(Subgraph, u),
                                          in_degree(Subgraph, u))

\* The candidates of u that keep the edges u shares with sv.
filter_restriction(u, sv, gv, restriction) ==
    IF searcher.directed
    THEN {w \in restriction :
            /\ is_edge(Subgraph, sv, u) => is_edge(Graph, gv, w)
            /\ is_edge(Subgraph, u, sv) => is_edge(Graph, w, gv)}
    ELSE {w \in restriction : is_edge(Graph, gv, w)}

\* The map without sv's own entry (save_and_remove_restriction).
save_and_remove_restriction(restrictions, sv) ==
    Restrict(restrictions, DOMAIN restrictions \ {sv})

\* The map after sv took gv: a fresh entry for every unchosen neighbour without
\* one, a filtered entry for the others.
update_restrictions(restrictions, chosen, gv, sv) ==
    LET touched == all_adjacent(Subgraph, sv) \ chosen IN
    [u \in DOMAIN restrictions \cup touched |->
        IF u \notin touched THEN restrictions[u]
        ELSE IF u \notin DOMAIN restrictions THEN compute_new_restriction(u, sv, gv)
        ELSE filter_restriction(u, sv, gv, restrictions[u])]

\* What undoes it: per touched vertex the candidates taken away, or the marker
\* when the entry was fresh; and the entry saved for sv.  No candidates, for the
\* others: no entry of the undo map and an empty one undo nothing alike.
inverse_restrictions(restrictions, chosen, gv, sv) ==
    [u \in Vertices(Subgraph) |->
        IF u = sv THEN (IF sv \in DOMAIN restrictions THEN restrictions[sv] ELSE {})
        ELSE IF u \notin all_adjacent(Subgraph, sv) \ chosen THEN {}
        ELSE IF u \notin DOMAIN restrictions THEN {INVALID_VERTEX_ID}
        ELSE restrictions[u] \ filter_restriction(u, sv, gv, restrictions[u])]

\* Mutant: the marker is not recognised, and fresh entries survive.
restore_keeping_fresh(restrictions, inverse) ==
    LET refill == {u \in DOMAIN inverse : inverse[u] \ {INVALID_VERTEX_ID} # {}} IN
    [u \in DOMAIN restrictions \cup refill |->
        (IF u \in DOMAIN restrictions THEN restrictions[u] ELSE {})
            \cup (inverse[u] \ {INVALID_VERTEX_ID})]

restore_restrictions(restrictions, inverse) ==
    LET erased == {u \in DOMAIN inverse : INVALID_VERTEX_ID \in inverse[u]}
        refill == {u \in DOMAIN inverse \ erased : inverse[u] # {}} IN
    [u \in (DOMAIN restrictions \cup refill) \ erased |->
        (IF u \in DOMAIN restrictions THEN restrictions[u] ELSE {}) \cup inverse[u]]

\* Mutant: a directed searcher checks the edges out of gv only.
is_induced_valid_forward(path, gv, sv) ==
    \A w \in get_neighbours(Graph, gv, FALSE) \cap DOMAIN path :
        is_edge(Subgraph, sv, path[w])

\* Whether every graph edge between gv and the partial match is an edge of the
\* pattern (checked in both directions when directed).
is_induced_valid(path, gv, sv) ==
    /\ \A w \in get_neighbours(Graph, gv, FALSE) \cap DOMAIN path :
            is_edge(Subgraph, sv, path[w])
    /\ searcher.directed =>
         \A w \in get_neighbours(Graph, gv, TRUE) \cap DOMAIN path :
            is_edge(Subgraph, path[w], sv)

-----------------------------------------------------------------------------
(* The state of one search thread (SearchContext and its call stack).      *)
(*   pc      "start": the thread was created                               *)
(*           "enter": recursion_search(gv, sv) read m_stop as false        *)
(*           "loop": the innermost expand_search walks its candidates      *)
(*           "found": MatchFoundException was thrown                       *)
(*           "stopped": its handler set m_stop                             *)
(*           "add": the outermost call returned                            *)
(*           "done"                                                        *)
(*   count   matches found so far, which the calls return as they unwind   *)
(*   stack   one frame per active expand_search                            *)

NewThread(v) == [pc |-> "start", gv |-> v, sv |-> start_vertex, count |-> 0,
                 stack |-> <<>>, restrictions |-> <<>>, path |-> <<>>, chosen |-> {}]

\* recursion_search returns to recurse_candidates, or to the thread's body.
Returned(c) == [c EXCEPT !.pc = IF c.stack = <<>> THEN "add" ELSE "loop"]

Top(c) == c.stack[Len(c.stack)]

Unmatched(c) == /\ c.gv \notin DOMAIN c.path
                /\ searcher.induced => is_induced_valid(c.path, c.gv, c.sv)

Complete(c) == Cardinality(c.chosen) + 1 = vertex_count(Subgraph)

\* Mutant: the path maps pattern vertices to graph vertices.
Extended_swapped(path, gv, sv) ==
    [v \in DOMAIN path \cup {sv} |-> IF v = sv THEN gv ELSE path[v]]

\* The path with gv taking sv.
Extended(path, gv, sv) ==
    [v \in DOMAIN path \cup {gv} |-> IF v = gv THEN sv ELSE path[v]]

\* recursion_search(w, s) up to its test of m_stop.
Called(c, w, s) ==
    IF m_stop THEN Returned(c) ELSE [c EXCEPT !.pc = "enter", !.gv = w, !.sv = s]

\* The thread's body calls it for its start vertex.
StartSearch(t) ==
    /\ thread[t].pc = "start"
    /\ thread' = [thread EXCEPT ![t] = Called(@, t, start_vertex)]
    /\ UNCHANGED <<searcher, call, m_stop, start_vertex, main, vertex, batch,
                   matches_counter, written, result>>

\* Mutant: the walk over the candidates does not move on from a failed one.
TryCandidate_again(t) ==
    LET c == thread[t] IN
    /\ c.pc = "loop"
    /\ \E w \in Top(c).todo :
         thread' = [thread EXCEPT ![t] = Called(c, w, Top(c).next)]
    /\ UNCHANGED <<searcher, call, m_stop, start_vertex, main, vertex, batch,
                   matches_counter, written, result>>

\* recurse_candidates calls it for its next candidate.
TryCandidate(t) ==
    LET c == thread[t] IN
    /\ c.pc = "loop"
    /\ \E w \in Top(c).todo :
         thread' = [thread EXCEPT ![t] =
                      Called([c EXCEPT !.stack[Len(c.stack)].todo = @ \ {w}], w, Top(c).next)]
    /\ UNCHANGED <<searcher, call, m_stop, start_vertex, main, vertex, batch,
                   matches_counter, written, result>>

\* The graph vertex is already used, or an edge of the graph is in the way.
Reject(t) ==
    /\ thread[t].pc = "enter"
    /\ ~Unmatched(thread[t])
    /\ thread' = [thread EXCEPT ![t] = Returned(@)]
    /\ UNCHANGED <<searcher, call, m_stop, start_vertex, main, vertex, batch,
                   matches_counter, written, result>>

\* write_match: the last pattern vertex is placed.  The exception that ends a
\* stop_after_first search unwinds every frame and loses the counts they hold.
WriteMatch(t) ==
    LET c == thread[t] IN
    /\ c.pc = "enter"
    /\ Unmatched(c)
    /\ Complete(c)
    /\ written' = written (+) SetToBag({Extended(c.path, c.gv, c.sv)})
    /\ thread' = [thread EXCEPT ![t] =
                    IF call.stop THEN [c EXCEPT !.pc = "found"]
                    ELSE Returned([c EXCEPT !.count = @ + 1])]
    /\ UNCHANGED <<searcher, call, m_stop, start_vertex, main, vertex, batch,
                   matches_counter, result>>

\* expand_search up to the loop over candidates.
ExpandSearch(t) ==
    LET c       == thread[t]
        chosen  == c.chosen \cup {c.sv}
        rest    == save_and_remove_restriction(c.restrictions, c.sv)
        updated == update_restrictions(rest, chosen, c.gv, c.sv)
        empty   == \E u \in all_adjacent(Subgraph, c.sv) \ chosen : updated[u] = {}
        frame(next, todo) ==
            [gv |-> c.gv, sv |-> c.sv, next |-> next, todo |-> todo,
             inverse |-> inverse_restrictions(c.restrictions, chosen, c.gv, c.sv)]
        into(f) == [c EXCEPT !.pc = "loop", !.path = Extended(c.path, c.gv, c.sv),
                             !.chosen = chosen, !.restrictions = updated,
                             !.stack = Append(@, f)] IN
    /\ c.pc = "enter"
    /\ Unmatched(c)
    /\ ~Complete(c)
    /\ IF empty
       THEN thread' = [thread EXCEPT ![t] = into(frame(c.sv, {}))]
       ELSE \E next \in choose_next(updated, chosen) :
              thread' = [thread EXCEPT ![t] = into(frame(next,
                            IF next \in DOMAIN updated THEN updated[next] ELSE {}))]
    /\ UNCHANGED <<searcher, call, m_stop, start_vertex, main, vertex, batch,
                   matches_counter, written, result>>

\* expand_search rolls back and returns.
Backtrack(t) ==
    LET c == thread[t] f == Top(c) IN
    /\ c.pc = "loop"
    /\ f.todo = {}
    /\ thread' = [thread EXCEPT ![t] = Returned(
                    [c EXCEPT !.restrictions = restore_restrictions(@, f.inverse),
                              !.chosen = @ \ {f.sv},
                              !.path = Restrict(@, DOMAIN @ \ {f.gv}),
                              !.stack = SubSeq(@, 1, Len(@) - 1)])]
    /\ UNCHANGED <<searcher, call, m_stop, start_vertex, main, vertex, batch,
                   matches_counter, written, result>>

\* The handler of MatchFoundException, a store and an addition.
StoreStop(t) ==
    /\ thread[t].pc = "found"
    /\ m_stop' = TRUE
    /\ thread' = [thread EXCEPT ![t].pc = "stopped"]
    /\ UNCHANGED <<searcher, call, start_vertex, main, vertex, batch,
                   matches_counter, written, result>>

\* Mutant: the handler adds what the unwound calls had returned.
AddCount_unwound(t) ==
    /\ thread[t].pc \in {"stopped", "add"}
    /\ matches_counter' = matches_counter + thread[t].count
    /\ thread' = [thread EXCEPT ![t] = [NewThread(t) EXCEPT !.pc = "done"]]
    /\ UNCHANGED <<searcher, call, m_stop, start_vertex, main, vertex, batch,
                   written, result>>

\* The thread's last step: what it adds to the counter.  Its context is gone.
AddCount(t) ==
    /\ thread[t].pc \in {"stopped", "add"}
    /\ matches_counter' = matches_counter
                            + IF thread[t].pc = "stopped" THEN 1 ELSE thread[t].count
    /\ thread' = [thread EXCEPT ![t] = [NewThread(t) EXCEPT !.pc = "done"]]
    /\ UNCHANGED <<searcher, call, m_stop, start_vertex, main, vertex, batch,
                   written, result>>

ThreadStep(t) == \/ StartSearch(t) \/ TryCandidate(t) \/ Reject(t) \/ WriteMatch(t)
                 \/ ExpandSearch(t) \/ Backtrack(t) \/ StoreStop(t) \/ AddCount(t)

-----------------------------------------------------------------------------
(* The calling thread.                                                     *)

\* Mutant: the flag of the previous call is still up.
FindAll_without_reset(c) ==
    /\ main = "idle"
    /\ vertex_count(c.subgraph) > 0
    /\ c.graph.directed = searcher.directed
    /\ c.subgraph.directed = searcher.directed
    /\ call' = c
    /\ \E s \in choose_start(c) : start_vertex' = s
    /\ main' = "check"
    /\ vertex' = 0
    /\ matches_counter' = 0
    /\ written' = EmptyBag
    /\ result' = 0
    /\ UNCHANGED <<searcher, m_stop, batch, thread>>

\* find_all up to its loop; an empty pattern throws before anything changes.
FindAll(c) ==
    /\ main = "idle"
    /\ vertex_count(c.subgraph) > 0
    /\ c.graph.directed = searcher.directed
    /\ c.subgraph.directed = searcher.directed
    /\ call' = c
    /\ m_stop' = FALSE
    /\ \E s \in choose_start(c) : start_vertex' = s
    /\ main' = "check"
    /\ vertex' = 0
    /\ matches_counter' = 0
    /\ written' = EmptyBag
    /\ result' = 0
    /\ UNCHANGED <<searcher, batch, thread>>

\* The head of the loop: leave it after the last vertex, or on a match found.
CheckStop ==
    /\ main = "check"
    /\ main' = IF vertex = vertex_count(Graph) \/ (call.stop /\ m_stop)
               THEN "return" ELSE "spawn"
    /\ UNCHANGED <<searcher, call, m_stop, start_vertex, vertex, batch, thread,
                   matches_counter, written, result>>

\* Mutant: a vertex of another colour is skipped without moving on.
SpawnThread_stuck ==
    LET right == get_vertex_color(Graph, vertex) = get_vertex_color(Subgraph, start_vertex)
        alive == batch \cup {vertex} IN
    /\ main = "spawn"
    /\ IF right
       THEN /\ batch' = alive
            /\ thread' = [t \in DOMAIN thread \cup {vertex} |->
                            IF t = vertex THEN NewThread(t) ELSE thread[t]]
            /\ main' = IF Cardinality(alive) >= BATCH_SIZE THEN "join" ELSE "check"
            /\ vertex' = vertex + 1
       ELSE main' = "check" /\ UNCHANGED <<batch, thread, vertex>>
    /\ UNCHANGED <<searcher, call, m_stop, start_vertex, matches_counter, written, result>>

\* Its body: a vertex of the start colour gets a thread.
SpawnThread ==
    LET right == get_vertex_color(Graph, vertex) = get_vertex_color(Subgraph, start_vertex)
        alive == IF right THEN batch \cup {vertex} ELSE batch IN
    /\ main = "spawn"
    /\ batch' = alive
    /\ thread' = IF right
                 THEN [t \in DOMAIN thread \cup {vertex} |->
                         IF t = vertex THEN NewThread(t) ELSE thread[t]]
                 ELSE thread
    /\ main' = IF right /\ Cardinality(alive) >= BATCH_SIZE THEN "join" ELSE "check"
    /\ vertex' = vertex + 1
    /\ UNCHANGED <<searcher, call, m_stop, start_vertex, matches_counter, written, result>>

\* Mutant: the threads are detached instead of joined.
AllDone_detached == TRUE

AllDone == \A t \in batch : thread[t].pc = "done"

JoinBatch ==
    /\ main = "join"
    /\ AllDone
    /\ batch' = {}
    /\ main' = "check"
    /\ UNCHANGED <<searcher, call, m_stop, start_vertex, vertex, thread,
                   matches_counter, written, result>>

\* The last join and the return; the locals of find_all are gone.
Return ==
    /\ main = "return"
    /\ AllDone
    /\ batch' = {}
    /\ thread' = <<>>
    /\ result' = matches_counter
    /\ matches_counter' = 0
    /\ call' = NoCall
    /\ start_vertex' = 0
    /\ vertex' = 0
    /\ main' = "idle"
    /\ UNCHANGED <<searcher, m_stop, written>>

-----------------------------------------------------------------------------

Init ==
    /\ searcher \in Searchers
    /\ call = NoCall
    /\ m_stop = FALSE
    /\ start_vertex = 0
    /\ main = "idle"
    /\ vertex = 0
    /\ batch = {}
    /\ thread = <<>>
    /\ matches_counter = 0
    /\ written = EmptyBag
    /\ result = 0

MainStep == CheckStop \/ SpawnThread \/ JoinBatch \/ Return

Next == \/ \E c \in Calls : FindAll(c)
        \/ MainStep
        \/ \E t \in DOMAIN thread : ThreadStep(t)

Spec == Init /\ [][Next]_vars

\* Every vertex a thread may start from.
ThreadIds == UNION {Vertices(c.graph) : c \in Calls}

\* std::thread runs are scheduled preemptively: a thread that can step does so
\* eventually.  Nothing obliges the program to make a call.
FairSpec == /\ Spec
            /\ WF_vars(MainStep)
            /\ \A t \in ThreadIds : WF_vars(t \in DOMAIN thread /\ ThreadStep(t))

-----------------------------------------------------------------------------
(* Properties.                                                             *)

SearchFrame ==
    [gv : Vertices(Graph), sv : Vertices(Subgraph), next : Vertices(Subgraph),
     todo : SUBSET Vertices(Graph),
     inverse : [Vertices(Subgraph) -> SUBSET (Vertices(Graph) \cup {INVALID_VERTEX_ID})]]

IsThread(c) ==
    /\ c \in [pc : {"start", "enter", "loop", "found", "stopped", "add", "done"},
              gv : Vertices(Graph), sv : Vertices(Subgraph), count : Nat,
              stack : Seq(SearchFrame),
              restrictions : [DOMAIN c.restrictions -> SUBSET Vertices(Graph)],
              path : [DOMAIN c.path -> Vertices(Subgraph)],
              chosen : SUBSET Vertices(Subgraph)]
    /\ DOMAIN c.restrictions \subseteq Vertices(Subgraph)
    /\ DOMAIN c.path \subseteq Vertices(Graph)
    /\ c.pc = "loop" => c.stack # <<>>

\* Every variable has the type the code gives it: no marker of an undo set gets
\* into a restriction, no vertex of one graph is taken for one of the other, and
\* the loop of find_all never reads past the last vertex.
TypeOK ==
    /\ searcher \in Searchers
    /\ call \in Calls \cup {NoCall}
    /\ m_stop \in BOOLEAN
    /\ main \in {"idle", "check", "spawn", "join", "return"}
    /\ main = "idle" <=> call = NoCall
    /\ matches_counter \in Nat
    /\ result \in Nat
    /\ IsABag(written)
    /\ IF call = NoCall
       THEN thread = <<>> /\ batch = {}
       ELSE /\ start_vertex \in Vertices(Subgraph)
            /\ vertex \in 0 .. vertex_count(Graph)
            /\ main = "spawn" => vertex < vertex_count(Graph)
            /\ DOMAIN thread \subseteq Vertices(Graph)
            /\ \A t \in DOMAIN thread : IsThread(thread[t])
            /\ batch \subseteq DOMAIN thread

\* The candidates u should have after the frames 1 .. k of a stack placed their
\* vertices, computed from nothing but these frames: the first frame next to u
\* makes the set, each later one next to u filters it.
RebuiltRestriction(stack, k, u) ==
    LET near  == {i \in 1 .. k : stack[i].sv \in all_adjacent(Subgraph, u)}
        first == Min(near) IN
    {w \in compute_new_restriction(u, stack[first].sv, stack[first].gv) :
        \A i \in near \ {first} :
            w \in filter_restriction(u, stack[i].sv, stack[i].gv, {w})}

\* However deep a thread went and however often it came back, its restrictions
\* are those of its current partial match, computed afresh: undoing neither
\* loses a candidate, nor keeps one, nor leaves an entry behind.
RestrictionsAreOfThePath ==
    \A t \in DOMAIN thread :
        LET c == thread[t] k == Len(c.stack) IN
        c.pc \in {"enter", "loop", "add"} =>
            /\ c.chosen = {c.stack[i].sv : i \in 1 .. k}
            /\ c.path = [v \in {c.stack[i].gv : i \in 1 .. k} |->
                            (CHOOSE f \in {c.stack[i] : i \in 1 .. k} : f.gv = v).sv]
            /\ DOMAIN c.restrictions =
                 {u \in Vertices(Subgraph) \ c.chosen :
                    all_adjacent(Subgraph, u) \cap c.chosen # {}}
            /\ \A u \in DOMAIN c.restrictions :
                 c.restrictions[u] = RebuiltRestriction(c.stack, k, u)

\* Nothing is written that is not a match.
WrittenAreEmbeddings ==
    call # NoCall =>
        \A m \in BagToSet(written) : IsEmbedding(m, Subgraph, Graph, searcher.induced)

\* No match is written twice, by one thread or by two.
WrittenOnce == \A m \in BagToSet(written) : written[m] = 1

\* What each thread has found and not added to the counter yet.
Held == [t \in DOMAIN thread |->
            IF thread[t].pc \in {"found", "stopped"} THEN 1 ELSE thread[t].count]

\* The number a finished thread adds is the number of matches it wrote: the
\* counter plus what the running threads still hold accounts for every match.
MatchesAreAccounted ==
    call # NoCall => SumFunction(written) = matches_counter + SumFunction(Held)

\* The flag that ends a search is up only while a stop_after_first call has a
\* match in hand: a searcher that is called again starts with it down.
StopMeansFound ==
    m_stop /\ call # NoCall => call.stop /\ written # EmptyBag

\* However large the graph, no more than BATCH_SIZE threads run at a time, and
\* each of them is in the batch the calling thread will join: none outlives it.
ThreadsAreBounded ==
    LET running == {t \in DOMAIN thread : thread[t].pc # "done"} IN
    /\ running \subseteq batch
    /\ Cardinality(batch) <= BATCH_SIZE

\* What the pattern's matches are, by definition.
ExpectedMatches == [c \in Calls |-> [i \in BOOLEAN |-> MatchesOf(c.subgraph, c.graph, i)]]

\* find_all implements its promise (MatchSearch), whatever the threads, the
\* batches, the order of candidates and the prior policy.
Promise == INSTANCE MatchSearch
             WITH Matches <- ExpectedMatches, induced <- searcher.induced, found <- BagToSet(written)

ImplementsMatchSearch == Promise!Spec

\* A stop_after_first call returns at most one, as find_all documents.
ReturnsAtMostOne == [][Return /\ call.stop => result' <= 1]_vars

\* Every call returns.
EveryCallReturns == (main = "check") ~> (main = "idle")
=============================================================================
