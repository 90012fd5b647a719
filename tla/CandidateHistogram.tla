-------------------------- MODULE CandidateHistogram --------------------------
(***************************************************************************)
(* SingleGraphHistogram: the vertices one match can be extended with, and  *)
(* the caches their scores are computed from.  A histogram is a record     *)
(*   match       the vertices absorbed so far                              *)
(*   candidates  the keys of m_candidates and of both cache maps           *)
(*   neighbours  m_candidate_match_neighbor_count                          *)
(*   outside     m_candidate_outside_log_prob, a sum of log-probabilities  *)
(*               kept as the multiple of each vertex's it contains         *)
(* Log-probabilities are numbers a run of the program computes with; what  *)
(* the caches must get right is which of them they add up.                 *)
(***************************************************************************)
EXTENDS ColoredGraphs, FiniteSetsExt

EmptyHistogram(g) ==
    [match |-> {}, candidates |-> {},
     neighbours |-> [v \in Vertices(g) |-> 0],
     outside    |-> [v \in Vertices(g) |-> [u \in Vertices(g) |-> 0]]]

\* Mutant: the absorbed vertex is taken out only when its candidate is new.
add_vertex_neighbour_to_candidate_kept(g, h, candidate, absorbed) ==
    IF candidate \notin h.candidates
    THEN [h EXCEPT !.candidates = @ \cup {candidate}, !.neighbours[candidate] = 1,
            !.outside[candidate] = [u \in Vertices(g) |->
                IF u \in get_neighbours(g, candidate, FALSE) \ h.match THEN 1 ELSE 0]]
    ELSE [h EXCEPT !.neighbours[candidate] = @ + 1]

\* A new candidate's sum is over its out-neighbours off the match; an old one's
\* loses the absorbed vertex, whichever way the arc between them goes.
add_vertex_neighbour_to_candidate(g, h, candidate, absorbed) ==
    IF candidate \notin h.candidates
    THEN [h EXCEPT !.candidates = @ \cup {candidate}, !.neighbours[candidate] = 1,
            !.outside[candidate] = [u \in Vertices(g) |->
                IF u \in get_neighbours(g, candidate, FALSE) \ h.match THEN 1 ELSE 0]]
    ELSE [h EXCEPT !.neighbours[candidate] = @ + 1, !.outside[candidate][absorbed] = @ - 1]

add_all_vertex_neighbours_to_candidate(g, h, absorbed, reversed) ==
    FoldSet(LAMBDA w, k : add_vertex_neighbour_to_candidate(g, k, w, absorbed),
            h, get_neighbours(g, absorbed, reversed) \ h.match)

absorb_vertex(g, h, v) ==
    LET erased  == [h EXCEPT !.match = @ \cup {v}, !.candidates = @ \ {v}, !.neighbours[v] = 0,
                             !.outside[v] = [u \in Vertices(g) |-> 0]]
        forward == add_all_vertex_neighbours_to_candidate(g, erased, v, FALSE) IN
    IF g.directed THEN add_all_vertex_neighbours_to_candidate(g, forward, v, TRUE) ELSE forward

\* The log-probability of a colour the background lacks is half the lowest double:
\* three of them in one sum are minus infinity.
outside_overflows(g, h, absent) ==
    \E c \in h.candidates :
        MapThenSumSet(LAMBDA u : IF get_vertex_color(g, u) \in absent THEN h.outside[c][u] ELSE 0,
                      Vertices(g)) > 2

\* Depending on alpha, so may the score of a candidate that meets one of them.
score_may_overflow(g, h, absent) ==
    \E c \in h.candidates :
        /\ get_vertex_color(g, c) \in absent
        /\ \E u \in Vertices(g) : get_vertex_color(g, u) \in absent /\ h.outside[c][u] # 0

\* Any of the candidates may be among those of the lowest scores.
get_top_k_vertices(h, k) ==
    kSubset(IF k < Cardinality(h.candidates) THEN k ELSE Cardinality(h.candidates), h.candidates)

-----------------------------------------------------------------------------
(* What the caches should hold.                                            *)

Around(g, match) ==
    (UNION {get_neighbours(g, v, FALSE) \cup get_neighbours(g, v, TRUE) : v \in match}) \ match

\* "outside_log_prob = sum of log(p[color(u)]) for u in neighbours(v) not in match".
OutsideOf(g, match, v) ==
    [u \in Vertices(g) |-> IF u \in get_neighbours(g, v, FALSE) \ match THEN 1 ELSE 0]
=============================================================================
