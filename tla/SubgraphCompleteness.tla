-------------------------- MODULE SubgraphCompleteness --------------------------
(***************************************************************************)
(* The inductive invariants behind ImplementsMatchSearch: no match is      *)
(* lost on the way, a pattern in parts has none, and the counter comes out *)
(* right.                                                                  *)
(***************************************************************************)
EXTENDS SubgraphOnce

\* The embeddings of the call's pattern.
Wanted == Embeddings(Subgraph, Graph, searcher.induced)

\* The first n frames of S have not placed pattern vertex u.
Open(S, n, u) == \A j \in 1 .. n : S[j].sv # u

\* Restrictions are for vertices next to the partial match only, and the marker is on
\* those that became so with the frame.
OnlyReached(c) ==
    LET S == c.stack k == Len(c.stack) IN
    /\ \A u \in DOMAIN c.restrictions : Reached(S, k, u)
    /\ \A i \in 1 .. k : \A u \in Vertices(Subgraph) :
         /\ S[i].inverse[u] \notin {{}, {INVALID_VERTEX_ID}} => Reached(S, i - 1, u)
         /\ Open(S, i, u) /\ Reached(S, i, u) /\ ~Reached(S, i - 1, u)
              => INVALID_VERTEX_ID \in S[i].inverse[u]

\* A vertex that a match gives to an open vertex next to the first n frames, which the
\* match follows, is a candidate for it, or will be when the frames above are undone.
CandidatesAreKept(c) ==
    LET S == c.stack k == Len(c.stack) IN
    \A m \in Wanted : \A n \in 0 .. k : Follows(m, S, n) =>
        \A v \in DOMAIN m : Open(S, n, m[v]) /\ Reached(S, n, m[v]) =>
            \/ m[v] \in DOMAIN c.restrictions /\ v \in c.restrictions[m[v]]
            \/ \E j \in n + 1 .. k : v \in S[j].inverse[m[v]]

\* The candidates that the first n frames leave to an open vertex next to them, computed
\* from these frames alone, are the ones it has and those the undo sets of the frames
\* above keep for it: none is lost, none is kept twice over, none is made up.
CandidatesAreExact(c) ==
    LET S == c.stack k == Len(c.stack) R == c.restrictions IN
    \A n \in 0 .. k : \A u \in Vertices(Subgraph) : Open(S, n, u) /\ Reached(S, n, u) =>
        \A w \in Vertices(Graph) :
            w \in RebuiltRestriction(S, n, u) <=>
                \/ u \in DOMAIN R /\ w \in R[u]
                \/ \E j \in n + 1 .. k : w \in S[j].inverse[u]

\* No edge of the pattern leads into or out of T.
IsPart(T) ==
    \A u \in T, w \in Vertices(Subgraph) \ T : ~is_edge(Subgraph, u, w) /\ ~is_edge(Subgraph, w, u)

\* What is placed is in one part of the pattern.
ChosenTogether(c) ==
    \A T \in SUBSET Vertices(Subgraph) : IsPart(T) => c.chosen \subseteq T \/ c.chosen \cap T = {}

\* What a thread that is searching, or has just searched, knows of the matches to come.
ThreadKeeps(c) ==
    OnlyReached(c) /\ CandidatesAreKept(c) /\ CandidatesAreExact(c) /\ ChosenTogether(c)

\* A thread is still to come to match m.
Pending(c, m) ==
    LET S == c.stack k == Len(c.stack) IN
    \/ c.pc = "start"
    \/ c.pc = "enter" /\ Follows(m, S, k) /\ c.gv \in DOMAIN m /\ m[c.gv] = c.sv
    \/ /\ c.pc \in {"enter", "loop"}
       /\ \E i \in 1 .. k : /\ Follows(m, S, i)
                            /\ \E v \in S[i].todo : v \in DOMAIN m /\ m[v] = S[i].next

\* The call has matches to find, and no reason yet to stop before it has them all.
SearchesAll == call # NoCall /\ IsConnected(Subgraph) /\ ~(call.stop /\ written # EmptyBag)

\* A match that was not written is then pending, in its thread or because that thread
\* is still to be spawned.
NoneIsLost ==
    SearchesAll =>
        \A m \in Wanted \ BagToSet(written) : \E t \in DOMAIN m :
            /\ m[t] = start_vertex
            /\ t \in DOMAIN thread => Pending(thread[t], m)
            /\ t \notin DOMAIN thread => t >= vertex

\* The loop of find_all ends after the last vertex, or early.
ReturnsAtEnd == main = "return" => vertex = vertex_count(Graph) \/ (call.stop /\ m_stop)

\* The matches thread t wrote.
WrittenBy(t) == {m \in BagToSet(written) : t \in DOMAIN m /\ m[t] = start_vertex}

\* Those of the threads that have ended.
Counted == {m \in BagToSet(written) : \E t \in DOMAIN thread :
                thread[t].pc = "done" /\ m \in WrittenBy(t)}

\* Thread c has n matches to its count, or was ended by its one match, or has ended and
\* added them.
Knows(c, n) ==
    /\ c.pc \in {"found", "stopped"} => n = 1
    /\ c.pc \in {"start", "enter", "loop", "add"} => c.count = n /\ (call.stop => n = 0)
    /\ c.pc = "done" => c.count = 0

\* Each thread knows how many matches it wrote, and the counter has those of the
\* threads that have ended.
CountsAgree ==
    call # NoCall =>
        /\ IsFiniteSet(BagToSet(written))
        /\ matches_counter = Cardinality(Counted)
        /\ \A t \in DOMAIN thread : Knows(thread[t], Cardinality(WrittenBy(t)))

\* What was written are matches, of a pattern that is in one part.
WrittenAreMatches ==
    call # NoCall => BagToSet(written) \subseteq MatchesOf(Subgraph, Graph, searcher.induced)

CompleteInv ==
    /\ \A t \in DOMAIN thread :
         thread[t].pc \in {"start", "enter", "loop", "add"} => ThreadKeeps(thread[t])
    /\ NoneIsLost
    /\ ReturnsAtEnd
    /\ CountsAgree
    /\ WrittenAreMatches
=============================================================================
