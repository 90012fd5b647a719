--------------------------- MODULE SubgraphSoundness ---------------------------
(***************************************************************************)
(* The inductive invariant behind WrittenAreEmbeddings: what a thread of   *)
(* SubgraphSearch knows of the candidates it still holds, and of those its *)
(* undo sets will give back.                                               *)
(***************************************************************************)
EXTENDS SubgraphSearch

\* Graph vertex w may take pattern vertex u as far as the first n frames of S go.
Agrees(S, n, u, w) ==
    /\ get_vertex_color(Graph, w) = get_vertex_color(Subgraph, u)
    /\ \A i \in 1 .. n :
         /\ is_edge(Subgraph, S[i].sv, u) => is_edge(Graph, S[i].gv, w)
         /\ is_edge(Subgraph, u, S[i].sv) => is_edge(Graph, w, S[i].gv)

\* Pattern vertex u is next to one that the first n frames of S placed.
Reached(S, n, u) == \E i \in 1 .. n : u \in all_adjacent(Subgraph, S[i].sv)

\* A map from graph to pattern vertices that keeps colours and edges, one to one.
IsPartialEmbedding(m) ==
    /\ \A v \in DOMAIN m : get_vertex_color(Graph, v) = get_vertex_color(Subgraph, m[v])
    /\ \A v, w \in DOMAIN m :
         /\ m[v] = m[w] => v = w
         /\ is_edge(Subgraph, m[v], m[w]) => is_edge(Graph, v, w)
         /\ searcher.induced /\ is_edge(Graph, v, w) => is_edge(Subgraph, m[v], m[w])

\* The frames of the stack are the entries of the path, one vertex each.
FramesArePath(c) ==
    LET S == c.stack k == Len(c.stack) IN
    /\ c.chosen = {S[i].sv : i \in 1 .. k}
    /\ DOMAIN c.path = {S[i].gv : i \in 1 .. k}
    /\ \A i \in 1 .. k : c.path[S[i].gv] = S[i].sv
    /\ \A i, j \in 1 .. k : S[i].sv = S[j].sv \/ S[i].gv = S[j].gv => i = j

\* A restriction exists for exactly the vertices that need one, and agrees with
\* the partial match.
RestrictionsAgree(c) ==
    LET S == c.stack k == Len(c.stack) R == c.restrictions IN
    /\ DOMAIN R \cap c.chosen = {}
    /\ \A u \in Vertices(Subgraph) \ c.chosen : Reached(S, k, u) => u \in DOMAIN R
    /\ \A u \in DOMAIN R : \A w \in R[u] : Agrees(S, k, u, w)

\* What the undo set of frame i gives back agrees with the n frames under it; the
\* marker is only on vertices no frame under it reaches, never on the one the frame
\* placed, whose candidate is among what it gives back.
GivesBack(S, i, n) ==
    /\ \A u \in Vertices(Subgraph) :
         /\ S[i].inverse[u] # {} => \A j \in 1 .. n : S[j].sv # u
         /\ \A w \in S[i].inverse[u] \ {INVALID_VERTEX_ID} : Agrees(S, n, u, w)
         /\ INVALID_VERTEX_ID \in S[i].inverse[u] => ~Reached(S, n, u)
    /\ INVALID_VERTEX_ID \notin S[i].inverse[S[i].sv]
    /\ i > 1 => S[i].gv \in S[i].inverse[S[i].sv]

UndoAgrees(c) == \A i \in 1 .. Len(c.stack) : GivesBack(c.stack, i, i - 1)

\* The candidates a frame has still to try are candidates now, or will be again
\* when the frame above it is undone.
TodoAgrees(c) ==
    LET S == c.stack k == Len(c.stack) R == c.restrictions IN
    /\ k > 0 /\ S[k].todo # {} => S[k].next \in DOMAIN R /\ S[k].todo \subseteq R[S[k].next]
    /\ \A i \in 1 .. k - 1 :
         /\ S[i + 1].sv = S[i].next
         /\ S[i].todo \subseteq S[i + 1].inverse[S[i].next]

\* The pair recursion_search was called for is a candidate, or a start.
CallAgrees(c) ==
    LET S == c.stack k == Len(c.stack) IN
    /\ c.pc = "start" => k = 0
    /\ c.pc = "enter" =>
         IF k = 0
         THEN get_vertex_color(Graph, c.gv) = get_vertex_color(Subgraph, c.sv)
         ELSE /\ c.sv = S[k].next
              /\ c.sv \in DOMAIN c.restrictions
              /\ c.gv \in c.restrictions[c.sv]

ThreadAgrees(c) ==
    /\ IsPartialEmbedding(c.path)
    /\ FramesArePath(c)
    /\ RestrictionsAgree(c)
    /\ UndoAgrees(c)
    /\ TodoAgrees(c)
    /\ CallAgrees(c)

\* The graphs of a call are the searcher's kind, and threads start where the
\* colours match.
StartAgrees ==
    call # NoCall =>
        /\ Graph.directed = searcher.directed /\ Subgraph.directed = searcher.directed
        /\ \A t \in DOMAIN thread :
             get_vertex_color(Graph, t) = get_vertex_color(Subgraph, start_vertex)

SoundInv ==
    /\ StartAgrees
    /\ \A t \in DOMAIN thread : ThreadAgrees(thread[t])
    /\ WrittenAreEmbeddings
=============================================================================
