------------------------- MODULE SubgraphSearchProofs -------------------------
(***************************************************************************)
(* Theorems about SubgraphSearch, for every graph and pattern, every set   *)
(* of calls, every set of searchers, prior policy and batch size and every *)
(* interleaving of the threads: types and bounds, that whatever find_all   *)
(* writes is a match of its pattern (SubgraphSoundness), that it writes no *)
(* match twice (SubgraphOnce), that it leaves none out                     *)
(* (SubgraphCompleteness), and so that it keeps its promise (MatchSearch). *)
(***************************************************************************)
EXTENDS SubgraphCompleteness, SubgraphOnce, FiniteLemmas

-----------------------------------------------------------------------------
(* What the operators on restrictions return.                              *)

\* The neighbours of a vertex are vertices.
LEMMA AdjacentAreVertices ==
    ASSUME NEW g, NEW v PROVE all_adjacent(g, v) \subseteq Vertices(g)
BY DEF all_adjacent, get_neighbours

\* A fresh restriction holds vertices of the graph.
LEMMA NewRestrictionType ==
    ASSUME NEW u, NEW sv, NEW gv
    PROVE  compute_new_restriction(u, sv, gv) \subseteq Vertices(Graph)
<1>1. \A color, d, r : colored_neighborhood(gv, color, d, r) \subseteq Vertices(Graph)
    BY DEF colored_neighborhood, get_neighbours
<1>2. QED BY <1>1 DEF compute_new_restriction, intersect_neighborhoods

\* Filtering only takes candidates away.
LEMMA FilterShrinks ==
    ASSUME NEW u, NEW sv, NEW gv, NEW R
    PROVE  filter_restriction(u, sv, gv, R) \subseteq R
BY DEF filter_restriction

\* A map of restrictions is a function from pattern vertices to sets of graph
\* vertices.
IsRestrictionMap(R) == /\ R \in [DOMAIN R -> SUBSET Vertices(Graph)]
                       /\ DOMAIN R \subseteq Vertices(Subgraph)

\* Narrowing keeps the type.
LEMMA UpdateType ==
    ASSUME NEW R, IsRestrictionMap(R), NEW chosen, NEW gv, NEW sv
    PROVE  /\ IsRestrictionMap(save_and_remove_restriction(R, sv))
           /\ IsRestrictionMap(update_restrictions(R, chosen, gv, sv))
<1>1. IsRestrictionMap(save_and_remove_restriction(R, sv))
    BY DEF IsRestrictionMap, save_and_remove_restriction, Restrict
<1> DEFINE U == update_restrictions(R, chosen, gv, sv)
           touched == all_adjacent(Subgraph, sv) \ chosen
<1>2. DOMAIN U = DOMAIN R \cup touched
    BY DEF update_restrictions
<1>3. touched \subseteq Vertices(Subgraph)
    BY AdjacentAreVertices
<1>4. ASSUME NEW u \in DOMAIN U PROVE U[u] \in SUBSET Vertices(Graph)
    <2>1. CASE u \notin touched
        BY <1>2, <2>1 DEF update_restrictions, IsRestrictionMap
    <2>2. CASE u \in touched /\ u \notin DOMAIN R
        BY <1>2, <2>2, NewRestrictionType DEF update_restrictions
    <2>3. CASE u \in touched /\ u \in DOMAIN R
        <3>1. U[u] = filter_restriction(u, sv, gv, R[u])
            BY <1>2, <2>3 DEF update_restrictions
        <3>2. R[u] \subseteq Vertices(Graph)
            BY <2>3 DEF IsRestrictionMap
        <3>3. QED BY <3>1, <3>2, FilterShrinks
    <2>4. QED BY <2>1, <2>2, <2>3
<1>5. U = [u \in DOMAIN U |-> U[u]]
    BY DEF update_restrictions
<1>6. QED BY <1>1, <1>2, <1>3, <1>4, <1>5 DEF IsRestrictionMap

\* The undo map's type: sets of graph vertices, and the marker.
LEMMA InverseType ==
    ASSUME NEW R, IsRestrictionMap(R), NEW chosen, NEW gv, NEW sv
    PROVE  inverse_restrictions(R, chosen, gv, sv)
             \in [Vertices(Subgraph) -> SUBSET (Vertices(Graph) \cup {INVALID_VERTEX_ID})]
BY DEF inverse_restrictions, IsRestrictionMap

\* Undoing keeps the type: the marker never gets into a restriction.
LEMMA RestoreType ==
    ASSUME NEW R, IsRestrictionMap(R),
           NEW inv \in [Vertices(Subgraph) -> SUBSET (Vertices(Graph) \cup {INVALID_VERTEX_ID})]
    PROVE  IsRestrictionMap(restore_restrictions(R, inv))
BY DEF restore_restrictions, IsRestrictionMap

\* The vertices chosen are pattern vertices.
LEMMA ChooseType ==
    ASSUME NEW R, DOMAIN R \subseteq Vertices(Subgraph), NEW chosen
    PROVE  choose_next(R, chosen) \subseteq Vertices(Subgraph)
BY DEF choose_next, find_unchosen_vertex

\* The start vertex is a pattern vertex.
LEMMA ChooseStartType ==
    ASSUME NEW c PROVE choose_start(c) \subseteq Vertices(c.subgraph)
BY DEF choose_start

-----------------------------------------------------------------------------
(* Type correctness of one thread's steps.                                 *)

\* A thread as it is created.
LEMMA NewThreadType ==
    ASSUME NEW v \in Vertices(Graph), start_vertex \in Vertices(Subgraph)
    PROVE  IsThread(NewThread(v))
BY DEF IsThread, NewThread

\* A return of recursion_search.
LEMMA ReturnedType ==
    ASSUME NEW c, IsThread(c) PROVE IsThread(Returned(c))
BY DEF IsThread, Returned

\* A call of recursion_search.
LEMMA CalledType ==
    ASSUME NEW c, IsThread(c), NEW w \in Vertices(Graph), NEW s \in Vertices(Subgraph)
    PROVE  IsThread(Called(c, w, s))
BY ReturnedType DEF IsThread, Called

-----------------------------------------------------------------------------
(* TypeOK is inductive.                                                    *)

\* What TypeOK says of the variables of a call.
LEMMA CallType ==
    ASSUME TypeOK, call # NoCall
    PROVE  /\ call \in Calls
           /\ start_vertex \in Vertices(Subgraph)
           /\ vertex \in 0 .. vertex_count(Graph)
           /\ DOMAIN thread \subseteq Vertices(Graph)
           /\ \A t \in DOMAIN thread : IsThread(thread[t])
           /\ batch \subseteq DOMAIN thread
BY DEF TypeOK

\* Threads exist during calls only.
LEMMA ThreadsInCalls ==
    ASSUME TypeOK, NEW t \in DOMAIN thread PROVE call # NoCall
BY DEF TypeOK

\* A step that leaves the calling thread alone keeps TypeOK when it keeps the
\* types of the thread it moves and of what the threads share.
LEMMA ThreadFrame ==
    ASSUME TypeOK, NEW t \in DOMAIN thread, NEW c, IsThread(c),
           thread' = [thread EXCEPT ![t] = c],
           m_stop' \in BOOLEAN, matches_counter' \in Nat, IsABag(written'),
           UNCHANGED <<searcher, call, start_vertex, main, vertex, batch, result>>
    PROVE  TypeOK'
<1>1. call # NoCall
    BY ThreadsInCalls
<1>2. DOMAIN thread' = DOMAIN thread
    OBVIOUS
<1>3. ASSUME NEW u \in DOMAIN thread' PROVE IsThread(thread'[u])
    <2>1. u \in DOMAIN thread /\ thread'[u] = IF u = t THEN c ELSE thread[u]
        BY <1>2
    <2>2. IsThread(thread[u])
        BY <1>1, <2>1, CallType
    <2>3. QED BY <2>1, <2>2
<1>4. ASSUME NEW u \in DOMAIN thread' PROVE IsThread(thread[u])'
    <2>1. call' = call
        OBVIOUS
    <2>2. QED BY <1>3, <2>1 DEF IsThread, SearchFrame, Graph, Subgraph
<1>5. /\ call' = call
      /\ searcher' \in Searchers /\ call' \in Calls \cup {NoCall}
      /\ main' \in {"idle", "check", "spawn", "join", "return"}
      /\ main' = "idle" <=> call' = NoCall
      /\ result' \in Nat
    BY DEF TypeOK
<1>6. /\ (start_vertex \in Vertices(Subgraph))'
      /\ (vertex \in 0 .. vertex_count(Graph))'
      /\ (main = "spawn" => vertex < vertex_count(Graph))'
      /\ (DOMAIN thread \subseteq Vertices(Graph))'
      /\ (batch \subseteq DOMAIN thread)'
    BY <1>1, <1>2 DEF TypeOK, Graph, Subgraph
<1>7. QED BY <1>1, <1>4, <1>5, <1>6 DEF TypeOK

\* A call starts with a bag of matches, the empty one.
LEMMA EmptyIsABag == IsABag(EmptyBag)
BY DEF IsABag, EmptyBag, SetToBag

\* Bags stay bags when a match is added.
LEMMA AddToBag ==
    ASSUME NEW B, IsABag(B), NEW x
    PROVE  /\ IsABag(B (+) SetToBag({x}))
           /\ B (+) SetToBag({x}) # EmptyBag
<1>1. DOMAIN (B (+) SetToBag({x})) = DOMAIN B \cup {x}
    BY DEF SetToBag, (+)
<1>2. ASSUME NEW e \in DOMAIN (B (+) SetToBag({x}))
      PROVE  (B (+) SetToBag({x}))[e] \in {n \in Nat : n > 0}
    BY <1>1 DEF IsABag, SetToBag, (+)
<1>3. DOMAIN EmptyBag = {}
    BY DEF EmptyBag, SetToBag
<1>4. QED BY <1>1, <1>2, <1>3 DEF IsABag, (+)

\* The thread's body calls for its own vertex.
LEMMA StartSearchType ==
    ASSUME TypeOK, NEW t \in DOMAIN thread, StartSearch(t) PROVE TypeOK'
<1>1. /\ IsThread(thread[t]) /\ t \in Vertices(Graph)
      /\ start_vertex \in Vertices(Subgraph)
    BY CallType, ThreadsInCalls
<1>2. IsThread(Called(thread[t], t, start_vertex))
    BY <1>1, CalledType
<1>3. QED BY <1>2, ThreadFrame DEF StartSearch, TypeOK

\* A candidate that is tried is a vertex of the graph.
LEMMA TryCandidateType ==
    ASSUME TypeOK, NEW t \in DOMAIN thread, TryCandidate(t) PROVE TypeOK'
<1> DEFINE c == thread[t]
           k == Len(c.stack)
<1>1. IsThread(c)
    BY CallType, ThreadsInCalls
<1>2. PICK w \in Top(c).todo :
        thread' = [thread EXCEPT ![t] =
                     Called([c EXCEPT !.stack[k].todo = @ \ {w}], w, Top(c).next)]
    BY DEF TryCandidate
<1>3. c.stack \in Seq(SearchFrame) /\ k \in Nat /\ k \in 1 .. Len(c.stack)
    BY <1>1 DEF IsThread, TryCandidate
<1>4. Top(c) \in SearchFrame
    BY <1>3 DEF Top
<1>5. w \in Vertices(Graph) /\ Top(c).next \in Vertices(Subgraph)
    BY <1>2, <1>4 DEF SearchFrame
<1> DEFINE f == [Top(c) EXCEPT !.todo = @ \ {w}]
           d == [c EXCEPT !.stack[k].todo = @ \ {w}]
<1>6. f \in SearchFrame
    BY <1>4 DEF SearchFrame
<1>7. d = [c EXCEPT !.stack = [c.stack EXCEPT ![k] = f]]
    BY <1>3 DEF Top
<1>8. [c.stack EXCEPT ![k] = f] \in Seq(SearchFrame)
      /\ [c.stack EXCEPT ![k] = f] # <<>>
    BY <1>3, <1>6
<1>9. IsThread(d)
    BY <1>1, <1>7, <1>8 DEF IsThread
<1>10. IsThread(Called(d, w, Top(c).next))
    BY <1>5, <1>9, CalledType
<1>11. QED BY <1>2, <1>10, ThreadFrame DEF TryCandidate, TypeOK

\* A rejected pair leaves the frames alone.
LEMMA RejectType ==
    ASSUME TypeOK, NEW t \in DOMAIN thread, Reject(t) PROVE TypeOK'
<1>1. IsThread(Returned(thread[t]))
    BY CallType, ThreadsInCalls, ReturnedType
<1>2. QED BY <1>1, ThreadFrame DEF Reject, TypeOK

\* A match is written, and counted or thrown.
LEMMA WriteMatchType ==
    ASSUME TypeOK, NEW t \in DOMAIN thread, WriteMatch(t) PROVE TypeOK'
<1> DEFINE c == thread[t]
           e == [c EXCEPT !.count = @ + 1]
           d == IF call.stop THEN [c EXCEPT !.pc = "found"] ELSE Returned(e)
<1>1. IsThread(c)
    BY CallType, ThreadsInCalls
<1>2. IsThread(e) /\ IsThread([c EXCEPT !.pc = "found"])
    BY <1>1, SMTT(40) DEF IsThread
<1>3. IsThread(d)
    BY <1>2, ReturnedType
<1>4. thread' = [thread EXCEPT ![t] = d]
    BY DEF WriteMatch
<1>5. IsABag(written')
    BY AddToBag DEF WriteMatch, TypeOK
<1>6. QED BY <1>3, <1>4, <1>5, ThreadFrame DEF WriteMatch, TypeOK

\* A frame pushed by expand_search, and the context under it.
LEMMA ExpandSearchType ==
    ASSUME TypeOK, NEW t \in DOMAIN thread, ExpandSearch(t) PROVE TypeOK'
<1> DEFINE c       == thread[t]
           chosen  == c.chosen \cup {c.sv}
           rest    == save_and_remove_restriction(c.restrictions, c.sv)
           updated == update_restrictions(rest, chosen, c.gv, c.sv)
           empty   == \E u \in all_adjacent(Subgraph, c.sv) \ chosen : updated[u] = {}
           frame(next, todo) ==
              [gv |-> c.gv, sv |-> c.sv, next |-> next, todo |-> todo,
               inverse |-> inverse_restrictions(c.restrictions, chosen, c.gv, c.sv)]
           into(f) == [c EXCEPT !.pc = "loop", !.path = Extended(c.path, c.gv, c.sv),
                                !.chosen = chosen, !.restrictions = updated,
                                !.stack = Append(@, f)]
<1>1. IsThread(c)
    BY CallType, ThreadsInCalls
<1>2. IsRestrictionMap(c.restrictions)
    BY <1>1 DEF IsThread, IsRestrictionMap
<1>3. IsRestrictionMap(updated)
    BY <1>2, UpdateType
<1>4. c.gv \in Vertices(Graph) /\ c.sv \in Vertices(Subgraph)
    BY <1>1 DEF IsThread
<1>5. ASSUME NEW next \in Vertices(Subgraph), NEW todo \in SUBSET Vertices(Graph)
      PROVE  frame(next, todo) \in SearchFrame
    BY <1>2, <1>4, InverseType DEF SearchFrame
<1>6. ASSUME NEW f \in SearchFrame PROVE IsThread(into(f))
    <2>1. /\ Extended(c.path, c.gv, c.sv)
               \in [DOMAIN Extended(c.path, c.gv, c.sv) -> Vertices(Subgraph)]
          /\ DOMAIN Extended(c.path, c.gv, c.sv) \subseteq Vertices(Graph)
        BY <1>1, <1>4 DEF IsThread, Extended
    <2>2. Append(c.stack, f) \in Seq(SearchFrame) /\ Append(c.stack, f) # <<>>
        BY <1>1 DEF IsThread
    <2>3. chosen \subseteq Vertices(Subgraph)
        BY <1>1, <1>4 DEF IsThread
    <2> HIDE DEF chosen, updated
    <2>4. QED BY <1>1, <1>3, <2>1, <2>2, <2>3 DEF IsThread, IsRestrictionMap
<1>7. CASE empty
    <2>1. IsThread(into(frame(c.sv, {})))
        BY <1>4, <1>5, <1>6
    <2>2. thread' = [thread EXCEPT ![t] = into(frame(c.sv, {}))]
        BY <1>7 DEF ExpandSearch
    <2> HIDE DEF into, frame
    <2>3. QED BY <2>1, <2>2, ThreadFrame DEF ExpandSearch, TypeOK
<1>8. CASE ~empty
    <2> DEFINE todo(next) == IF next \in DOMAIN updated THEN updated[next] ELSE {}
    <2>1. PICK next \in choose_next(updated, chosen) :
            thread' = [thread EXCEPT ![t] = into(frame(next, todo(next)))]
        BY <1>8 DEF ExpandSearch
    <2>2. next \in Vertices(Subgraph)
        BY <1>3, <2>1, ChooseType DEF IsRestrictionMap
    <2>3. todo(next) \subseteq Vertices(Graph)
        BY <1>3 DEF IsRestrictionMap
    <2>4. IsThread(into(frame(next, todo(next))))
        BY <1>5, <1>6, <2>2, <2>3
    <2> HIDE DEF into, frame, todo
    <2>5. QED BY <2>1, <2>4, ThreadFrame DEF ExpandSearch, TypeOK
<1>9. QED BY <1>7, <1>8

\* expand_search comes back.
LEMMA BacktrackType ==
    ASSUME TypeOK, NEW t \in DOMAIN thread, Backtrack(t) PROVE TypeOK'
<1> DEFINE c == thread[t]
           f == Top(c)
           R == restore_restrictions(c.restrictions, f.inverse)
           P == Restrict(c.path, DOMAIN c.path \ {f.gv})
           S == SubSeq(c.stack, 1, Len(c.stack) - 1)
           d == [c EXCEPT !.restrictions = R, !.chosen = @ \ {f.sv},
                          !.path = P, !.stack = S]
           \* while it returns, the thread is not in a loop
           e == [d EXCEPT !.pc = "enter"]
<1>1. IsThread(c) /\ c.pc = "loop"
    BY CallType, ThreadsInCalls DEF Backtrack
<1>2. c.stack \in Seq(SearchFrame) /\ Len(c.stack) \in Nat /\ Len(c.stack) \in 1 .. Len(c.stack)
    BY <1>1 DEF IsThread
<1>3. f \in SearchFrame /\ S \in Seq(SearchFrame)
    BY <1>2 DEF Top
<1>4. IsRestrictionMap(c.restrictions)
    BY <1>1 DEF IsThread, IsRestrictionMap
<1>5. IsRestrictionMap(R)
    BY <1>3, <1>4, RestoreType DEF SearchFrame
<1>6. P \in [DOMAIN P -> Vertices(Subgraph)] /\ DOMAIN P \subseteq Vertices(Graph)
    BY <1>1 DEF IsThread, Restrict
<1> HIDE DEF R, P, S, f
<1>7. IsThread(e)
    BY <1>1, <1>3, <1>5, <1>6 DEF IsThread, IsRestrictionMap
<1>8. Returned(d) = Returned(e)
    BY <1>1 DEF Returned, IsThread
<1>9. IsThread(Returned(d))
    BY <1>7, <1>8, ReturnedType
<1>10. thread' = [thread EXCEPT ![t] = Returned(d)]
    BY DEF Backtrack, R, P, S, f
<1> HIDE DEF d
<1>11. QED BY <1>9, <1>10, ThreadFrame DEF Backtrack, TypeOK

\* The handler raises the flag.
LEMMA StoreStopType ==
    ASSUME TypeOK, NEW t \in DOMAIN thread, StoreStop(t) PROVE TypeOK'
<1>1. IsThread([thread[t] EXCEPT !.pc = "stopped"])
    BY CallType, ThreadsInCalls DEF IsThread
<1>2. QED BY <1>1, ThreadFrame DEF StoreStop, TypeOK

\* The last step of a thread.
LEMMA AddCountType ==
    ASSUME TypeOK, NEW t \in DOMAIN thread, AddCount(t) PROVE TypeOK'
<1>1. IsThread(thread[t]) /\ t \in Vertices(Graph) /\ start_vertex \in Vertices(Subgraph)
    BY CallType, ThreadsInCalls
<1>2. IsThread([NewThread(t) EXCEPT !.pc = "done"])
    BY <1>1, NewThreadType DEF IsThread
<1>3. matches_counter' \in Nat
    BY <1>1 DEF AddCount, TypeOK, IsThread
<1>4. QED BY <1>2, <1>3, ThreadFrame DEF AddCount, TypeOK

\* Every step of a thread keeps the types.
LEMMA ThreadStepType ==
    ASSUME TypeOK, NEW t \in DOMAIN thread, ThreadStep(t) PROVE TypeOK'
BY StartSearchType, TryCandidateType, RejectType, WriteMatchType, ExpandSearchType,
   BacktrackType, StoreStopType, AddCountType DEF ThreadStep

\* The vertices of a call's graph are 0 .. vertex_count - 1.
LEMMA VertexRange ==
    ASSUME NEW c \in Calls
    PROVE  /\ vertex_count(c.graph) \in Nat
           /\ Vertices(c.graph) = 0 .. vertex_count(c.graph) - 1
BY SearchAssumption, FS_CardinalityType DEF IsColoredGraph, vertex_count

\* A call starts without threads.
LEMMA FindAllType ==
    ASSUME TypeOK, NEW c \in Calls, FindAll(c) PROVE TypeOK'
<1>1. thread = <<>> /\ batch = {}
    BY DEF TypeOK, FindAll
<1>2. DOMAIN thread = {}
    BY <1>1
<1>3. call' = c /\ c # NoCall /\ main' = "check" /\ vertex' = 0
    BY SearchAssumption DEF FindAll
<1>4. start_vertex' \in Vertices(c.subgraph)
    BY ChooseStartType DEF FindAll
<1>5. vertex' \in 0 .. vertex_count(c.graph)
    BY <1>3, VertexRange
<1>6. QED BY <1>1, <1>2, <1>3, <1>4, <1>5, EmptyIsABag DEF TypeOK, FindAll, Graph, Subgraph

\* What the calling thread's steps leave alone.
LEMMA MainFrame ==
    ASSUME TypeOK, call # NoCall, call' = call, thread' = thread,
           NEW u \in DOMAIN thread
    PROVE  IsThread(thread[u])'
BY CallType DEF IsThread, SearchFrame, Graph, Subgraph

\* The loop of find_all goes on only before the last vertex.
LEMMA CheckStopType ==
    ASSUME TypeOK, CheckStop PROVE TypeOK'
<1>1. call # NoCall /\ call' = call /\ thread' = thread
    BY DEF TypeOK, CheckStop
<1>2. \A u \in DOMAIN thread' : IsThread(thread[u])'
    BY <1>1, MainFrame
<1>3. vertex \in 0 .. vertex_count(Graph) /\ vertex_count(Graph) \in Nat
    BY <1>1, CallType, VertexRange DEF Graph
<1>4. (main = "spawn" => vertex < vertex_count(Graph))'
    BY <1>1, <1>3 DEF CheckStop, Graph
<1>5. QED BY <1>1, <1>2, <1>4 DEF TypeOK, CheckStop, Graph, Subgraph

\* A thread is created for a vertex of the graph.
LEMMA SpawnThreadType ==
    ASSUME TypeOK, SpawnThread PROVE TypeOK'
<1>1. call # NoCall /\ call' = call /\ start_vertex \in Vertices(Subgraph) /\ call \in Calls
    BY CallType DEF TypeOK, SpawnThread
<1>2. /\ vertex \in Nat /\ vertex < vertex_count(Graph) /\ vertex_count(Graph) \in Nat
      /\ vertex \in Vertices(Graph)
    BY <1>1, VertexRange DEF TypeOK, SpawnThread, Graph
<1>3. vertex' \in 0 .. vertex_count(Graph)
    BY <1>2 DEF SpawnThread
<1>4. /\ DOMAIN thread' \subseteq DOMAIN thread \cup {vertex}
      /\ batch' \subseteq DOMAIN thread'
    BY <1>1, CallType DEF SpawnThread
<1>5. ASSUME NEW u \in DOMAIN thread' PROVE IsThread(thread'[u])
    <2>1. IsThread(NewThread(vertex))
        BY <1>1, <1>2, NewThreadType
    <2>2. u \in DOMAIN thread => IsThread(thread[u])
        BY <1>1, CallType
    <2>3. thread'[u] = NewThread(vertex) \/ (u \in DOMAIN thread /\ thread'[u] = thread[u])
        BY <1>4, <1>5 DEF SpawnThread
    <2>4. QED BY <2>1, <2>2, <2>3
<1>6. \A u \in DOMAIN thread' : IsThread(thread[u])'
    BY <1>1, <1>5 DEF IsThread, SearchFrame, Graph, Subgraph
<1>7. /\ main' \in {"join", "check"} /\ searcher' = searcher /\ m_stop' = m_stop
      /\ matches_counter' = matches_counter /\ result' = result /\ written' = written
      /\ start_vertex' = start_vertex
    BY DEF SpawnThread
<1>8. DOMAIN thread' \subseteq Vertices(Graph)
    BY <1>1, <1>2, <1>4, CallType
<1>9. QED BY <1>1, <1>3, <1>4, <1>6, <1>7, <1>8 DEF TypeOK, Graph, Subgraph

\* A batch is joined.
LEMMA JoinBatchType ==
    ASSUME TypeOK, JoinBatch PROVE TypeOK'
<1>1. call # NoCall /\ call' = call /\ thread' = thread
    BY DEF TypeOK, JoinBatch
<1>2. \A u \in DOMAIN thread' : IsThread(thread[u])'
    BY <1>1, MainFrame
<1>3. QED BY <1>1, <1>2 DEF TypeOK, JoinBatch, Graph, Subgraph

\* Between calls there is no thread.
LEMMA ReturnType ==
    ASSUME TypeOK, Return PROVE TypeOK'
BY DEF TypeOK, Return

\* Outside the calls and the steps, nothing moves.
LEMMA StutterType ==
    ASSUME TypeOK, UNCHANGED vars PROVE TypeOK'
<1>1. call' = call /\ thread' = thread
    BY DEF vars
<1>2. call # NoCall => \A u \in DOMAIN thread' : IsThread(thread[u])'
    BY <1>1, MainFrame
<1>3. QED BY <1>1, <1>2 DEF TypeOK, vars, Graph, Subgraph

\* Whatever graphs and patterns are searched, by however many threads, every
\* variable of find_all keeps its type.
THEOREM TypeCorrect == Spec => []TypeOK
<1>1. Init => TypeOK
    <2> SUFFICES ASSUME Init PROVE TypeOK
        OBVIOUS
    <2>1. main = "idle" /\ call = NoCall /\ thread = <<>> /\ batch = {}
        BY DEF Init
    <2>2. searcher \in Searchers /\ m_stop \in BOOLEAN /\ IsABag(written)
        BY EmptyIsABag DEF Init
    <2>3. matches_counter \in Nat /\ result \in Nat
        BY DEF Init
    <2>4. QED BY <2>1, <2>2, <2>3 DEF TypeOK
<1>2. TypeOK /\ [Next]_vars => TypeOK'
    <2> SUFFICES ASSUME TypeOK, [Next]_vars PROVE TypeOK'
        OBVIOUS
    <2>1. ASSUME NEW c \in Calls, FindAll(c) PROVE TypeOK'
        BY <2>1, FindAllType
    <2>2. ASSUME MainStep PROVE TypeOK'
        BY <2>2, CheckStopType, SpawnThreadType, JoinBatchType, ReturnType DEF MainStep
    <2>3. ASSUME NEW t \in DOMAIN thread, ThreadStep(t) PROVE TypeOK'
        BY <2>3, ThreadStepType
    <2>4. QED BY <2>1, <2>2, <2>3, StutterType DEF Next
<1>3. QED BY <1>1, <1>2, PTL DEF Spec

-----------------------------------------------------------------------------
(* The flag and the batch.                                                 *)

\* A match is in hand: the call stops at its first, and has written one.
InHand == call.stop /\ written # EmptyBag

\* StopMeansFound is not inductive: m_stop is raised by a thread in "found", so
\* the invariant follows the exception from the match to the store.
StopInv ==
    /\ StopMeansFound
    /\ \A t \in DOMAIN thread : thread[t].pc \in {"found", "stopped"} => InHand

\* ThreadsAreBounded is inductive with the room SpawnThread finds in the batch.
BatchInv ==
    /\ \A t \in DOMAIN thread : thread[t].pc # "done" => t \in batch
    /\ IsFiniteSet(batch)
    /\ Cardinality(batch) <= BATCH_SIZE
    /\ main \in {"check", "spawn"} => Cardinality(batch) < BATCH_SIZE

\* Where a call of recursion_search, or its return, leaves a thread.
LEMMA ReturnedPc ==
    ASSUME NEW c, IsThread(c)
    PROVE  /\ Returned(c).pc \in {"add", "loop"}
           /\ \A w, s : Called(c, w, s).pc \in {"add", "loop", "enter"}
BY DEF Returned, Called, IsThread

\* The same after an update of other fields.
LEMMA UpdatedPc ==
    ASSUME NEW c, IsThread(c), NEW R, NEW P, NEW C, NEW S
    PROVE  /\ Returned([c EXCEPT !.restrictions = R, !.chosen = C, !.path = P,
                                 !.stack = S]).pc \in {"add", "loop"}
           /\ \A w, s : Called([c EXCEPT !.stack = S], w, s).pc \in {"add", "loop", "enter"}
           /\ \A n : Returned([c EXCEPT !.count = n]).pc \in {"add", "loop"}
BY DEF Returned, Called, IsThread

\* What a step of a thread does to its pc and to what StopInv reads.
StepEffect(t) ==
    /\ DOMAIN thread' = DOMAIN thread
    /\ \A u \in DOMAIN thread : u # t => thread'[u] = thread[u]
    /\ UNCHANGED <<call, main, batch>>
    /\ thread[t].pc # "done"
    /\ thread'[t].pc = "found" => call.stop /\ written' # EmptyBag
    /\ thread'[t].pc = "stopped" => thread[t].pc = "found"
    /\ m_stop' => m_stop \/ thread[t].pc = "found"
    /\ written' = written \/ written' # EmptyBag

\* Every step of a thread is one of these.
LEMMA ThreadStepEffect ==
    ASSUME TypeOK, NEW t \in DOMAIN thread, ThreadStep(t)
    PROVE  StepEffect(t)
<1>1. IsThread(thread[t]) /\ call # NoCall
    BY CallType, ThreadsInCalls
<1>2. CASE StartSearch(t)
    BY <1>1, <1>2, ReturnedPc DEF StartSearch, StepEffect
<1>3. CASE TryCandidate(t)
    <2> DEFINE c == thread[t]
               S(w) == [c.stack EXCEPT ![Len(c.stack)].todo = @ \ {w}]
    <2>1. PICK w \in Top(c).todo :
            thread' = [thread EXCEPT ![t] =
                        Called([c EXCEPT !.stack = S(w)], w, Top(c).next)]
        BY <1>3 DEF TryCandidate
    <2>2. thread'[t].pc \in {"add", "loop", "enter"}
        BY <1>1, <2>1, UpdatedPc
    <2>3. QED BY <1>3, <2>1, <2>2 DEF TryCandidate, StepEffect
<1>4. CASE Reject(t)
    BY <1>1, <1>4, ReturnedPc DEF Reject, StepEffect
<1>5. CASE WriteMatch(t)
    <2>1. written' # EmptyBag
        BY <1>5, AddToBag DEF WriteMatch, TypeOK
    <2>2. Returned([thread[t] EXCEPT !.count = @ + 1]).pc \in {"add", "loop"}
        BY <1>1, UpdatedPc
    <2>3. [thread[t] EXCEPT !.pc = "found"].pc = "found"
        BY <1>1 DEF IsThread
    <2>4. thread'[t].pc \in {"add", "loop"} \/ (thread'[t].pc = "found" /\ call.stop)
        BY <1>5, <2>2, <2>3 DEF WriteMatch
    <2>5. QED BY <1>5, <2>1, <2>4 DEF WriteMatch, StepEffect
<1>6. CASE ExpandSearch(t)
    <2> DEFINE c == thread[t]
               chosen  == c.chosen \cup {c.sv}
               rest    == save_and_remove_restriction(c.restrictions, c.sv)
               updated == update_restrictions(rest, chosen, c.gv, c.sv)
               path    == Extended(c.path, c.gv, c.sv)
               into(S) == [c EXCEPT !.pc = "loop", !.path = path, !.chosen = chosen,
                                    !.restrictions = updated, !.stack = S]
    <2>1. \E f : thread' = [thread EXCEPT ![t] = into(Append(c.stack, f))]
        BY <1>6 DEF ExpandSearch
    <2>2. \A S : into(S).pc = "loop"
        BY <1>1 DEF IsThread
    <2>3. thread'[t].pc = "loop"
        <3> HIDE DEF into
        <3>1. QED BY <2>1, <2>2
    <2>4. QED BY <1>6, <2>1, <2>3 DEF ExpandSearch, StepEffect
<1>7. CASE Backtrack(t)
    <2> DEFINE c == thread[t]
               f == Top(c)
               d == [c EXCEPT !.restrictions = restore_restrictions(@, f.inverse),
                              !.chosen = @ \ {f.sv},
                              !.path = Restrict(@, DOMAIN @ \ {f.gv}),
                              !.stack = SubSeq(@, 1, Len(@) - 1)]
    <2>1. thread' = [thread EXCEPT ![t] = Returned(d)]
        BY <1>7 DEF Backtrack
    <2>2. Returned(d).pc \in {"add", "loop"}
        BY <1>1, UpdatedPc
    <2>3. thread'[t].pc \in {"add", "loop"}
        BY <2>1, <2>2
    <2>4. QED BY <1>7, <2>1, <2>3 DEF Backtrack, StepEffect
<1>8. CASE StoreStop(t)
    <2>1. thread'[t].pc = "stopped"
        BY <1>1, <1>8 DEF StoreStop, IsThread
    <2>2. QED BY <1>8, <2>1 DEF StoreStop, StepEffect
<1>9. CASE AddCount(t)
    <2>1. thread'[t].pc = "done"
        BY <1>9 DEF AddCount, NewThread
    <2>2. QED BY <1>9, <2>1 DEF AddCount, StepEffect
<1>10. QED BY <1>2, <1>3, <1>4, <1>5, <1>6, <1>7, <1>8, <1>9 DEF ThreadStep

\* Every step of a thread keeps StopInv.
LEMMA ThreadStepKeepsStop ==
    ASSUME TypeOK, StopInv, NEW t \in DOMAIN thread, ThreadStep(t) PROVE StopInv'
<1>1. StepEffect(t)
    BY ThreadStepEffect
<1>2. InHand => InHand'
    BY <1>1 DEF InHand, StepEffect
<1>3. StopMeansFound'
    BY <1>1, <1>2 DEF StopInv, StopMeansFound, StepEffect, InHand
<1>4. ASSUME NEW u \in DOMAIN thread', thread'[u].pc \in {"found", "stopped"} PROVE InHand'
    <2>1. CASE u = t
        BY <1>1, <1>2, <1>4, <2>1 DEF StopInv, StepEffect, InHand
    <2>2. CASE u # t
        BY <1>1, <1>2, <1>4, <2>2 DEF StopInv, StepEffect
    <2>3. QED BY <2>1, <2>2
<1>5. QED BY <1>3, <1>4 DEF StopInv

\* Every step of a thread keeps BatchInv.
LEMMA ThreadStepKeepsBatch ==
    ASSUME TypeOK, BatchInv, NEW t \in DOMAIN thread, ThreadStep(t) PROVE BatchInv'
<1>1. StepEffect(t)
    BY ThreadStepEffect
<1>2. QED BY <1>1 DEF BatchInv, StepEffect

\* Every step of the calling thread keeps StopInv.
LEMMA MainStepKeepsStop ==
    ASSUME TypeOK, StopInv, MainStep PROVE StopInv'
<1>1. CASE CheckStop
    BY <1>1 DEF StopInv, StopMeansFound, InHand, CheckStop
<1>2. CASE SpawnThread
    <2>1. ASSUME NEW u \in DOMAIN thread', thread'[u].pc \in {"found", "stopped"}
          PROVE  u \in DOMAIN thread /\ thread'[u] = thread[u]
        BY <1>2, <2>1 DEF SpawnThread, NewThread
    <2>2. QED BY <1>2, <2>1 DEF StopInv, StopMeansFound, InHand, SpawnThread
<1>3. CASE JoinBatch
    BY <1>3 DEF StopInv, StopMeansFound, InHand, JoinBatch
<1>4. CASE Return
    BY <1>4 DEF StopInv, StopMeansFound, InHand, Return
<1>5. QED BY <1>1, <1>2, <1>3, <1>4 DEF MainStep

\* Every step of the calling thread keeps BatchInv.
LEMMA MainStepKeepsBatch ==
    ASSUME TypeOK, BatchInv, MainStep PROVE BatchInv'
<1>1. CASE CheckStop
    BY <1>1 DEF BatchInv, CheckStop
<1>2. CASE SpawnThread
    <2>1. batch' = batch \/ batch' = batch \cup {vertex}
        BY <1>2 DEF SpawnThread
    <2>2. IsFiniteSet(batch')
        BY <2>1, FS_AddElement DEF BatchInv
    <2>3. /\ Cardinality(batch) \in Nat /\ Cardinality(batch) < BATCH_SIZE
          /\ IsFiniteSet(batch)
        BY <1>2, FS_CardinalityType DEF BatchInv, SpawnThread
    <2>4. Cardinality(batch') <= BATCH_SIZE
        <3>1. Cardinality(batch \cup {vertex}) <= Cardinality(batch) + 1
            BY <2>3, FS_AddElement
        <3>2. Cardinality(batch \cup {vertex}) \in Nat /\ BATCH_SIZE \in Nat
            BY <2>3, FS_AddElement, FS_CardinalityType, SearchAssumption
        <3>3. Cardinality(batch \cup {vertex}) <= BATCH_SIZE /\ Cardinality(batch) <= BATCH_SIZE
            BY <2>3, <3>1, <3>2
        <3>4. QED BY <2>1, <3>3
    <2>5. main' \in {"check", "spawn"} => Cardinality(batch') < BATCH_SIZE
        <3>1. CASE batch' = batch
            BY <2>3, <3>1
        <3>2. CASE batch' # batch /\ main' \in {"check", "spawn"}
            BY <1>2, <2>2, <3>2, FS_CardinalityType, SearchAssumption DEF SpawnThread
        <3>3. QED BY <3>1, <3>2
    <2>6. ASSUME NEW u \in DOMAIN thread', thread'[u].pc # "done" PROVE u \in batch'
        BY <1>2, <2>6 DEF SpawnThread, BatchInv
    <2>7. QED BY <2>2, <2>4, <2>5, <2>6 DEF BatchInv
<1>3. CASE JoinBatch
    BY <1>3, FS_EmptySet, SearchAssumption DEF BatchInv, JoinBatch, AllDone
<1>4. CASE Return
    BY <1>4, FS_EmptySet, SearchAssumption DEF BatchInv, Return
<1>5. QED BY <1>1, <1>2, <1>3, <1>4 DEF MainStep

\* A call starts with the flag down and no thread of an earlier call.
LEMMA FindAllKeeps ==
    ASSUME TypeOK, NEW c \in Calls, FindAll(c) PROVE StopInv' /\ BatchInv'
<1>1. DOMAIN thread = {} /\ batch = {}
    BY DEF TypeOK, FindAll
<1>2. QED BY <1>1, FS_EmptySet, SearchAssumption
          DEF StopInv, StopMeansFound, BatchInv, FindAll

\* StopInv is an invariant.
LEMMA StopInvariant == Spec => []StopInv
<1>1. Init => StopInv
    BY DEF Init, StopInv, StopMeansFound
<1>2. TypeOK /\ StopInv /\ [Next]_vars => StopInv'
    <2> SUFFICES ASSUME TypeOK, StopInv, [Next]_vars PROVE StopInv'
        OBVIOUS
    <2>1. CASE UNCHANGED vars
        BY <2>1 DEF vars, StopInv, StopMeansFound, InHand
    <2>2. QED BY <2>1, FindAllKeeps, MainStepKeepsStop, ThreadStepKeepsStop DEF Next
<1>3. QED BY <1>1, <1>2, TypeCorrect, PTL DEF Spec

\* A searcher called over and over never begins a search with the flag of an
\* earlier one up, and no thread raises it but for a match it has written.
THEOREM StopIsFound == Spec => []StopMeansFound
<1>1. StopInv => StopMeansFound
    BY DEF StopInv
<1>2. QED BY <1>1, StopInvariant, PTL

\* BatchInv is an invariant.
LEMMA BatchInvariant == Spec => []BatchInv
<1>1. Init => BatchInv
    BY FS_EmptySet, SearchAssumption DEF Init, BatchInv
<1>2. TypeOK /\ BatchInv /\ [Next]_vars => BatchInv'
    <2> SUFFICES ASSUME TypeOK, BatchInv, [Next]_vars PROVE BatchInv'
        OBVIOUS
    <2>1. CASE UNCHANGED vars
        BY <2>1 DEF vars, BatchInv
    <2>2. QED BY <2>1, FindAllKeeps, MainStepKeepsBatch, ThreadStepKeepsBatch DEF Next
<1>3. QED BY <1>1, <1>2, TypeCorrect, PTL DEF Spec

\* For every graph and every BATCH_SIZE, at most BATCH_SIZE search threads run,
\* and each of them will be joined before find_all returns.
THEOREM BoundedThreads == Spec => []ThreadsAreBounded
<1>1. BatchInv => ThreadsAreBounded
    BY DEF BatchInv, ThreadsAreBounded
<1>2. QED BY <1>1, BatchInvariant, PTL

-----------------------------------------------------------------------------
(* Edges, and what the operators on restrictions say about them.           *)

\* The graph and the pattern of the call, as the searcher takes them.
GraphsAgree ==
    /\ call \in Calls
    /\ Graph.directed = searcher.directed
    /\ Subgraph.directed = searcher.directed

\* Edges join two different vertices, and run both ways when undirected.
LEMMA EdgeFacts ==
    ASSUME GraphsAgree, NEW u, NEW w
    PROVE  /\ is_edge(Graph, u, w) =>
                 u \in Vertices(Graph) /\ w \in Vertices(Graph) /\ u # w
           /\ is_edge(Subgraph, u, w) =>
                 u \in Vertices(Subgraph) /\ w \in Vertices(Subgraph) /\ u # w
           /\ ~searcher.directed => (is_edge(Graph, u, w) <=> is_edge(Graph, w, u))
           /\ ~searcher.directed => (is_edge(Subgraph, u, w) <=> is_edge(Subgraph, w, u))
<1> DEFINE Fine(g) == /\ is_edge(g, u, w) => u \in Vertices(g) /\ w \in Vertices(g) /\ u # w
                      /\ is_edge(g, w, u) => u \in Vertices(g) /\ w \in Vertices(g)
                      /\ ~g.directed => (is_edge(g, u, w) <=> is_edge(g, w, u))
<1>1. ASSUME NEW g, IsColoredGraph(g) PROVE Fine(g)
    <2>1. ASSUME NEW a, NEW b, is_edge(g, a, b)
          PROVE  a \in Vertices(g) /\ b \in Vertices(g) /\ a # b
        <3>1. <<a, b>> \in g.edges
            BY <2>1 DEF is_edge
        <3>2. PICK x, y \in Vertices(g) : x # y /\ <<a, b>> = <<x, y>>
            BY <1>1, <3>1 DEF IsColoredGraph
        <3>3. a = x /\ b = y
            BY <3>2
        <3>4. QED BY <3>2, <3>3
    <2>2. ~g.directed => (is_edge(g, u, w) <=> is_edge(g, w, u))
        BY <1>1, <2>1 DEF IsColoredGraph
    <2>3. QED BY <2>1, <2>2
<1>2. IsColoredGraph(Graph) /\ IsColoredGraph(Subgraph)
    BY SearchAssumption DEF GraphsAgree, Graph, Subgraph
<1>3. Fine(Graph) /\ Fine(Subgraph)
    BY <1>1, <1>2
<1>4. QED BY <1>3 DEF GraphsAgree

\* all_adjacent finds the edges in both directions.
LEMMA AdjacentIff ==
    ASSUME GraphsAgree, NEW u, NEW v
    PROVE  u \in all_adjacent(Subgraph, v)
               <=> is_edge(Subgraph, v, u) \/ is_edge(Subgraph, u, v)
BY EdgeFacts DEF all_adjacent, get_neighbours

\* A filtered candidate keeps the edges.
LEMMA FilterKeepsEdges ==
    ASSUME GraphsAgree, NEW u, NEW sv, NEW gv, NEW R, NEW w \in filter_restriction(u, sv, gv, R)
    PROVE  /\ w \in R
           /\ is_edge(Subgraph, sv, u) => is_edge(Graph, gv, w)
           /\ is_edge(Subgraph, u, sv) => is_edge(Graph, w, gv)
BY EdgeFacts DEF filter_restriction

\* A fresh candidate has the colour and the edges.
LEMMA NewKeepsEdges ==
    ASSUME GraphsAgree, NEW u, NEW sv, NEW gv,
           u \in all_adjacent(Subgraph, sv),
           NEW w \in compute_new_restriction(u, sv, gv)
    PROVE  /\ get_vertex_color(Graph, w) = get_vertex_color(Subgraph, u)
           /\ is_edge(Subgraph, sv, u) => is_edge(Graph, gv, w)
           /\ is_edge(Subgraph, u, sv) => is_edge(Graph, w, gv)
<1>1. ASSUME NEW color, NEW d, NEW r, w \in colored_neighborhood(gv, color, d, r)
      PROVE  /\ get_vertex_color(Graph, w) = color
             /\ IF r THEN is_edge(Graph, w, gv) ELSE is_edge(Graph, gv, w)
    BY <1>1 DEF colored_neighborhood, get_neighbours
<1> DEFINE color == get_vertex_color(Subgraph, u)
           out   == is_edge(Subgraph, sv, u)
           in    == is_edge(Subgraph, u, sv)
           toU   == colored_neighborhood(gv, color, out_degree(Subgraph, u), FALSE)
           fromU == colored_neighborhood(gv, color, in_degree(Subgraph, u), TRUE)
<1>2. out \/ in
    BY AdjacentIff
<1>3. w \in toU => get_vertex_color(Graph, w) = color /\ is_edge(Graph, gv, w)
    BY <1>1
<1>4. w \in fromU => get_vertex_color(Graph, w) = color /\ is_edge(Graph, w, gv)
    BY <1>1
<1>5. /\ ~searcher.directed => w \in toU
      /\ searcher.directed /\ out /\ ~in => w \in toU
      /\ searcher.directed /\ in /\ ~out => w \in fromU
      /\ searcher.directed /\ out /\ in => w \in toU /\ w \in fromU
    BY DEF compute_new_restriction, intersect_neighborhoods
<1>6. ~searcher.directed => (is_edge(Graph, gv, w) <=> is_edge(Graph, w, gv))
    BY EdgeFacts
<1> HIDE DEF color, out, in, toU, fromU
<1>7. CASE ~searcher.directed
    BY <1>3, <1>5, <1>6, <1>7 DEF color
<1>8. CASE searcher.directed
    BY <1>2, <1>3, <1>4, <1>5, <1>8 DEF color, out, in
<1>9. QED BY <1>7, <1>8

-----------------------------------------------------------------------------
(* Placing the pair a thread was called for.                               *)

\* What a thread knows of the first frames of a stack depends on these only.
SameFrames(S, T, n) == \A i \in 1 .. n : S[i].gv = T[i].gv /\ S[i].sv = T[i].sv

\* Stacks with the same first frames say the same of a vertex.
LEMMA Prefix ==
    ASSUME NEW S, NEW T, NEW n, SameFrames(S, T, n), NEW u
    PROVE  /\ Reached(S, n, u) <=> Reached(T, n, u)
           /\ \A w : Agrees(S, n, u, w) <=> Agrees(T, n, u, w)
BY DEF SameFrames, Reached, Agrees

\* The pair agrees with every frame.
LEMMA CalledAgrees ==
    ASSUME NEW c, ThreadAgrees(c), IsThread(c), c.pc = "enter"
    PROVE  /\ c.sv \notin c.chosen
           /\ Agrees(c.stack, Len(c.stack), c.sv, c.gv)
<1> DEFINE S == c.stack
           k == Len(c.stack)
<1>1. k \in Nat
    BY DEF IsThread
<1>2. CASE k = 0
    <2>1. c.chosen = {}
        BY <1>2 DEF ThreadAgrees, FramesArePath
    <2>2. QED BY <1>2, <2>1 DEF ThreadAgrees, CallAgrees, Agrees
<1>3. CASE k # 0
    <2>1. c.sv \in DOMAIN c.restrictions /\ c.gv \in c.restrictions[c.sv]
        BY <1>3 DEF ThreadAgrees, CallAgrees
    <2>2. QED BY <2>1 DEF ThreadAgrees, RestrictionsAgree
<1>4. QED BY <1>2, <1>3

\* The partial match stays one.
LEMMA ExtendedEmbeds ==
    ASSUME GraphsAgree, NEW c, ThreadAgrees(c), IsThread(c), c.pc = "enter", Unmatched(c)
    PROVE  IsPartialEmbedding(Extended(c.path, c.gv, c.sv))
<1> DEFINE S == c.stack
           k == Len(c.stack)
           m == Extended(c.path, c.gv, c.sv)
<1>1. /\ DOMAIN m = DOMAIN c.path \cup {c.gv} /\ m[c.gv] = c.sv
      /\ \A v \in DOMAIN c.path : m[v] = c.path[v] /\ v # c.gv
    BY DEF Extended, Unmatched
<1>2. c.sv \notin c.chosen /\ Agrees(S, k, c.sv, c.gv)
    BY CalledAgrees
<1>3. ASSUME NEW v \in DOMAIN c.path
      PROVE  /\ m[v] # c.sv
             /\ is_edge(Subgraph, m[v], c.sv) => is_edge(Graph, v, c.gv)
             /\ is_edge(Subgraph, c.sv, m[v]) => is_edge(Graph, c.gv, v)
    <2>1. PICK i \in 1 .. k : S[i].gv = v
        BY DEF ThreadAgrees, FramesArePath
    <2>2. m[v] = S[i].sv /\ S[i].sv \in c.chosen
        BY <1>1, <2>1 DEF ThreadAgrees, FramesArePath
    <2>3. QED BY <1>2, <2>1, <2>2 DEF Agrees
<1>4. ASSUME NEW v \in DOMAIN c.path, searcher.induced
      PROVE  /\ is_edge(Graph, c.gv, v) => is_edge(Subgraph, c.sv, m[v])
             /\ is_edge(Graph, v, c.gv) => is_edge(Subgraph, m[v], c.sv)
    <2>1. is_induced_valid(c.path, c.gv, c.sv)
        BY <1>4 DEF Unmatched
    <2>2. is_edge(Graph, c.gv, v) => is_edge(Subgraph, c.sv, m[v])
        BY <1>1, <2>1, EdgeFacts DEF is_induced_valid, get_neighbours
    <2>3. is_edge(Graph, v, c.gv) /\ searcher.directed => is_edge(Subgraph, m[v], c.sv)
        BY <1>1, <2>1, EdgeFacts DEF is_induced_valid, get_neighbours
    <2>4. QED BY <2>2, <2>3, EdgeFacts
<1>5. IsPartialEmbedding(c.path)
    BY DEF ThreadAgrees
<1>6. get_vertex_color(Graph, c.gv) = get_vertex_color(Subgraph, c.sv)
    BY <1>2 DEF Agrees
<1>7. ~is_edge(Subgraph, c.sv, c.sv) /\ ~is_edge(Graph, c.gv, c.gv)
    BY EdgeFacts
<1> HIDE DEF m
<1>8. \A v \in DOMAIN m : get_vertex_color(Graph, v) = get_vertex_color(Subgraph, m[v])
    BY <1>1, <1>5, <1>6 DEF IsPartialEmbedding
<1>9. ASSUME NEW v \in DOMAIN m, NEW w \in DOMAIN m
      PROVE  /\ m[v] = m[w] => v = w
             /\ is_edge(Subgraph, m[v], m[w]) => is_edge(Graph, v, w)
             /\ searcher.induced /\ is_edge(Graph, v, w) => is_edge(Subgraph, m[v], m[w])
    <2>1. CASE v \in DOMAIN c.path /\ w \in DOMAIN c.path
        BY <1>1, <1>5, <2>1 DEF IsPartialEmbedding
    <2>2. CASE v = c.gv /\ w = c.gv
        BY <1>1, <1>7, <2>2
    <2>3. CASE v = c.gv /\ w \in DOMAIN c.path
        BY <1>1, <1>3, <1>4, <2>3
    <2>4. CASE v \in DOMAIN c.path /\ w = c.gv
        BY <1>1, <1>3, <1>4, <2>4
    <2>5. QED BY <1>1, <1>9, <2>1, <2>2, <2>3, <2>4
<1>10. QED BY <1>8, <1>9 DEF IsPartialEmbedding, m

\* Placing a vertex completes the match just when it was the only one not placed.
LEMMA CompleteCovers ==
    ASSUME GraphsAgree, NEW c, ThreadAgrees(c), IsThread(c), c.pc = "enter"
    PROVE  Complete(c) <=> c.chosen \cup {c.sv} = Vertices(Subgraph)
<1> DEFINE all == c.chosen \cup {c.sv}
<1>1. IsFiniteSet(Vertices(Subgraph))
    BY SearchAssumption DEF GraphsAgree, IsColoredGraph, Subgraph
<1>2. c.chosen \subseteq Vertices(Subgraph) /\ c.sv \in Vertices(Subgraph)
    BY DEF IsThread
<1>3. c.sv \notin c.chosen
    BY CalledAgrees
<1>4. IsFiniteSet(c.chosen) /\ all \subseteq Vertices(Subgraph)
    BY <1>1, <1>2, FS_Subset
<1>5. Cardinality(all) = Cardinality(c.chosen) + 1
    BY <1>3, <1>4, FS_AddElement
<1>6. Complete(c) <=> Cardinality(all) = Cardinality(Vertices(Subgraph))
    BY <1>5 DEF Complete, vertex_count
<1>7. QED BY <1>1, <1>4, <1>6, FS_Subset

\* With the last pattern vertex placed it is a match.
LEMMA CompleteEmbeds ==
    ASSUME GraphsAgree, NEW c, ThreadAgrees(c), IsThread(c), c.pc = "enter", Unmatched(c),
           Complete(c)
    PROVE  IsEmbedding(Extended(c.path, c.gv, c.sv), Subgraph, Graph, searcher.induced)
<1> DEFINE S == c.stack
           k == Len(c.stack)
           m == Extended(c.path, c.gv, c.sv)
           all == c.chosen \cup {c.sv}
<1>1. IsPartialEmbedding(m)
    BY ExtendedEmbeds
<1>2. /\ DOMAIN m = DOMAIN c.path \cup {c.gv} /\ m[c.gv] = c.sv
      /\ \A v \in DOMAIN c.path : m[v] = c.path[v]
    BY DEF Extended, Unmatched
<1>3. DOMAIN m \subseteq Vertices(Graph)
    BY <1>2 DEF IsThread
<1>4. {m[v] : v \in DOMAIN m} = all
    <2>1. \A v \in DOMAIN c.path : c.path[v] \in c.chosen
        BY DEF ThreadAgrees, FramesArePath
    <2>2. \A x \in c.chosen : \E v \in DOMAIN c.path : c.path[v] = x
        BY DEF ThreadAgrees, FramesArePath
    <2>3. QED BY <1>2, <2>1, <2>2
<1>5. all = Vertices(Subgraph)
    BY CompleteCovers
<1> HIDE DEF m, all
<1>6. QED BY <1>1, <1>3, <1>4, <1>5 DEF IsEmbedding, IsPartialEmbedding, m
-----------------------------------------------------------------------------
(* Descending: expand_search pushes a frame.                               *)

\* d is c with one more frame.
IsPush(c, d, k) ==
    /\ k \in Nat
    /\ Len(c.stack) = k /\ Len(d.stack) = k + 1
    /\ \A i \in 1 .. k : d.stack[i] = c.stack[i]

\* What is left of the candidates agrees with the frame pushed as well.
LEMMA UpdatedAgrees ==
    ASSUME GraphsAgree, NEW c, ThreadAgrees(c), IsThread(c), c.pc = "enter",
           NEW d, NEW k, IsPush(c, d, k),
           d.stack[k + 1].gv = c.gv, d.stack[k + 1].sv = c.sv,
           d.chosen = c.chosen \cup {c.sv},
           d.restrictions = update_restrictions(
                                save_and_remove_restriction(c.restrictions, c.sv),
                                d.chosen, c.gv, c.sv)
    PROVE  RestrictionsAgree(d)
<1> DEFINE S == c.stack
           T == d.stack
           R == c.restrictions
           U == d.restrictions
           chosen == d.chosen
           rest == save_and_remove_restriction(R, c.sv)
           touched == all_adjacent(Subgraph, c.sv) \ chosen
<1>0. U = update_restrictions(rest, chosen, c.gv, c.sv) /\ chosen = c.chosen \cup {c.sv}
    OBVIOUS
<1>1. /\ k \in Nat /\ k = Len(S) /\ Len(T) = k + 1
      /\ SameFrames(T, S, k) /\ T[k + 1].gv = c.gv /\ T[k + 1].sv = c.sv
    BY DEF IsPush, SameFrames
<1> HIDE DEF T, U, chosen
<1>2. /\ DOMAIN rest = DOMAIN R \ {c.sv}
      /\ \A u \in DOMAIN rest : rest[u] = R[u]
    BY DEF save_and_remove_restriction, Restrict
<1>3. DOMAIN U = DOMAIN rest \cup touched
    BY <1>0 DEF update_restrictions
<1>4. DOMAIN R \cap c.chosen = {}
    BY DEF ThreadAgrees, RestrictionsAgree
<1>5. DOMAIN U \cap chosen = {}
    BY <1>0, <1>2, <1>3, <1>4
<1>6. ASSUME NEW u PROVE Reached(T, k + 1, u) <=> Reached(S, k, u) \/ u \in all_adjacent(Subgraph, c.sv)
    <2>1. Reached(T, k, u) <=> Reached(S, k, u)
        BY <1>1, Prefix
    <2>2. 1 .. k + 1 = (1 .. k) \cup {k + 1}
        BY <1>1
    <2>3. QED BY <1>1, <2>1, <2>2 DEF Reached
<1>7. ASSUME NEW u \in Vertices(Subgraph) \ chosen, Reached(T, k + 1, u) PROVE u \in DOMAIN U
    <2>1. CASE u \in all_adjacent(Subgraph, c.sv)
        BY <1>3, <2>1
    <2>2. CASE Reached(S, k, u)
        <3>1. u \in DOMAIN R
            BY <1>0, <1>1, <1>7, <2>2 DEF ThreadAgrees, RestrictionsAgree
        <3>2. QED BY <1>0, <1>2, <1>3, <1>7, <3>1
    <2>3. QED BY <1>6, <1>7, <2>1, <2>2
<1>8. ASSUME NEW u, NEW w, Agrees(S, k, u, w),
             is_edge(Subgraph, c.sv, u) => is_edge(Graph, c.gv, w),
             is_edge(Subgraph, u, c.sv) => is_edge(Graph, w, c.gv)
      PROVE  Agrees(T, k + 1, u, w)
    <2>1. Agrees(T, k, u, w)
        BY <1>1, <1>8, Prefix
    <2>2. 1 .. k + 1 = (1 .. k) \cup {k + 1}
        BY <1>1
    <2>3. QED BY <1>1, <1>8, <2>1, <2>2 DEF Agrees
<1>9. ASSUME NEW u \in DOMAIN U, NEW w \in U[u] PROVE Agrees(T, k + 1, u, w)
    <2>1. CASE u \notin touched
        <3>1. u \in DOMAIN R /\ U[u] = R[u]
            BY <1>0, <1>2, <1>3, <1>9, <2>1 DEF update_restrictions
        <3>2. Agrees(S, k, u, w)
            BY <1>1, <1>9, <3>1 DEF ThreadAgrees, RestrictionsAgree
        <3>3. u \notin all_adjacent(Subgraph, c.sv)
            BY <1>5, <1>9, <2>1
        <3>4. ~is_edge(Subgraph, c.sv, u) /\ ~is_edge(Subgraph, u, c.sv)
            BY <3>3, AdjacentIff
        <3>5. QED BY <1>8, <3>2, <3>4
    <2>2. CASE u \in touched /\ u \notin DOMAIN rest
        <3>1. U[u] = compute_new_restriction(u, c.sv, c.gv)
            BY <1>0, <1>3, <2>2 DEF update_restrictions
        <3>2. /\ get_vertex_color(Graph, w) = get_vertex_color(Subgraph, u)
              /\ is_edge(Subgraph, c.sv, u) => is_edge(Graph, c.gv, w)
              /\ is_edge(Subgraph, u, c.sv) => is_edge(Graph, w, c.gv)
            BY <1>9, <2>2, <3>1, NewKeepsEdges
        <3>3. u \notin DOMAIN R /\ u \notin c.chosen /\ u \in Vertices(Subgraph)
            BY <1>0, <1>2, <2>2, AdjacentAreVertices
        <3>4. ~Reached(S, k, u)
            BY <1>1, <3>3 DEF ThreadAgrees, RestrictionsAgree
        <3>5. \A i \in 1 .. k : ~is_edge(Subgraph, S[i].sv, u) /\ ~is_edge(Subgraph, u, S[i].sv)
            BY <3>4, AdjacentIff DEF Reached
        <3>6. Agrees(S, k, u, w)
            BY <3>2, <3>5 DEF Agrees
        <3>7. QED BY <1>8, <3>2, <3>6
    <2>3. CASE u \in touched /\ u \in DOMAIN rest
        <3>1. U[u] = filter_restriction(u, c.sv, c.gv, R[u])
            BY <1>0, <1>2, <1>3, <2>3 DEF update_restrictions
        <3>2. /\ w \in R[u]
              /\ is_edge(Subgraph, c.sv, u) => is_edge(Graph, c.gv, w)
              /\ is_edge(Subgraph, u, c.sv) => is_edge(Graph, w, c.gv)
            BY <1>9, <3>1, FilterKeepsEdges
        <3>3. Agrees(S, k, u, w)
            BY <1>1, <1>2, <2>3, <3>2 DEF ThreadAgrees, RestrictionsAgree
        <3>4. QED BY <1>8, <3>2, <3>3
    <2>4. QED BY <2>1, <2>2, <2>3
<1> HIDE DEF rest, touched, S, R
<1>10. ASSUME NEW n, n = k + 1
      PROVE  /\ \A u \in Vertices(Subgraph) \ chosen : Reached(T, n, u) => u \in DOMAIN U
             /\ \A u \in DOMAIN U : \A w \in U[u] : Agrees(T, n, u, w)
    BY <1>7, <1>9, <1>10
<1>11. Len(T) = k + 1
    BY <1>1
<1>12. QED BY <1>5, <1>10, <1>11 DEF RestrictionsAgree, T, U, chosen

\* What the frame's undo set gives back agrees with the frames under it.
LEMMA InverseAgrees ==
    ASSUME GraphsAgree, NEW c, ThreadAgrees(c), IsThread(c), c.pc = "enter",
           NEW k, k = Len(c.stack),
           NEW inv, inv = inverse_restrictions(c.restrictions, c.chosen \cup {c.sv}, c.gv, c.sv)
    PROVE  /\ \A u \in Vertices(Subgraph) :
                /\ inv[u] # {} => \A j \in 1 .. k : c.stack[j].sv # u
                /\ \A w \in inv[u] \ {INVALID_VERTEX_ID} : Agrees(c.stack, k, u, w)
                /\ INVALID_VERTEX_ID \in inv[u] => ~Reached(c.stack, k, u)
           /\ INVALID_VERTEX_ID \notin inv[c.sv]
           /\ k > 0 => c.sv = c.stack[k].next /\ c.gv \in inv[c.sv]
           /\ k > 0 => c.stack[k].todo \subseteq inv[c.sv]
<1> DEFINE S == c.stack
           R == c.restrictions
           touched == all_adjacent(Subgraph, c.sv) \ (c.chosen \cup {c.sv})
<1>1. k \in Nat /\ c.sv \in Vertices(Subgraph) /\ R \in [DOMAIN R -> SUBSET Vertices(Graph)]
    BY DEF IsThread
<1>2. c.sv \notin c.chosen
    BY CalledAgrees
<1>3. INVALID_VERTEX_ID \notin Vertices(Graph)
    <2>1. Vertices(Graph) \subseteq Nat
        BY VertexRange DEF GraphsAgree, Graph
    <2>2. QED BY <2>1, SearchAssumption
<1>4. \A j \in 1 .. k : S[j].sv \in c.chosen
    BY DEF ThreadAgrees, FramesArePath
<1>5. \A u \in DOMAIN R : \A w \in R[u] : Agrees(S, k, u, w)
    BY DEF ThreadAgrees, RestrictionsAgree
<1>6. inv[c.sv] = IF c.sv \in DOMAIN R THEN R[c.sv] ELSE {}
    BY <1>1 DEF inverse_restrictions
<1>7. ASSUME NEW u \in Vertices(Subgraph)
      PROVE  /\ inv[u] # {} => \A j \in 1 .. k : S[j].sv # u
             /\ \A w \in inv[u] \ {INVALID_VERTEX_ID} : Agrees(S, k, u, w)
             /\ INVALID_VERTEX_ID \in inv[u] => ~Reached(S, k, u)
    <2>1. CASE u = c.sv
        BY <1>1, <1>2, <1>3, <1>4, <1>5, <1>6, <2>1
    <2>2. CASE u # c.sv /\ u \notin touched
        <3>1. inv[u] = {}
            BY <2>2 DEF inverse_restrictions
        <3>2. QED BY <3>1
    <2>3. CASE u # c.sv /\ u \in touched /\ u \notin DOMAIN R
        <3>1. inv[u] = {INVALID_VERTEX_ID}
            BY <2>3 DEF inverse_restrictions
        <3>2. ~Reached(S, k, u)
            BY <2>3 DEF ThreadAgrees, RestrictionsAgree
        <3>3. QED BY <1>4, <2>3, <3>1, <3>2
    <2>4. CASE u # c.sv /\ u \in touched /\ u \in DOMAIN R
        <3>1. inv[u] \subseteq R[u]
            BY <2>4 DEF inverse_restrictions
        <3>2. R[u] \subseteq Vertices(Graph)
            BY <1>1, <2>4
        <3>3. QED BY <1>3, <1>4, <1>5, <2>4, <3>1, <3>2
    <2>5. QED BY <2>1, <2>2, <2>3, <2>4
<1>8. INVALID_VERTEX_ID \notin inv[c.sv]
    BY <1>1, <1>3, <1>6
<1>9. ASSUME k > 0
      PROVE  c.sv = S[k].next /\ c.gv \in inv[c.sv] /\ S[k].todo \subseteq inv[c.sv]
    <2>1. c.sv = S[k].next /\ c.sv \in DOMAIN R /\ c.gv \in R[c.sv]
        BY <1>9 DEF ThreadAgrees, CallAgrees
    <2>2. S[k].todo # {} => S[k].todo \subseteq R[S[k].next]
        BY <1>9 DEF ThreadAgrees, TodoAgrees
    <2>3. QED BY <1>6, <2>1, <2>2
<1>10. QED BY <1>7, <1>8, <1>9

\* The frame pushed is the entry added to the path.
LEMMA PushFrames ==
    ASSUME NEW c, NEW d, NEW k, IsPush(c, d, k), FramesArePath(c),
           NEW gv, NEW sv, sv \notin c.chosen, gv \notin DOMAIN c.path,
           d.stack[k + 1].gv = gv, d.stack[k + 1].sv = sv,
           d.chosen = c.chosen \cup {sv}, d.path = Extended(c.path, gv, sv)
    PROVE  FramesArePath(d)
<1> DEFINE S == c.stack
           T == d.stack
<1>1. 1 .. k + 1 = (1 .. k) \cup {k + 1}
    BY DEF IsPush
<1>2. /\ c.chosen = {S[i].sv : i \in 1 .. k}
      /\ DOMAIN c.path = {S[i].gv : i \in 1 .. k}
      /\ \A i \in 1 .. k : c.path[S[i].gv] = S[i].sv
      /\ \A i, j \in 1 .. k : S[i].sv = S[j].sv \/ S[i].gv = S[j].gv => i = j
    BY DEF FramesArePath, IsPush
<1>3. \A i \in 1 .. k : /\ T[i].sv = S[i].sv /\ T[i].gv = S[i].gv
                         /\ T[i].sv \in c.chosen /\ T[i].gv \in DOMAIN c.path
    BY <1>2 DEF IsPush
<1>4. /\ DOMAIN d.path = DOMAIN c.path \cup {gv} /\ d.path[gv] = sv
      /\ \A v \in DOMAIN c.path : d.path[v] = c.path[v]
    BY DEF Extended
<1>5. T[k + 1].gv = gv /\ T[k + 1].sv = sv
    OBVIOUS
<1> HIDE DEF S, T
<1>6. d.chosen = {T[i].sv : i \in 1 .. k + 1}
    <2>1. ASSUME NEW x \in d.chosen PROVE \E i \in 1 .. k + 1 : T[i].sv = x
        BY <1>1, <1>2, <1>3, <1>5
    <2>2. ASSUME NEW i \in 1 .. k + 1 PROVE T[i].sv \in d.chosen
        BY <1>1, <1>3, <1>5
    <2>3. QED BY <2>1, <2>2
<1>7. DOMAIN d.path = {T[i].gv : i \in 1 .. k + 1}
    <2> DEFINE X == DOMAIN d.path
    <2>1. ASSUME NEW x \in X PROVE \E i \in 1 .. k + 1 : T[i].gv = x
        BY <1>1, <1>2, <1>3, <1>4, <1>5
    <2>2. ASSUME NEW i \in 1 .. k + 1 PROVE T[i].gv \in X
        BY <1>1, <1>3, <1>4, <1>5
    <2> HIDE DEF X
    <2>3. X = {T[i].gv : i \in 1 .. k + 1}
        BY <2>1, <2>2
    <2>4. QED BY <2>3 DEF X
<1>8. ASSUME NEW i \in 1 .. k + 1 PROVE d.path[T[i].gv] = T[i].sv
    BY <1>1, <1>2, <1>3, <1>4, <1>5
<1>9. ASSUME NEW i \in 1 .. k + 1, NEW j \in 1 .. k + 1,
             T[i].sv = T[j].sv \/ T[i].gv = T[j].gv
      PROVE  i = j
    <2>1. \A n \in 1 .. k : T[n].sv # T[k + 1].sv /\ T[n].gv # T[k + 1].gv
        BY <1>3, <1>5
    <2>2. CASE i \in 1 .. k /\ j \in 1 .. k
        BY <1>2, <1>3, <1>9, <2>2
    <2>3. CASE i = k + 1 \/ j = k + 1
        BY <1>1, <1>9, <2>1, <2>3
    <2>4. QED BY <1>1, <1>9, <2>2, <2>3
<1>10. QED BY <1>6, <1>7, <1>8, <1>9 DEF FramesArePath, IsPush, T

\* The undo sets of the frames under the new one are as good as before.
LEMMA PushUndo ==
    ASSUME NEW c, NEW d, NEW k, IsPush(c, d, k), UndoAgrees(c),
           NEW sv, d.stack[k + 1].sv = sv,
           NEW inv, d.stack[k + 1].inverse = inv,
           \A u \in Vertices(Subgraph) :
                /\ inv[u] # {} => \A j \in 1 .. k : c.stack[j].sv # u
                /\ \A w \in inv[u] \ {INVALID_VERTEX_ID} : Agrees(c.stack, k, u, w)
                /\ INVALID_VERTEX_ID \in inv[u] => ~Reached(c.stack, k, u),
           INVALID_VERTEX_ID \notin inv[sv],
           k > 0 => d.stack[k + 1].gv \in inv[sv]
    PROVE  UndoAgrees(d)
<1> DEFINE S == c.stack
           T == d.stack
<1>1. 1 .. k + 1 = (1 .. k) \cup {k + 1}
    BY DEF IsPush
<1>2. ASSUME NEW n \in 0 .. k
      PROVE  /\ \A j \in 1 .. n : T[j] = S[j]
             /\ \A u : Reached(T, n, u) <=> Reached(S, n, u)
             /\ \A u, w : Agrees(T, n, u, w) <=> Agrees(S, n, u, w)
    <2>1. \A j \in 1 .. n : T[j] = S[j]
        BY DEF IsPush
    <2>2. SameFrames(T, S, n)
        BY <2>1 DEF SameFrames
    <2>3. QED BY <2>1, <2>2, Prefix
<1>3. \A i \in 1 .. k : T[i] = S[i] /\ GivesBack(S, i, i - 1)
    BY DEF UndoAgrees, IsPush
<1>4. ASSUME NEW i \in 1 .. k, NEW n \in 0 .. k, GivesBack(S, i, n) PROVE GivesBack(T, i, n)
    <2>1. T[i] = S[i]
        BY <1>3
    <2> HIDE DEF S, T
    <2>2. QED BY <1>2, <1>4, <2>1 DEF GivesBack
<1>5. \A i \in 1 .. k : GivesBack(T, i, i - 1)
    <2>1. \A i \in 1 .. k : i - 1 \in 0 .. k
        BY DEF IsPush
    <2>2. QED BY <1>3, <1>4, <2>1
<1>6. GivesBack(T, k + 1, k)
    <2>1. k \in 0 .. k /\ (k + 1 > 1 <=> k > 0)
        BY DEF IsPush
    <2>2. /\ \A j \in 1 .. k : T[j] = S[j]
          /\ \A u : Reached(T, k, u) <=> Reached(S, k, u)
          /\ \A u, w : Agrees(T, k, u, w) <=> Agrees(S, k, u, w)
        BY <1>2, <2>1
    <2>3. T[k + 1].inverse = inv /\ T[k + 1].sv = sv
        OBVIOUS
    <2>4. ASSUME NEW u \in Vertices(Subgraph)
          PROVE  /\ inv[u] # {} => \A j \in 1 .. k : T[j].sv # u
                 /\ \A w \in inv[u] \ {INVALID_VERTEX_ID} : Agrees(T, k, u, w)
                 /\ INVALID_VERTEX_ID \in inv[u] => ~Reached(T, k, u)
        BY <2>2
    <2> HIDE DEF S, T
    <2>5. k + 1 > 1 => T[k + 1].gv \in inv[sv]
        BY <2>1 DEF T
    <2>6. QED BY <2>3, <2>4, <2>5 DEF GivesBack
<1>7. ASSUME NEW i \in 1 .. k + 1 PROVE GivesBack(T, i, i - 1)
    <2>1. CASE i \in 1 .. k
        BY <1>5, <2>1
    <2>2. CASE i = k + 1
        <3>1. i - 1 = k
            BY <2>2 DEF IsPush
        <3>2. QED BY <1>6, <2>2, <3>1
    <2>3. QED BY <1>1, <2>1, <2>2
<1>8. QED BY <1>7 DEF UndoAgrees, IsPush

\* The candidates still to try under the new frame are those it gives back.
LEMMA PushTodo ==
    ASSUME NEW c, NEW d, NEW k, IsPush(c, d, k), TodoAgrees(c),
           k > 0 => /\ d.stack[k + 1].sv = c.stack[k].next
                    /\ c.stack[k].todo \subseteq d.stack[k + 1].inverse[d.stack[k + 1].sv],
           d.stack[k + 1].todo # {} =>
               /\ d.stack[k + 1].next \in DOMAIN d.restrictions
               /\ d.stack[k + 1].todo \subseteq d.restrictions[d.stack[k + 1].next]
    PROVE  TodoAgrees(d)
<1> DEFINE S == c.stack
           T == d.stack
<1>1. ASSUME NEW i \in 1 .. k
      PROVE  T[i + 1].sv = T[i].next /\ T[i].todo \subseteq T[i + 1].inverse[T[i].next]
    <2>1. CASE i = k
        BY <2>1 DEF IsPush
    <2>2. CASE i # k
        <3>1. i \in 1 .. k - 1 /\ i + 1 \in 1 .. k
            BY <2>2 DEF IsPush
        <3>2. S[i + 1].sv = S[i].next /\ S[i].todo \subseteq S[i + 1].inverse[S[i].next]
            BY <3>1 DEF TodoAgrees, IsPush
        <3>3. T[i] = S[i] /\ T[i + 1] = S[i + 1]
            BY <3>1 DEF IsPush
        <3>4. QED BY <3>2, <3>3
    <2>3. QED BY <2>1, <2>2
<1>2. k + 1 - 1 = k
    BY DEF IsPush
<1>3. QED BY <1>1, <1>2 DEF TodoAgrees, IsPush

\* The thread knows as much one level deeper.
LEMMA DescendAgrees ==
    ASSUME GraphsAgree, NEW c, ThreadAgrees(c), IsThread(c), c.pc = "enter", Unmatched(c),
           NEW f, f.gv = c.gv, f.sv = c.sv,
           f.inverse = inverse_restrictions(c.restrictions, c.chosen \cup {c.sv}, c.gv, c.sv),
           NEW d, d.pc = "loop", d.path = Extended(c.path, c.gv, c.sv),
           d.chosen = c.chosen \cup {c.sv},
           d.restrictions = update_restrictions(
                                save_and_remove_restriction(c.restrictions, c.sv),
                                d.chosen, c.gv, c.sv),
           d.stack = Append(c.stack, f),
           f.todo # {} => /\ f.next \in DOMAIN d.restrictions
                          /\ f.todo \subseteq d.restrictions[f.next]
    PROVE  ThreadAgrees(d)
<1> DEFINE k == Len(c.stack)
<1>1. IsPush(c, d, k) /\ d.stack[k + 1] = f
    BY DEF IsThread, IsPush
<1>2. k \in Nat /\ Len(d.stack) = k + 1
    BY <1>1 DEF IsPush
<1> HIDE DEF k
<1>3. IsPartialEmbedding(d.path)
    BY ExtendedEmbeds
<1>4. FramesArePath(d)
    <2>1. c.sv \notin c.chosen /\ c.gv \notin DOMAIN c.path
        BY CalledAgrees DEF Unmatched
    <2>2. FramesArePath(c)
        BY DEF ThreadAgrees
    <2>3. QED BY <1>1, <2>1, <2>2, PushFrames
<1>5. RestrictionsAgree(d)
    BY <1>1, UpdatedAgrees
<1> DEFINE inv == f.inverse
<1>6. /\ \A u \in Vertices(Subgraph) :
           /\ inv[u] # {} => \A j \in 1 .. k : c.stack[j].sv # u
           /\ \A w \in inv[u] \ {INVALID_VERTEX_ID} : Agrees(c.stack, k, u, w)
           /\ INVALID_VERTEX_ID \in inv[u] => ~Reached(c.stack, k, u)
      /\ INVALID_VERTEX_ID \notin inv[c.sv]
      /\ k > 0 => c.sv = c.stack[k].next /\ c.gv \in inv[c.sv]
      /\ k > 0 => c.stack[k].todo \subseteq inv[c.sv]
    BY InverseAgrees DEF k
<1>7. UndoAgrees(d)
    <2>1. UndoAgrees(c)
        BY DEF ThreadAgrees
    <2>2. d.stack[k + 1].sv = c.sv /\ d.stack[k + 1].gv = c.gv /\ d.stack[k + 1].inverse = inv
        BY <1>1
    <2> HIDE DEF inv
    <2>3. QED BY <1>1, <1>6, <2>1, <2>2, PushUndo
<1>8. TodoAgrees(d)
    <2>1. TodoAgrees(c)
        BY DEF ThreadAgrees
    <2>2. k > 0 => /\ d.stack[k + 1].sv = c.stack[k].next
                   /\ c.stack[k].todo \subseteq d.stack[k + 1].inverse[d.stack[k + 1].sv]
        BY <1>1, <1>6
    <2>3. QED BY <1>1, <2>1, <2>2, PushTodo
<1>9. CallAgrees(d)
    BY DEF CallAgrees
<1>10. QED BY <1>3, <1>4, <1>5, <1>7, <1>8, <1>9 DEF ThreadAgrees
-----------------------------------------------------------------------------
(* Returning: expand_search rolls back and pops its frame; n frames stay.  *)

\* What restore_restrictions returns, entry by entry.
LEMMA Restored ==
    ASSUME NEW R, NEW inv, DOMAIN inv = Vertices(Subgraph),
           NEW Q, Q = restore_restrictions(R, inv)
    PROVE  /\ \A u \in DOMAIN Q :
                /\ u \in DOMAIN R \/ (u \in Vertices(Subgraph) /\ inv[u] # {})
                /\ u \in Vertices(Subgraph) => INVALID_VERTEX_ID \notin inv[u]
                /\ \A w \in Q[u] : (u \in DOMAIN R /\ w \in R[u]) \/ w \in inv[u]
           /\ \A u \in Vertices(Subgraph) :
                INVALID_VERTEX_ID \notin inv[u] /\ (u \in DOMAIN R \/ inv[u] # {})
                    => u \in DOMAIN Q /\ inv[u] \subseteq Q[u]
<1> DEFINE erased == {u \in DOMAIN inv : INVALID_VERTEX_ID \in inv[u]}
           refill == {u \in DOMAIN inv \ erased : inv[u] # {}}
<1>1. /\ DOMAIN Q = (DOMAIN R \cup refill) \ erased
      /\ \A u \in DOMAIN Q : Q[u] = (IF u \in DOMAIN R THEN R[u] ELSE {}) \cup inv[u]
    BY DEF restore_restrictions
<1>2. QED BY <1>1

\* An entry of the restrictions restored is for a vertex that is open again, and
\* agrees with the frames that stay.
LEMMA PopRestrictions ==
    ASSUME GraphsAgree, NEW c, NEW d, NEW n, IsPush(d, c, n), IsThread(c),
           FramesArePath(c), RestrictionsAgree(c), UndoAgrees(c),
           NEW f, f = c.stack[n + 1], f \in SearchFrame,
           d.chosen = c.chosen \ {f.sv},
           d.restrictions = restore_restrictions(c.restrictions, f.inverse)
    PROVE  RestrictionsAgree(d)
<1> DEFINE S == c.stack
           T == d.stack
           R == c.restrictions
           Q == d.restrictions
           inv == f.inverse
<1>1. /\ n \in Nat /\ Len(S) = n + 1 /\ Len(T) = n /\ n + 1 \in 1 .. n + 1
      /\ \A i \in 1 .. n : T[i] = S[i] /\ i \in 1 .. n + 1
      /\ 1 .. n + 1 = (1 .. n) \cup {n + 1}
    BY DEF IsPush
<1>2. /\ DOMAIN inv = Vertices(Subgraph) /\ f.sv \in Vertices(Subgraph) /\ S[n + 1] = f
      /\ DOMAIN R \subseteq Vertices(Subgraph)
    BY DEF SearchFrame, IsThread
<1>3. /\ c.chosen = {S[i].sv : i \in 1 .. n + 1}
      /\ \A i, j \in 1 .. n + 1 : S[i].sv = S[j].sv => i = j
    BY <1>1 DEF FramesArePath
<1>4. /\ DOMAIN R \cap c.chosen = {}
      /\ \A u \in Vertices(Subgraph) \ c.chosen : Reached(S, n + 1, u) => u \in DOMAIN R
      /\ \A u \in DOMAIN R : \A w \in R[u] : Agrees(S, n + 1, u, w)
    BY <1>1 DEF RestrictionsAgree
<1>5. /\ \A u \in Vertices(Subgraph) :
           /\ inv[u] # {} => \A j \in 1 .. n : S[j].sv # u
           /\ \A w \in inv[u] \ {INVALID_VERTEX_ID} : Agrees(S, n, u, w)
           /\ INVALID_VERTEX_ID \in inv[u] => ~Reached(S, n, u)
      /\ n > 0 => inv[f.sv] # {}
    <2>1. ASSUME NEW i, i = n + 1 PROVE GivesBack(S, i, n)
        <3>1. i \in 1 .. Len(c.stack) /\ i - 1 = n
            BY <1>1, <2>1
        <3>2. QED BY <3>1 DEF UndoAgrees
    <2>2. GivesBack(S, n + 1, n) /\ (n > 0 => n + 1 > 1)
        BY <1>1, <2>1
    <2> HIDE DEF S, inv
    <2>3. QED BY <1>2, <2>2 DEF GivesBack, inv
<1>6. ASSUME NEW u
      PROVE  /\ Reached(T, n, u) <=> Reached(S, n, u)
             /\ \A w : Agrees(T, n, u, w) <=> Agrees(S, n, u, w)
             /\ Reached(S, n, u) => Reached(S, n + 1, u)
             /\ \A w : Agrees(S, n + 1, u, w) => Agrees(S, n, u, w)
    <2>1. SameFrames(T, S, n)
        BY <1>1 DEF SameFrames
    <2>2. (Reached(T, n, u) <=> Reached(S, n, u))
          /\ \A w : Agrees(T, n, u, w) <=> Agrees(S, n, u, w)
        BY <2>1, Prefix
    <2>3. QED BY <1>1, <2>2 DEF Reached, Agrees
<1>7. Q = restore_restrictions(R, inv)
    OBVIOUS
<1> HIDE DEF S, T, R, Q, inv
<1>8. /\ \A u \in DOMAIN Q :
           /\ u \in DOMAIN R \/ (u \in Vertices(Subgraph) /\ inv[u] # {})
           /\ u \in Vertices(Subgraph) => INVALID_VERTEX_ID \notin inv[u]
           /\ \A w \in Q[u] : (u \in DOMAIN R /\ w \in R[u]) \/ w \in inv[u]
      /\ \A u \in Vertices(Subgraph) :
           INVALID_VERTEX_ID \notin inv[u] /\ (u \in DOMAIN R \/ inv[u] # {})
               => u \in DOMAIN Q /\ inv[u] \subseteq Q[u]
    BY <1>2, <1>7, Restored
<1>9. \A u \in d.chosen : u \in c.chosen /\ \E i \in 1 .. n : S[i].sv = u
    BY <1>1, <1>2, <1>3
<1>10. DOMAIN Q \cap d.chosen = {}
    BY <1>2, <1>4, <1>5, <1>8, <1>9
<1>11. ASSUME NEW u \in Vertices(Subgraph) \ d.chosen, Reached(T, n, u) PROVE u \in DOMAIN Q
    <2>1. Reached(S, n, u) /\ Reached(S, n + 1, u)
        BY <1>6, <1>11
    <2>2. INVALID_VERTEX_ID \notin inv[u]
        BY <1>5, <2>1
    <2>3. CASE u \notin c.chosen
        BY <1>4, <1>8, <2>1, <2>2, <2>3
    <2>4. CASE u \in c.chosen
        <3>1. u = f.sv
            BY <1>11, <2>4
        <3>2. n > 0
            BY <1>1, <2>1 DEF Reached
        <3>3. QED BY <1>5, <1>8, <2>2, <3>1, <3>2
    <2>5. QED BY <2>3, <2>4
<1>12. ASSUME NEW u \in DOMAIN Q, NEW w \in Q[u] PROVE Agrees(T, n, u, w)
    <2>1. CASE u \in DOMAIN R /\ w \in R[u]
        BY <1>4, <1>6, <2>1
    <2>2. CASE w \in inv[u]
        BY <1>2, <1>5, <1>6, <1>8, <1>12, <2>2
    <2>3. QED BY <1>8, <1>12, <2>1, <2>2
<1>13. QED BY <1>1, <1>10, <1>11, <1>12 DEF RestrictionsAgree, T, Q

\* The candidates still to try are candidates again.
LEMMA PopTodo ==
    ASSUME NEW c, NEW d, NEW n, IsPush(d, c, n), UndoAgrees(c), TodoAgrees(c),
           NEW f, f = c.stack[n + 1], f \in SearchFrame,
           d.restrictions = restore_restrictions(c.restrictions, f.inverse)
    PROVE  TodoAgrees(d)
<1> DEFINE S == c.stack
           T == d.stack
           Q == d.restrictions
<1>1. /\ n \in Nat /\ Len(S) = n + 1 /\ Len(T) = n /\ n + 1 \in 1 .. n + 1
      /\ \A i \in 1 .. n : T[i] = S[i]
      /\ n + 1 - 1 = n
    BY DEF IsPush
<1>2. DOMAIN f.inverse = Vertices(Subgraph) /\ f.sv \in Vertices(Subgraph)
    BY DEF SearchFrame
<1>3. INVALID_VERTEX_ID \notin f.inverse[f.sv]
    BY <1>1 DEF UndoAgrees, GivesBack
<1>4. \A i \in 1 .. n : S[i + 1].sv = S[i].next /\ S[i].todo \subseteq S[i + 1].inverse[S[i].next]
    BY <1>1 DEF TodoAgrees
<1>5. ASSUME n > 0, T[n].todo # {}
      PROVE  T[n].next \in DOMAIN Q /\ T[n].todo \subseteq Q[T[n].next]
    <2>1. n \in 1 .. n
        BY <1>1, <1>5
    <2>2. f.sv = S[n].next /\ S[n].todo \subseteq f.inverse[f.sv] /\ T[n] = S[n]
        BY <1>1, <1>4, <2>1
    <2>3. f.inverse[f.sv] # {}
        BY <1>5, <2>2
    <2>4. f.sv \in DOMAIN Q /\ f.inverse[f.sv] \subseteq Q[f.sv]
        BY <1>2, <1>3, <2>3, Restored
    <2>5. QED BY <2>2, <2>4
<1>6. ASSUME NEW i \in 1 .. n - 1
      PROVE  T[i + 1].sv = T[i].next /\ T[i].todo \subseteq T[i + 1].inverse[T[i].next]
    <2>1. i \in 1 .. n /\ i + 1 \in 1 .. n
        BY <1>1
    <2>2. QED BY <1>1, <1>4, <2>1
<1>7. QED BY <1>1, <1>5, <1>6 DEF TodoAgrees

\* Popping a frame takes its entry out of the path.
LEMMA PopFrames ==
    ASSUME NEW c, NEW d, NEW n, IsPush(d, c, n), FramesArePath(c),
           NEW f, f = c.stack[n + 1],
           d.chosen = c.chosen \ {f.sv}, d.path = Restrict(c.path, DOMAIN c.path \ {f.gv})
    PROVE  FramesArePath(d)
<1> DEFINE S == c.stack
           T == d.stack
<1>1. /\ 1 .. n + 1 = (1 .. n) \cup {n + 1} /\ n + 1 \notin 1 .. n
      /\ Len(S) = n + 1 /\ Len(T) = n
      /\ \A i \in 1 .. n : T[i] = S[i]
    BY DEF IsPush
<1>2. /\ c.chosen = {S[i].sv : i \in 1 .. n + 1}
      /\ DOMAIN c.path = {S[i].gv : i \in 1 .. n + 1}
      /\ \A i \in 1 .. n + 1 : c.path[S[i].gv] = S[i].sv
      /\ \A i, j \in 1 .. n + 1 : S[i].sv = S[j].sv \/ S[i].gv = S[j].gv => i = j
    BY <1>1 DEF FramesArePath
<1>3. /\ DOMAIN d.path = DOMAIN c.path \ {f.gv}
      /\ \A v \in DOMAIN d.path : d.path[v] = c.path[v]
    BY DEF Restrict
<1>4. S[n + 1] = f
    OBVIOUS
<1>5. \A i \in 1 .. n : S[i].sv # f.sv /\ S[i].gv # f.gv
    BY <1>1, <1>2, <1>4
<1> HIDE DEF S, T
<1>6. d.chosen = {T[i].sv : i \in 1 .. n}
    <2>1. ASSUME NEW x \in d.chosen PROVE \E i \in 1 .. n : T[i].sv = x
        BY <1>1, <1>2, <1>4
    <2>2. ASSUME NEW i \in 1 .. n PROVE T[i].sv \in d.chosen
        BY <1>1, <1>2, <1>5
    <2>3. QED BY <2>1, <2>2
<1>7. DOMAIN d.path = {T[i].gv : i \in 1 .. n}
    <2> DEFINE X == DOMAIN d.path
    <2>1. ASSUME NEW x \in X PROVE \E i \in 1 .. n : T[i].gv = x
        BY <1>1, <1>2, <1>3, <1>4
    <2>2. ASSUME NEW i \in 1 .. n PROVE T[i].gv \in X
        BY <1>1, <1>2, <1>3, <1>5
    <2> HIDE DEF X
    <2>3. X = {T[i].gv : i \in 1 .. n}
        BY <2>1, <2>2
    <2>4. QED BY <2>3 DEF X
<1>8. ASSUME NEW i \in 1 .. n PROVE d.path[T[i].gv] = T[i].sv
    BY <1>1, <1>2, <1>3, <1>5
<1>9. \A i, j \in 1 .. n : T[i].sv = T[j].sv \/ T[i].gv = T[j].gv => i = j
    BY <1>1, <1>2
<1>10. QED BY <1>1, <1>6, <1>7, <1>8, <1>9 DEF FramesArePath, T

\* The undo sets of the frames that stay are those they were.
LEMMA PopUndo ==
    ASSUME NEW c, NEW d, NEW n, IsPush(d, c, n), UndoAgrees(c)
    PROVE  UndoAgrees(d)
<1> DEFINE S == c.stack
           T == d.stack
<1>1. /\ n \in Nat /\ Len(S) = n + 1 /\ Len(T) = n
      /\ \A i \in 1 .. n : T[i] = S[i] /\ i \in 1 .. n + 1
    BY DEF IsPush
<1>2. ASSUME NEW i \in 1 .. n, NEW m, m = i - 1 PROVE GivesBack(T, i, m)
    <2>1. GivesBack(S, i, m)
        BY <1>1, <1>2 DEF UndoAgrees
    <2>2. T[i] = S[i] /\ \A j \in 1 .. m : T[j] = S[j]
        BY <1>1, <1>2
    <2>3. SameFrames(T, S, m)
        BY <2>2 DEF SameFrames
    <2>4. /\ \A u : Reached(T, m, u) <=> Reached(S, m, u)
          /\ \A u, w : Agrees(T, m, u, w) <=> Agrees(S, m, u, w)
        BY <2>3, Prefix
    <2> HIDE DEF S, T
    <2>5. QED BY <2>1, <2>2, <2>4 DEF GivesBack
<1>3. QED BY <1>1, <1>2 DEF UndoAgrees

\* The thread knows as much one level up.
LEMMA PopAgrees ==
    ASSUME GraphsAgree, NEW c, ThreadAgrees(c), IsThread(c),
           NEW d, NEW n, IsPush(d, c, n), NEW f, f = c.stack[n + 1],
           d.restrictions = restore_restrictions(c.restrictions, f.inverse),
           d.chosen = c.chosen \ {f.sv}, d.path = Restrict(c.path, DOMAIN c.path \ {f.gv}),
           d.pc \notin {"start", "enter"}
    PROVE  ThreadAgrees(d)
<1>1. f \in SearchFrame
    BY DEF IsThread, IsPush
<1>2. /\ IsPartialEmbedding(c.path) /\ FramesArePath(c) /\ RestrictionsAgree(c)
      /\ UndoAgrees(c) /\ TodoAgrees(c)
    BY DEF ThreadAgrees
<1>3. IsPartialEmbedding(d.path)
    <2>1. /\ DOMAIN d.path \subseteq DOMAIN c.path
          /\ \A v \in DOMAIN d.path : d.path[v] = c.path[v]
        BY DEF Restrict
    <2>2. QED BY <1>2, <2>1 DEF IsPartialEmbedding
<1>4. FramesArePath(d)
    BY <1>2, PopFrames
<1>5. RestrictionsAgree(d)
    BY <1>1, <1>2, PopRestrictions
<1>6. UndoAgrees(d)
    BY <1>2, PopUndo
<1>7. TodoAgrees(d)
    BY <1>1, <1>2, PopTodo
<1>8. CallAgrees(d)
    BY DEF CallAgrees
<1>9. QED BY <1>3, <1>4, <1>5, <1>6, <1>7, <1>8 DEF ThreadAgrees

-----------------------------------------------------------------------------
(* The steps that place and take back nothing.                             *)

\* d holds what c held, some candidates still to try apart.
Keeps(c, d) ==
    /\ d.path = c.path /\ d.chosen = c.chosen /\ d.restrictions = c.restrictions
    /\ Len(c.stack) \in Nat /\ Len(d.stack) = Len(c.stack)
    /\ \A i \in 1 .. Len(c.stack) :
         /\ d.stack[i].gv = c.stack[i].gv /\ d.stack[i].sv = c.stack[i].sv
         /\ d.stack[i].inverse = c.stack[i].inverse /\ d.stack[i].next = c.stack[i].next
         /\ d.stack[i].todo \subseteq c.stack[i].todo

\* Giving up candidates, a thread still knows what it knew.
LEMMA KeepsAgrees ==
    ASSUME NEW c, NEW d, ThreadAgrees(c), Keeps(c, d), CallAgrees(d)
    PROVE  ThreadAgrees(d)
<1> DEFINE S == c.stack
           T == d.stack
           k == Len(c.stack)
<1>1. /\ k \in Nat /\ Len(T) = k
      /\ d.path = c.path /\ d.chosen = c.chosen /\ d.restrictions = c.restrictions
      /\ \A i \in 1 .. k :
           /\ T[i].gv = S[i].gv /\ T[i].sv = S[i].sv
           /\ T[i].inverse = S[i].inverse /\ T[i].next = S[i].next
           /\ T[i].todo \subseteq S[i].todo
    BY DEF Keeps
<1>2. ASSUME NEW n \in 0 .. k
      PROVE  /\ \A u : Reached(T, n, u) <=> Reached(S, n, u)
             /\ \A u, w : Agrees(T, n, u, w) <=> Agrees(S, n, u, w)
    <2>1. SameFrames(T, S, n)
        BY <1>1 DEF SameFrames
    <2>2. QED BY <2>1, Prefix
<1>3. k \in 0 .. k
    BY <1>1
<1>4. FramesArePath(c) /\ RestrictionsAgree(c) /\ UndoAgrees(c) /\ TodoAgrees(c)
    BY DEF ThreadAgrees
<1>5. FramesArePath(d)
    <2>1. {T[i].sv : i \in 1 .. k} = {S[i].sv : i \in 1 .. k}
        BY <1>1
    <2>2. {T[i].gv : i \in 1 .. k} = {S[i].gv : i \in 1 .. k}
        BY <1>1
    <2>3. QED BY <1>1, <1>4, <2>1, <2>2 DEF FramesArePath
<1>6. RestrictionsAgree(d)
    <2>1. /\ \A u : Reached(T, k, u) <=> Reached(S, k, u)
          /\ \A u, w : Agrees(T, k, u, w) <=> Agrees(S, k, u, w)
        BY <1>2, <1>3
    <2>2. QED BY <1>1, <1>4, <2>1 DEF RestrictionsAgree
<1>7. UndoAgrees(d)
    <2>1. ASSUME NEW i \in 1 .. k, NEW m, m = i - 1 PROVE GivesBack(T, i, m)
        <3>0. m \in 0 .. k
            BY <1>1, <2>1
        <3>1. GivesBack(S, i, m)
            BY <1>4, <2>1 DEF UndoAgrees
        <3>2. /\ \A u : Reached(T, m, u) <=> Reached(S, m, u)
              /\ \A u, w : Agrees(T, m, u, w) <=> Agrees(S, m, u, w)
            BY <1>2, <3>0
        <3>3. \A j \in 1 .. m : T[j].sv = S[j].sv
            BY <1>1, <2>1
        <3>4. T[i].gv = S[i].gv /\ T[i].sv = S[i].sv /\ T[i].inverse = S[i].inverse
            BY <1>1
        <3> HIDE DEF S, T
        <3>5. QED BY <3>1, <3>2, <3>3, <3>4 DEF GivesBack
    <2>2. QED BY <1>1, <2>1 DEF UndoAgrees
<1>8. TodoAgrees(d)
    <2>1. ASSUME NEW i \in 1 .. k - 1
          PROVE  T[i + 1].sv = T[i].next /\ T[i].todo \subseteq T[i + 1].inverse[T[i].next]
        <3>1. i \in 1 .. k /\ i + 1 \in 1 .. k
            BY <1>1
        <3>2. S[i + 1].sv = S[i].next /\ S[i].todo \subseteq S[i + 1].inverse[S[i].next]
            BY <1>4 DEF TodoAgrees
        <3>3. QED BY <1>1, <3>1, <3>2
    <2>2. ASSUME k > 0, T[k].todo # {}
          PROVE  T[k].next \in DOMAIN d.restrictions /\ T[k].todo \subseteq d.restrictions[T[k].next]
        <3>1. k \in 1 .. k
            BY <1>1, <2>2
        <3>2. T[k].todo \subseteq S[k].todo /\ T[k].next = S[k].next
            BY <1>1, <3>1
        <3>3. S[k].todo # {}
            BY <2>2, <3>2
        <3>4. S[k].next \in DOMAIN c.restrictions /\ S[k].todo \subseteq c.restrictions[S[k].next]
            BY <1>4, <2>2, <3>3 DEF TodoAgrees
        <3>5. QED BY <1>1, <3>2, <3>4
    <2>3. QED BY <1>1, <2>1, <2>2 DEF TodoAgrees
<1>9. IsPartialEmbedding(d.path)
    BY <1>1 DEF ThreadAgrees
<1>10. QED BY <1>5, <1>6, <1>7, <1>8, <1>9 DEF ThreadAgrees

\* A thread that is not about to enter recursion_search keeps all it knows.
LEMMA RestAgrees ==
    ASSUME NEW c, ThreadAgrees(c), IsThread(c), NEW d,
           d.path = c.path, d.chosen = c.chosen, d.restrictions = c.restrictions,
           d.stack = c.stack, d.pc \notin {"start", "enter"}
    PROVE  ThreadAgrees(d)
<1>1. Keeps(c, d)
    BY DEF Keeps, IsThread
<1>2. CallAgrees(d)
    BY DEF CallAgrees
<1>3. QED BY <1>1, <1>2, KeepsAgrees

\* recurse_candidates passes on one of its candidates.
LEMMA TryAgrees ==
    ASSUME NEW c, ThreadAgrees(c), IsThread(c), c.pc = "loop", NEW w \in Top(c).todo,
           NEW d, d = Called([c EXCEPT !.stack[Len(c.stack)].todo = @ \ {w}], w, Top(c).next)
    PROVE  ThreadAgrees(d)
<1> DEFINE k == Len(c.stack)
           e == [c EXCEPT !.stack[k].todo = @ \ {w}]
<1>1. k \in Nat /\ k > 0 /\ c.stack \in Seq(SearchFrame)
    BY DEF IsThread
<1>2. /\ e.path = c.path /\ e.chosen = c.chosen /\ e.restrictions = c.restrictions
      /\ Len(e.stack) = k
      /\ \A i \in 1 .. k : e.stack[i] = IF i = k THEN [c.stack[k] EXCEPT !.todo = @ \ {w}]
                                                ELSE c.stack[i]
    BY <1>1 DEF IsThread
<1>3. \A i \in 1 .. k : c.stack[i] \in SearchFrame
    BY <1>1
<1>4. \A i \in 1 .. k :
         /\ e.stack[i].gv = c.stack[i].gv /\ e.stack[i].sv = c.stack[i].sv
         /\ e.stack[i].inverse = c.stack[i].inverse /\ e.stack[i].next = c.stack[i].next
         /\ e.stack[i].todo \subseteq c.stack[i].todo
    BY <1>2, <1>3 DEF SearchFrame
<1>5. /\ d.path = e.path /\ d.chosen = e.chosen /\ d.restrictions = e.restrictions
      /\ d.stack = e.stack
    BY DEF Called, Returned, IsThread
<1>6. Keeps(c, d)
    BY <1>1, <1>2, <1>4, <1>5 DEF Keeps
<1>7. CallAgrees(d)
    <2>1. CASE m_stop
        <3>1. d.pc \in {"add", "loop"}
            BY <2>1 DEF Called, Returned, IsThread
        <3>2. QED BY <3>1 DEF CallAgrees
    <2>2. CASE ~m_stop
        <3>1. d.pc = "enter" /\ d.gv = w /\ d.sv = c.stack[k].next
            BY <2>2 DEF Called, IsThread, Top
        <3>2. /\ c.stack[k].next \in DOMAIN c.restrictions
              /\ w \in c.restrictions[c.stack[k].next]
            BY <1>1 DEF ThreadAgrees, TodoAgrees, Top
        <3>3. k \in 1 .. k
            BY <1>1
        <3>4. Len(d.stack) = k /\ k # 0
            BY <1>1, <1>2, <1>5
        <3>5. d.restrictions = c.restrictions
            BY <1>2, <1>5
        <3>6. d.stack[k].next = c.stack[k].next
            BY <1>6, <3>3 DEF Keeps
        <3> HIDE DEF k, e
        <3>7. QED BY <3>1, <3>2, <3>4, <3>5, <3>6 DEF CallAgrees
    <2>3. QED BY <2>1, <2>2
<1>8. QED BY <1>6, <1>7, KeepsAgrees

\* The thread's body passes on its own vertex, which has the start's colour.
LEMMA FirstCallAgrees ==
    ASSUME NEW c, ThreadAgrees(c), IsThread(c), c.pc = "start", NEW t,
           get_vertex_color(Graph, t) = get_vertex_color(Subgraph, start_vertex),
           NEW d, d = Called(c, t, start_vertex)
    PROVE  ThreadAgrees(d)
<1>1. Len(c.stack) = 0
    BY DEF ThreadAgrees, CallAgrees
<1>2. /\ d.path = c.path /\ d.chosen = c.chosen /\ d.restrictions = c.restrictions
      /\ d.stack = c.stack
    BY DEF Called, Returned, IsThread
<1>3. Keeps(c, d)
    BY <1>1, <1>2 DEF Keeps
<1>4. CASE m_stop
    <2>1. d.pc \in {"add", "loop"}
        BY <1>4 DEF Called, Returned, IsThread
    <2>2. QED BY <1>3, <2>1, KeepsAgrees DEF CallAgrees
<1>5. CASE ~m_stop
    <2>1. d.pc = "enter" /\ d.gv = t /\ d.sv = start_vertex
        BY <1>5 DEF Called, IsThread
    <2>2. CallAgrees(d)
        BY <1>1, <1>2, <2>1 DEF CallAgrees
    <2>3. QED BY <1>3, <2>2, KeepsAgrees
<1>6. QED BY <1>4, <1>5

\* A thread just made, or gone, knows nothing and owes nothing.
LEMMA NewAgrees ==
    ASSUME NEW c, c.stack = <<>>, c.restrictions = <<>>, c.path = <<>>, c.chosen = {},
           c.pc # "enter"
    PROVE  ThreadAgrees(c)
BY DEF ThreadAgrees, IsPartialEmbedding, FramesArePath, RestrictionsAgree, UndoAgrees,
       TodoAgrees, CallAgrees, Reached

-----------------------------------------------------------------------------
(* The steps of the system.                                                *)

\* What a thread knows is about the graphs and the searcher, which stay.
LEMMA StillAgrees ==
    ASSUME call' = call, searcher' = searcher, NEW u, ThreadAgrees(thread'[u])
    PROVE  ThreadAgrees(thread[u])'
<1>1. Graph' = Graph /\ Subgraph' = Subgraph /\ searcher' = searcher
    BY DEF Graph, Subgraph
<1>2. IsPartialEmbedding(thread[u].path)'
    BY <1>1 DEF ThreadAgrees, IsPartialEmbedding
<1>3. FramesArePath(thread[u])'
    BY DEF ThreadAgrees, FramesArePath
<1>4. /\ \A S, n, x, w : Agrees(S, n, x, w)' <=> Agrees(S, n, x, w)
      /\ \A S, n, x : Reached(S, n, x)' <=> Reached(S, n, x)
    BY <1>1 DEF Agrees, Reached, all_adjacent
<1>5. RestrictionsAgree(thread[u])'
    BY <1>1, <1>4 DEF ThreadAgrees, RestrictionsAgree
<1>6. UndoAgrees(thread[u])'
    BY <1>1, <1>4 DEF ThreadAgrees, UndoAgrees, GivesBack
<1>7. TodoAgrees(thread[u])'
    BY DEF ThreadAgrees, TodoAgrees
<1>8. CallAgrees(thread[u])'
    BY <1>1 DEF ThreadAgrees, CallAgrees
<1>9. QED BY <1>2, <1>3, <1>5, <1>6, <1>7, <1>8 DEF ThreadAgrees

\* A thread that runs, runs for a call.
LEMMA RunningAgrees ==
    ASSUME TypeOK, SoundInv, NEW t \in DOMAIN thread
    PROVE  /\ GraphsAgree /\ IsThread(thread[t]) /\ ThreadAgrees(thread[t])
           /\ get_vertex_color(Graph, t) = get_vertex_color(Subgraph, start_vertex)
<1>1. call # NoCall /\ call \in Calls /\ IsThread(thread[t])
    BY CallType, ThreadsInCalls
<1>2. QED BY <1>1 DEF SoundInv, StartAgrees, GraphsAgree

\* What was written stays a match.
LEMMA WrittenStay ==
    ASSUME SoundInv, call' = call, searcher' = searcher, written' = written
    PROVE  WrittenAreEmbeddings'
BY DEF SoundInv, WrittenAreEmbeddings, Graph, Subgraph

\* A step of one thread leaves the others as they are.
LEMMA StepAgrees ==
    ASSUME TypeOK, SoundInv, NEW t \in DOMAIN thread, NEW d, ThreadAgrees(d),
           thread' = [thread EXCEPT ![t] = d],
           call' = call, searcher' = searcher, start_vertex' = start_vertex,
           WrittenAreEmbeddings'
    PROVE  SoundInv'
<1>1. DOMAIN thread' = DOMAIN thread
    OBVIOUS
<1>2. ASSUME NEW u \in DOMAIN thread' PROVE ThreadAgrees(thread[u])'
    <2>1. thread'[u] = IF u = t THEN d ELSE thread[u]
        BY <1>1, <1>2
    <2>2. ThreadAgrees(thread'[u])
        BY <1>1, <1>2, <2>1 DEF SoundInv
    <2>3. QED BY <2>2, StillAgrees
<1>3. StartAgrees'
    BY <1>1 DEF SoundInv, StartAgrees, Graph, Subgraph
<1>4. QED BY <1>2, <1>3 DEF SoundInv

\* A thread starts at a vertex of the start's colour.
LEMMA StartSearchSound ==
    ASSUME TypeOK, SoundInv, NEW t \in DOMAIN thread, StartSearch(t) PROVE SoundInv'
<1> DEFINE d == Called(thread[t], t, start_vertex)
<1>1. ThreadAgrees(d)
    BY RunningAgrees, FirstCallAgrees DEF StartSearch
<1>2. /\ thread' = [thread EXCEPT ![t] = d]
      /\ call' = call /\ searcher' = searcher /\ start_vertex' = start_vertex
      /\ written' = written
    BY DEF StartSearch
<1> HIDE DEF d
<1>3. QED BY <1>1, <1>2, StepAgrees, WrittenStay

\* The pair it passes on is a candidate of the restriction.
LEMMA TryCandidateSound ==
    ASSUME TypeOK, SoundInv, NEW t \in DOMAIN thread, TryCandidate(t) PROVE SoundInv'
<1> DEFINE c == thread[t]
           d(w) == Called([c EXCEPT !.stack[Len(c.stack)].todo = @ \ {w}], w, Top(c).next)
<1>1. PICK w \in Top(c).todo : thread' = [thread EXCEPT ![t] = d(w)]
    BY DEF TryCandidate
<1>2. ThreadAgrees(c) /\ IsThread(c) /\ c.pc = "loop"
    BY RunningAgrees DEF TryCandidate
<1>3. ThreadAgrees(d(w))
    BY <1>2, TryAgrees
<1>4. /\ call' = call /\ searcher' = searcher /\ start_vertex' = start_vertex
      /\ written' = written
    BY DEF TryCandidate
<1> HIDE DEF d
<1>5. QED BY <1>1, <1>3, <1>4, StepAgrees, WrittenStay

\* A rejected pair leaves no trace.
LEMMA RejectSound ==
    ASSUME TypeOK, SoundInv, NEW t \in DOMAIN thread, Reject(t) PROVE SoundInv'
<1> DEFINE c == thread[t]
           d == Returned(c)
<1>1. ThreadAgrees(c) /\ IsThread(c)
    BY RunningAgrees
<1>2. /\ d.path = c.path /\ d.chosen = c.chosen /\ d.restrictions = c.restrictions
      /\ d.stack = c.stack /\ d.pc \notin {"start", "enter"}
    BY <1>1 DEF Returned, IsThread
<1>3. ThreadAgrees(d)
    BY <1>1, <1>2, RestAgrees
<1>4. /\ thread' = [thread EXCEPT ![t] = d]
      /\ call' = call /\ searcher' = searcher /\ start_vertex' = start_vertex
      /\ written' = written
    BY DEF Reject
<1> HIDE DEF d
<1>5. QED BY <1>3, <1>4, StepAgrees, WrittenStay

\* The handler does not touch the search.
LEMMA StoreStopSound ==
    ASSUME TypeOK, SoundInv, NEW t \in DOMAIN thread, StoreStop(t) PROVE SoundInv'
<1> DEFINE c == thread[t]
           d == [c EXCEPT !.pc = "stopped"]
<1>1. ThreadAgrees(c) /\ IsThread(c)
    BY RunningAgrees
<1>2. /\ d.path = c.path /\ d.chosen = c.chosen /\ d.restrictions = c.restrictions
      /\ d.stack = c.stack /\ d.pc \notin {"start", "enter"}
    BY <1>1 DEF IsThread
<1>3. ThreadAgrees(d)
    BY <1>1, <1>2, RestAgrees
<1>4. /\ thread' = [thread EXCEPT ![t] = d]
      /\ call' = call /\ searcher' = searcher /\ start_vertex' = start_vertex
      /\ written' = written
    BY DEF StoreStop
<1> HIDE DEF d
<1>5. QED BY <1>3, <1>4, StepAgrees, WrittenStay

\* A finished thread's context is gone.
LEMMA AddCountSound ==
    ASSUME TypeOK, SoundInv, NEW t \in DOMAIN thread, AddCount(t) PROVE SoundInv'
<1> DEFINE d == [NewThread(t) EXCEPT !.pc = "done"]
<1>1. ThreadAgrees(d)
    BY NewAgrees DEF NewThread
<1>2. /\ thread' = [thread EXCEPT ![t] = d]
      /\ call' = call /\ searcher' = searcher /\ start_vertex' = start_vertex
      /\ written' = written
    BY DEF AddCount
<1> HIDE DEF d
<1>3. QED BY <1>1, <1>2, StepAgrees, WrittenStay

\* The elements of a bag and of the bag with one more.
LEMMA AddedToBag ==
    ASSUME NEW B, NEW x PROVE BagToSet(B (+) SetToBag({x})) = BagToSet(B) \cup {x}
BY DEF BagToSet, SetToBag, (+)

\* The match written is one.
LEMMA WriteMatchSound ==
    ASSUME TypeOK, SoundInv, NEW t \in DOMAIN thread, WriteMatch(t) PROVE SoundInv'
<1> DEFINE c == thread[t]
           m == Extended(c.path, c.gv, c.sv)
           d == IF call.stop THEN [c EXCEPT !.pc = "found"]
                ELSE Returned([c EXCEPT !.count = @ + 1])
<1>1. GraphsAgree /\ ThreadAgrees(c) /\ IsThread(c)
    BY RunningAgrees
<1>2. /\ d.path = c.path /\ d.chosen = c.chosen /\ d.restrictions = c.restrictions
      /\ d.stack = c.stack /\ d.pc \notin {"start", "enter"}
    BY <1>1 DEF Returned, IsThread
<1>3. ThreadAgrees(d)
    BY <1>1, <1>2, RestAgrees
<1>4. /\ thread' = [thread EXCEPT ![t] = d]
      /\ call' = call /\ searcher' = searcher /\ start_vertex' = start_vertex
      /\ written' = written (+) SetToBag({m})
      /\ c.pc = "enter" /\ Unmatched(c) /\ Complete(c)
    BY DEF WriteMatch
<1>5. IsEmbedding(m, Subgraph, Graph, searcher.induced)
    BY <1>1, <1>4, CompleteEmbeds
<1> HIDE DEF d, m
<1>6. WrittenAreEmbeddings'
    <2>1. BagToSet(written') = BagToSet(written) \cup {m}
        BY <1>4, AddedToBag
    <2>2. call # NoCall /\ Graph' = Graph /\ Subgraph' = Subgraph
        BY <1>4, ThreadsInCalls DEF Graph, Subgraph
    <2>3. \A x \in BagToSet(written') : IsEmbedding(x, Subgraph, Graph, searcher.induced)
        BY <1>5, <2>1, <2>2 DEF SoundInv, WrittenAreEmbeddings
    <2>4. QED BY <1>4, <2>2, <2>3 DEF WrittenAreEmbeddings
<1>7. QED BY <1>3, <1>4, <1>6, StepAgrees

\* expand_search goes one level deeper.
LEMMA ExpandSearchSound ==
    ASSUME TypeOK, SoundInv, NEW t \in DOMAIN thread, ExpandSearch(t) PROVE SoundInv'
<1> DEFINE c       == thread[t]
           chosen  == c.chosen \cup {c.sv}
           rest    == save_and_remove_restriction(c.restrictions, c.sv)
           updated == update_restrictions(rest, chosen, c.gv, c.sv)
           inverse == inverse_restrictions(c.restrictions, chosen, c.gv, c.sv)
           frame(next, todo) ==
              [gv |-> c.gv, sv |-> c.sv, next |-> next, todo |-> todo, inverse |-> inverse]
           into(f) == [c EXCEPT !.pc = "loop", !.path = Extended(c.path, c.gv, c.sv),
                                !.chosen = chosen, !.restrictions = updated,
                                !.stack = Append(@, f)]
<1>1. /\ GraphsAgree /\ ThreadAgrees(c) /\ IsThread(c)
      /\ c.pc = "enter" /\ Unmatched(c)
    BY RunningAgrees DEF ExpandSearch
<1>2. \E next, todo :
        /\ thread' = [thread EXCEPT ![t] = into(frame(next, todo))]
        /\ todo # {} => next \in DOMAIN updated /\ todo \subseteq updated[next]
    <2> DEFINE empty == \E u \in all_adjacent(Subgraph, c.sv) \ chosen : updated[u] = {}
               todo(next) == IF next \in DOMAIN updated THEN updated[next] ELSE {}
    <2>1. CASE empty
        BY <2>1 DEF ExpandSearch
    <2>2. CASE ~empty
        <3>1. PICK next \in choose_next(updated, chosen) :
                thread' = [thread EXCEPT ![t] = into(frame(next, todo(next)))]
            BY <2>2 DEF ExpandSearch
        <3>2. todo(next) # {} => next \in DOMAIN updated /\ todo(next) \subseteq updated[next]
            OBVIOUS
        <3> HIDE DEF todo, into, frame, updated
        <3>3. QED BY <3>1, <3>2
    <2>3. QED BY <2>1, <2>2
<1>3. PICK next, todo :
        /\ thread' = [thread EXCEPT ![t] = into(frame(next, todo))]
        /\ todo # {} => next \in DOMAIN updated /\ todo \subseteq updated[next]
    BY <1>2
<1> DEFINE f == frame(next, todo)
           d == into(f)
<1>4. /\ f.gv = c.gv /\ f.sv = c.sv /\ f.inverse = inverse
      /\ f.next = next /\ f.todo = todo
    OBVIOUS
<1>5. /\ d.pc = "loop" /\ d.path = Extended(c.path, c.gv, c.sv) /\ d.chosen = chosen
      /\ d.restrictions = updated /\ d.stack = Append(c.stack, f)
    BY <1>1 DEF IsThread
<1>6. thread' = [thread EXCEPT ![t] = d]
    BY <1>3
<1> HIDE DEF f, d
<1>7. ThreadAgrees(d)
    BY <1>1, <1>3, <1>4, <1>5, DescendAgrees
<1>8. /\ call' = call /\ searcher' = searcher /\ start_vertex' = start_vertex
      /\ written' = written
    BY DEF ExpandSearch
<1>9. QED BY <1>6, <1>7, <1>8, StepAgrees, WrittenStay

\* expand_search comes back.
LEMMA BacktrackSound ==
    ASSUME TypeOK, SoundInv, NEW t \in DOMAIN thread, Backtrack(t) PROVE SoundInv'
<1> DEFINE c == thread[t]
           f == Top(c)
           n == Len(c.stack) - 1
           R == restore_restrictions(c.restrictions, f.inverse)
           C == c.chosen \ {f.sv}
           P == Restrict(c.path, DOMAIN c.path \ {f.gv})
           S == SubSeq(c.stack, 1, n)
           d == Returned([c EXCEPT !.restrictions = R, !.chosen = C, !.path = P, !.stack = S])
<1>1. GraphsAgree /\ ThreadAgrees(c) /\ IsThread(c) /\ c.pc = "loop"
    BY RunningAgrees DEF Backtrack
<1>2. c.stack \in Seq(SearchFrame) /\ n \in Nat /\ Len(c.stack) = n + 1
    BY <1>1 DEF IsThread
<1>3. f = c.stack[n + 1]
    BY <1>2 DEF Top
<1>4. Len(S) = n /\ \A i \in 1 .. n : S[i] = c.stack[i]
    BY <1>2
<1>5. thread' = [thread EXCEPT ![t] = d]
    BY DEF Backtrack
<1> HIDE DEF R, C, P, S
<1>6. /\ d.restrictions = R /\ d.chosen = C /\ d.path = P /\ d.stack = S
      /\ d.pc \notin {"start", "enter"}
    BY <1>1 DEF Returned, IsThread
<1>7. IsPush(d, c, n)
    BY <1>2, <1>4, <1>6 DEF IsPush
<1> HIDE DEF d, n, f
<1>8. ThreadAgrees(d)
    BY <1>1, <1>3, <1>6, <1>7, PopAgrees DEF R, C, P
<1>9. /\ call' = call /\ searcher' = searcher /\ start_vertex' = start_vertex
      /\ written' = written
    BY DEF Backtrack
<1>10. QED BY <1>5, <1>8, <1>9, StepAgrees, WrittenStay

\* Every step of a thread keeps the invariant.
LEMMA ThreadStepSound ==
    ASSUME TypeOK, SoundInv, NEW t \in DOMAIN thread, ThreadStep(t) PROVE SoundInv'
BY StartSearchSound, TryCandidateSound, RejectSound, WriteMatchSound, ExpandSearchSound,
   BacktrackSound, StoreStopSound, AddCountSound DEF ThreadStep

\* A call starts without threads and without matches, on graphs of the
\* searcher's kind.
LEMMA FindAllSound ==
    ASSUME TypeOK, SoundInv, NEW c \in Calls, FindAll(c) PROVE SoundInv'
<1>1. thread' = thread /\ thread = <<>> /\ DOMAIN thread = {}
    BY DEF FindAll, TypeOK
<1>2. /\ call' = c /\ searcher' = searcher /\ written' = EmptyBag
      /\ c.graph.directed = searcher.directed /\ c.subgraph.directed = searcher.directed
    BY DEF FindAll
<1>3. BagToSet(EmptyBag) = {}
    BY DEF BagToSet, EmptyBag, SetToBag
<1>4. WrittenAreEmbeddings'
    BY <1>2, <1>3 DEF WrittenAreEmbeddings
<1>5. StartAgrees'
    BY <1>1, <1>2 DEF StartAgrees, Graph, Subgraph
<1>6. QED BY <1>1, <1>4, <1>5 DEF SoundInv

\* What the calling thread's steps leave alone stays agreed.
LEMMA MainAgrees ==
    ASSUME SoundInv, call' = call, searcher' = searcher, start_vertex' = start_vertex,
           thread' = thread, written' = written
    PROVE  SoundInv'
<1>1. \A u \in DOMAIN thread' : ThreadAgrees(thread[u])'
    BY StillAgrees DEF SoundInv
<1>2. StartAgrees'
    BY DEF SoundInv, StartAgrees, Graph, Subgraph
<1>3. QED BY <1>1, <1>2, WrittenStay DEF SoundInv

\* A thread is started only at a vertex of the start's colour.
LEMMA SpawnThreadSound ==
    ASSUME TypeOK, SoundInv, SpawnThread PROVE SoundInv'
<1>1. /\ call' = call /\ searcher' = searcher /\ start_vertex' = start_vertex
      /\ written' = written
    BY DEF SpawnThread
<1> DEFINE right == get_vertex_color(Graph, vertex) = get_vertex_color(Subgraph, start_vertex)
<1>2. CASE ~right
    BY <1>1, <1>2, MainAgrees DEF SpawnThread
<1>3. CASE right
    <2>1. thread' = [t \in DOMAIN thread \cup {vertex} |->
                        IF t = vertex THEN NewThread(t) ELSE thread[t]]
        BY <1>3 DEF SpawnThread
    <2>2. ASSUME NEW u \in DOMAIN thread' PROVE ThreadAgrees(thread[u])'
        <3>1. CASE u = vertex
            <4>1. thread'[u] = NewThread(u)
                BY <2>1, <2>2, <3>1
            <4>2. ThreadAgrees(NewThread(u))
                BY NewAgrees DEF NewThread
            <4>3. QED BY <1>1, <4>1, <4>2, StillAgrees
        <3>2. CASE u # vertex
            <4>1. u \in DOMAIN thread /\ thread'[u] = thread[u]
                BY <2>1, <2>2, <3>2
            <4>2. QED BY <1>1, <4>1, StillAgrees DEF SoundInv
        <3>3. QED BY <3>1, <3>2
    <2>3. StartAgrees'
        BY <1>1, <1>3, <2>1 DEF SoundInv, StartAgrees, Graph, Subgraph
    <2>4. QED BY <1>1, <2>2, <2>3, WrittenStay DEF SoundInv
<1>4. QED BY <1>2, <1>3

\* Between calls nothing is claimed.
LEMMA ReturnSound ==
    ASSUME TypeOK, SoundInv, Return PROVE SoundInv'
<1>1. call' = NoCall /\ DOMAIN thread' = {}
    BY DEF Return
<1>2. QED BY <1>1 DEF SoundInv, StartAgrees, WrittenAreEmbeddings

\* Every step of the calling thread keeps the invariant.
LEMMA MainStepSound ==
    ASSUME TypeOK, SoundInv, MainStep PROVE SoundInv'
<1>1. ASSUME CheckStop PROVE SoundInv'
    BY <1>1, MainAgrees DEF CheckStop
<1>2. ASSUME JoinBatch PROVE SoundInv'
    BY <1>2, MainAgrees DEF JoinBatch
<1>3. QED BY <1>1, <1>2, SpawnThreadSound, ReturnSound DEF MainStep

\* SoundInv is an invariant.
LEMMA SoundInvariant == Spec => []SoundInv
<1>1. Init => SoundInv
    BY DEF Init, SoundInv, StartAgrees, WrittenAreEmbeddings
<1>2. TypeOK /\ SoundInv /\ [Next]_vars => SoundInv'
    <2> SUFFICES ASSUME TypeOK, SoundInv, [Next]_vars PROVE SoundInv'
        OBVIOUS
    <2>1. ASSUME NEW c \in Calls, FindAll(c) PROVE SoundInv'
        BY <2>1, FindAllSound
    <2>2. ASSUME MainStep PROVE SoundInv'
        BY <2>2, MainStepSound
    <2>3. ASSUME NEW t \in DOMAIN thread, ThreadStep(t) PROVE SoundInv'
        BY <2>3, ThreadStepSound
    <2>4. ASSUME UNCHANGED vars PROVE SoundInv'
        BY <2>4, MainAgrees DEF vars
    <2>5. QED BY <2>1, <2>2, <2>3, <2>4 DEF Next
<1>3. QED BY <1>1, <1>2, TypeCorrect, PTL DEF Spec

\* Whatever find_all writes, on any graph and pattern, with any prior policy,
\* batch size and interleaving of its threads, is a match of its pattern: one to
\* one, keeping colours and edges, and reflecting edges when induced.
THEOREM Soundness == Spec => []WrittenAreEmbeddings
<1>1. SoundInv => WrittenAreEmbeddings
    BY DEF SoundInv
<1>2. QED BY <1>1, SoundInvariant, PTL

-----------------------------------------------------------------------------
(* One thread.                                                             *)

Searching == {"start", "enter", "loop"}

\* A map that gives different vertices different ones.
OneToOne(m) == \A v, w \in DOMAIN m : m[v] = m[w] => v = w

\* A step of thread t from c to d moves on, and not back to what c has passed.
GoesOn(c, d, t) ==
    /\ MovesOn(d)
    /\ StartsAt(d, t)
    /\ \A m : OneToOne(m) /\ Passed(c, m) => Passed(d, m)

\* The end of the search, with the stack as it was or without it.
LEMMA EndGoesOn ==
    ASSUME NEW c, NEW d, NEW t, MovesOn(c), StartsAt(c, t),
           d.pc \notin Searching, d.stack = c.stack \/ Len(d.stack) = 0
    PROVE  GoesOn(c, d, t)
<1>1. ASSUME Len(d.stack) = 0 PROVE MovesOn(d) /\ StartsAt(d, t)
    BY <1>1 DEF MovesOn, StartsAt, Searching
<1>2. ASSUME d.stack = c.stack PROVE MovesOn(d) /\ StartsAt(d, t)
    BY <1>2 DEF MovesOn, StartsAt, Searching
<1>3. \A m : Passed(d, m)
    BY DEF Passed, Searching
<1>4. QED BY <1>1, <1>2, <1>3 DEF GoesOn

\* A return that leaves the stack alone.
LEMMA RestGoesOn ==
    ASSUME NEW c, NEW d, NEW t, MovesOn(c), StartsAt(c, t),
           c.pc \in Searching, d.stack = c.stack, d.pc \notin {"start", "enter"}
    PROVE  GoesOn(c, d, t)
<1>1. MovesOn(d) /\ StartsAt(d, t)
    BY DEF MovesOn, StartsAt
<1>2. ASSUME NEW m, Passed(c, m) PROVE Passed(d, m)
    BY <1>2 DEF Passed, Left, Searching
<1>3. QED BY <1>1, <1>2 DEF GoesOn

\* The call for the thread's own vertex.
LEMMA FirstCallGoesOn ==
    ASSUME NEW c, NEW d, NEW t, c.pc = "start", Len(c.stack) = 0,
           d.stack = c.stack, d.pc \in {"add", "enter"},
           d.pc = "enter" => d.gv = t /\ d.sv = start_vertex
    PROVE  GoesOn(c, d, t)
<1>1. MovesOn(d) /\ StartsAt(d, t)
    BY DEF MovesOn, StartsAt
<1>2. \A m : ~Passed(c, m)
    BY DEF Passed
<1>3. QED BY <1>1, <1>2 DEF GoesOn

\* The next candidate w: the innermost frame has it no longer to try.
LEMMA TryGoesOn ==
    ASSUME NEW c, NEW d, NEW t, NEW w, MovesOn(c), StartsAt(c, t), c.pc = "loop",
           NEW k \in Nat, k > 0, Len(c.stack) = k, Len(d.stack) = k,
           \A i \in 1 .. k : /\ d.stack[i].gv = c.stack[i].gv
                             /\ d.stack[i].sv = c.stack[i].sv
                             /\ d.stack[i].next = c.stack[i].next,
           \A i \in 1 .. k - 1 : d.stack[i].todo = c.stack[i].todo,
           w \in c.stack[k].todo, d.stack[k].todo = c.stack[k].todo \ {w},
           d.pc = "enter" => d.gv = w
    PROVE  GoesOn(c, d, t)
<1>1. MovesOn(d)
    BY DEF MovesOn
<1>2. StartsAt(d, t)
    BY DEF StartsAt
<1>3. ASSUME NEW m, Passed(c, m) PROVE Passed(d, m)
    <2>1. PICK i \in 1 .. k : /\ Follows(m, c.stack, i)
                              /\ \A v \in DOMAIN m : m[v] = c.stack[i].next => Left(c, i, v)
        BY <1>3 DEF Passed
    <2>2. Follows(m, d.stack, i)
        BY <2>1 DEF Follows
    <2>3. ASSUME NEW v \in DOMAIN m, m[v] = d.stack[i].next PROVE Left(d, i, v)
        <3>1. Left(c, i, v)
            BY <2>1, <2>3
        <3>2. CASE i < k
            BY <3>1, <3>2 DEF Left
        <3>3. CASE i = k
            BY <3>1, <3>3 DEF Left
        <3>4. QED BY <3>2, <3>3
    <2>4. QED BY <2>2, <2>3 DEF Passed
<1>4. QED BY <1>1, <1>2, <1>3 DEF GoesOn

\* One level deeper, with a frame for the pair that was called for.
LEMMA PushGoesOn ==
    ASSUME NEW c, NEW d, NEW t, MovesOn(c), StartsAt(c, t), c.pc = "enter", d.pc = "loop",
           NEW k \in Nat, Len(c.stack) = k, Len(d.stack) = k + 1,
           \A i \in 1 .. k : d.stack[i] = c.stack[i],
           d.stack[k + 1].gv = c.gv, d.stack[k + 1].sv = c.sv
    PROVE  GoesOn(c, d, t)
<1>1. MovesOn(d)
    <2>1. ASSUME NEW i \in 1 .. k PROVE d.stack[i + 1].gv \notin d.stack[i].todo
        <3>1. CASE i = k
            BY <3>1 DEF MovesOn
        <3>2. CASE i < k
            <4>1. i \in 1 .. Len(c.stack) - 1 /\ i + 1 \in 1 .. k
                BY <3>2
            <4>2. c.stack[i + 1].gv \notin c.stack[i].todo
                BY <4>1 DEF MovesOn
            <4>3. QED BY <4>1, <4>2
        <3>3. QED BY <3>1, <3>2
    <2>2. QED BY <2>1 DEF MovesOn
<1>2. StartsAt(d, t)
    <2>1. CASE k = 0
        BY <2>1 DEF StartsAt
    <2>2. CASE k > 0
        BY <2>2 DEF StartsAt
    <2>3. QED BY <2>1, <2>2
<1>3. ASSUME NEW m, Passed(c, m) PROVE Passed(d, m)
    <2>1. PICK i \in 1 .. k : /\ Follows(m, c.stack, i)
                              /\ \A v \in DOMAIN m : m[v] = c.stack[i].next => Left(c, i, v)
        BY <1>3 DEF Passed
    <2>2. Follows(m, d.stack, i)
        BY <2>1 DEF Follows
    <2>3. ASSUME NEW v \in DOMAIN m, m[v] = d.stack[i].next PROVE Left(d, i, v)
        <3>1. Left(c, i, v)
            BY <2>1, <2>3
        <3>2. CASE i < k
            BY <3>1, <3>2 DEF Left
        <3>3. CASE i = k
            BY <3>1, <3>3 DEF Left
        <3>4. QED BY <3>2, <3>3
    <2>4. QED BY <2>2, <2>3 DEF Passed
<1>4. QED BY <1>1, <1>2, <1>3 DEF GoesOn

\* One level back: what was passed inside the branch is passed with it.
LEMMA PopGoesOn ==
    ASSUME NEW c, NEW d, NEW t, MovesOn(c), StartsAt(c, t), c.pc = "loop",
           NEW n \in Nat, Len(c.stack) = n + 1, Len(d.stack) = n,
           \A i \in 1 .. n : d.stack[i] = c.stack[i],
           \A i \in 1 .. n : c.stack[i + 1].sv = c.stack[i].next,
           d.pc = IF n = 0 THEN "add" ELSE "loop"
    PROVE  GoesOn(c, d, t)
<1>1. MovesOn(d)
    BY DEF MovesOn
<1>2. StartsAt(d, t)
    BY DEF StartsAt
<1>3. ASSUME NEW m, OneToOne(m), Passed(c, m) PROVE Passed(d, m)
    <2>1. PICK i \in 1 .. n + 1 :
            /\ Follows(m, c.stack, i)
            /\ \A v \in DOMAIN m : m[v] = c.stack[i].next => Left(c, i, v)
        BY <1>3 DEF Passed
    <2>2. CASE n = 0
        BY <2>2 DEF Passed
    <2>3. CASE n > 0 /\ i <= n
        <3>1. Follows(m, d.stack, i)
            <4> DEFINE S == c.stack
                       T == d.stack
            <4>1. Follows(m, S, i) /\ \A j \in 1 .. i : T[j] = S[j]
                BY <2>1, <2>3
            <4> HIDE DEF S, T
            <4>2. Follows(m, T, i)
                BY <4>1 DEF Follows
            <4>3. QED BY <4>2 DEF T
        <3>2. ASSUME NEW v \in DOMAIN m, m[v] = d.stack[i].next PROVE Left(d, i, v)
            <4>1. Left(c, i, v)
                BY <2>1, <2>3, <3>2
            <4>2. QED BY <2>3, <4>1 DEF Left
        <3>3. QED BY <2>3, <3>1, <3>2 DEF Passed
    <2>4. CASE n > 0 /\ i = n + 1
        <3>1. Follows(m, d.stack, n)
            <4>1. Follows(m, c.stack, n + 1)
                BY <2>1, <2>4
            <4>2. QED BY <4>1, SMTT(40) DEF Follows
        <3>2. ASSUME NEW v \in DOMAIN m, m[v] = d.stack[n].next PROVE Left(d, n, v)
            <4>1. c.stack[n + 1].gv \in DOMAIN m /\ m[c.stack[n + 1].gv] = c.stack[n + 1].sv
                BY <2>1, <2>4 DEF Follows
            <4>2. m[v] = c.stack[n + 1].sv
                <5>1. n \in 1 .. n
                    BY <2>4
                <5>2. d.stack[n] = c.stack[n] /\ c.stack[n + 1].sv = c.stack[n].next
                    BY <5>1
                <5>3. QED BY <3>2, <5>2
            <4>3. v = c.stack[n + 1].gv
                BY <1>3, <4>1, <4>2 DEF OneToOne
            <4>4. v \notin c.stack[n].todo
                BY <2>4, <4>3 DEF MovesOn
            <4>5. QED BY <2>4, <4>4 DEF Left
        <3>3. QED BY <2>4, <3>1, <3>2 DEF Passed
    <2>5. QED BY <2>1, <2>2, <2>3, <2>4
<1>4. QED BY <1>1, <1>2, <1>3 DEF GoesOn

\* The match a thread is about to write is none that it has passed.
LEMMA NotPassed ==
    ASSUME NEW c, IsThread(c), ThreadAgrees(c), MovesOn(c), c.pc = "enter",
           Unmatched(c), OneToOne(Extended(c.path, c.gv, c.sv))
    PROVE  ~Passed(c, Extended(c.path, c.gv, c.sv))
<1> DEFINE S == c.stack
           k == Len(c.stack)
           m == Extended(c.path, c.gv, c.sv)
<1>1. k \in Nat
    BY DEF IsThread
<1>2. c.gv \in DOMAIN m /\ m[c.gv] = c.sv
    BY DEF Extended
<1>3. SUFFICES ASSUME NEW i \in 1 .. k, Follows(m, S, i),
                      \A v \in DOMAIN m : m[v] = S[i].next => Left(c, i, v)
               PROVE  FALSE
    BY DEF Passed
<1>4. CASE i = k
    <2>1. c.sv = S[k].next
        BY <1>1, <1>4 DEF ThreadAgrees, CallAgrees
    <2>2. Left(c, i, c.gv)
        BY <1>2, <1>3, <1>4, <2>1
    <2>3. QED BY <1>4, <2>2 DEF Left
<1>5. CASE i < k
    <2>1. S[i + 1].sv = S[i].next
        BY <1>1, <1>5 DEF ThreadAgrees, TodoAgrees
    <2>2. S[i + 1].gv \in DOMAIN m /\ m[S[i + 1].gv] = S[i + 1].sv
        <3>1. /\ S[i + 1].gv \in DOMAIN c.path
              /\ c.path[S[i + 1].gv] = S[i + 1].sv
            BY <1>1, <1>5 DEF ThreadAgrees, FramesArePath
        <3>2. QED BY <3>1 DEF Extended, Unmatched
    <2>3. Left(c, i, S[i + 1].gv)
        BY <1>3, <2>1, <2>2
    <2>4. QED BY <1>5, <2>3 DEF Left
<1>6. QED BY <1>1, <1>4, <1>5

-----------------------------------------------------------------------------
(* OnceInv is inductive.                                                   *)

\* The matches written, and the vertices of the threads, are one to one.
LEMMA WrittenOneToOne ==
    ASSUME SoundInv, call # NoCall, NEW m \in BagToSet(written) PROVE OneToOne(m)
BY DEF SoundInv, WrittenAreEmbeddings, IsEmbedding, OneToOne

\* A step of one thread that writes nothing.
LEMMA QuietStep ==
    ASSUME TypeOK, SoundInv, OnceInv, NEW t \in DOMAIN thread, NEW d,
           thread' = [thread EXCEPT ![t] = d], GoesOn(thread[t], d, t),
           call' = call, start_vertex' = start_vertex, vertex' = vertex, written' = written
    PROVE  OnceInv'
<1>1. ASSUME NEW u \in DOMAIN thread'
      PROVE  u < vertex' /\ MovesOn(thread'[u]) /\ StartsAt(thread[u], u)'
    BY <1>1 DEF OnceInv, GoesOn, StartsAt
<1>2. ASSUME NEW m \in BagToSet(written), call # NoCall
      PROVE  \E u \in DOMAIN thread' :
               u \in DOMAIN m /\ m[u] = start_vertex /\ Passed(thread'[u], m)
    <2>1. PICK u \in DOMAIN thread : u \in DOMAIN m /\ m[u] = start_vertex /\ Passed(thread[u], m)
        BY <1>2 DEF OnceInv, WrittenArePassed
    <2>2. OneToOne(m)
        BY <1>2, WrittenOneToOne
    <2>3. Passed(thread'[u], m)
        BY <2>1, <2>2 DEF GoesOn
    <2>4. QED BY <2>1, <2>3
<1>3. WrittenArePassed'
    BY <1>2 DEF WrittenArePassed
<1>4. WrittenOnce'
    BY DEF OnceInv, WrittenOnce
<1>5. QED BY <1>1, <1>3, <1>4 DEF OnceInv

\* The thread's body calls for its own vertex.
LEMMA StartSearchOnce ==
    ASSUME TypeOK, SoundInv, OnceInv, NEW t \in DOMAIN thread, StartSearch(t) PROVE OnceInv'
<1> DEFINE c == thread[t]
           d == Called(c, t, start_vertex)
<1>1. IsThread(c) /\ ThreadAgrees(c)
    BY RunningAgrees
<1>2. c.pc = "start" /\ Len(c.stack) = 0
    BY <1>1 DEF StartSearch, ThreadAgrees, CallAgrees
<1>3. c.stack = <<>>
    BY <1>1, <1>2 DEF IsThread
<1>4. /\ d.stack = c.stack /\ d.pc \in {"add", "enter"}
      /\ d.pc = "enter" => d.gv = t /\ d.sv = start_vertex
    BY <1>1, <1>3 DEF Called, Returned, IsThread
<1>5. /\ thread' = [thread EXCEPT ![t] = d]
      /\ call' = call /\ start_vertex' = start_vertex /\ vertex' = vertex /\ written' = written
    BY DEF StartSearch
<1> HIDE DEF d
<1>6. GoesOn(c, d, t)
    BY <1>2, <1>4, FirstCallGoesOn
<1>7. QED BY <1>5, <1>6, QuietStep

\* A rejected pair leaves the stack alone.
LEMMA RejectOnce ==
    ASSUME TypeOK, SoundInv, OnceInv, NEW t \in DOMAIN thread, Reject(t) PROVE OnceInv'
<1> DEFINE c == thread[t]
           d == Returned(c)
<1>1. IsThread(c) /\ MovesOn(c) /\ StartsAt(c, t) /\ c.pc = "enter"
    BY RunningAgrees DEF OnceInv, Reject
<1>2. d.stack = c.stack /\ d.pc \notin {"start", "enter"}
    BY <1>1 DEF Returned, IsThread
<1>3. /\ thread' = [thread EXCEPT ![t] = d]
      /\ call' = call /\ start_vertex' = start_vertex /\ vertex' = vertex /\ written' = written
    BY DEF Reject
<1> HIDE DEF d
<1>4. GoesOn(c, d, t)
    BY <1>1, <1>2, RestGoesOn DEF Searching
<1>5. QED BY <1>3, <1>4, QuietStep

\* The handler of the exception ends the search.
LEMMA StoreStopOnce ==
    ASSUME TypeOK, SoundInv, OnceInv, NEW t \in DOMAIN thread, StoreStop(t) PROVE OnceInv'
<1> DEFINE c == thread[t]
           d == [c EXCEPT !.pc = "stopped"]
<1>1. IsThread(c) /\ MovesOn(c) /\ StartsAt(c, t)
    BY RunningAgrees DEF OnceInv
<1>2. d.stack = c.stack /\ d.pc = "stopped"
    BY <1>1 DEF IsThread
<1>3. /\ thread' = [thread EXCEPT ![t] = d]
      /\ call' = call /\ start_vertex' = start_vertex /\ vertex' = vertex /\ written' = written
    BY DEF StoreStop
<1> HIDE DEF d
<1>4. GoesOn(c, d, t)
    BY <1>1, <1>2, EndGoesOn DEF Searching
<1>5. QED BY <1>3, <1>4, QuietStep

\* The last step of a thread ends it.
LEMMA AddCountOnce ==
    ASSUME TypeOK, SoundInv, OnceInv, NEW t \in DOMAIN thread, AddCount(t) PROVE OnceInv'
<1> DEFINE c == thread[t]
           d == [NewThread(t) EXCEPT !.pc = "done"]
<1>1. IsThread(c) /\ MovesOn(c) /\ StartsAt(c, t)
    BY RunningAgrees DEF OnceInv
<1>2. Len(d.stack) = 0 /\ d.pc = "done"
    BY DEF NewThread
<1>3. /\ thread' = [thread EXCEPT ![t] = d]
      /\ call' = call /\ start_vertex' = start_vertex /\ vertex' = vertex /\ written' = written
    BY DEF AddCount
<1> HIDE DEF d
<1>4. GoesOn(c, d, t)
    BY <1>1, <1>2, EndGoesOn DEF Searching
<1>5. QED BY <1>3, <1>4, QuietStep

\* The candidate that is tried is taken out of those to try.
LEMMA TryCandidateOnce ==
    ASSUME TypeOK, SoundInv, OnceInv, NEW t \in DOMAIN thread, TryCandidate(t) PROVE OnceInv'
<1> DEFINE c == thread[t]
           k == Len(c.stack)
<1>1. PICK w \in Top(c).todo :
        thread' = [thread EXCEPT ![t] =
                     Called([c EXCEPT !.stack[Len(c.stack)].todo = @ \ {w}], w, Top(c).next)]
    BY DEF TryCandidate
<1> DEFINE e == [c EXCEPT !.stack[k].todo = @ \ {w}]
           d == Called(e, w, Top(c).next)
<1>2. IsThread(c) /\ MovesOn(c) /\ StartsAt(c, t) /\ c.pc = "loop"
    BY RunningAgrees DEF OnceInv, TryCandidate
<1>3. k \in Nat /\ k > 0 /\ c.stack \in Seq(SearchFrame)
    BY <1>2 DEF IsThread
<1>4. /\ Len(e.stack) = k
      /\ \A i \in 1 .. k : e.stack[i] = IF i = k THEN [c.stack[k] EXCEPT !.todo = @ \ {w}]
                                                ELSE c.stack[i]
    BY <1>2, <1>3 DEF IsThread
<1>5. \A i \in 1 .. k : c.stack[i] \in SearchFrame
    BY <1>3
<1>6. /\ \A i \in 1 .. k : /\ e.stack[i].gv = c.stack[i].gv
                           /\ e.stack[i].sv = c.stack[i].sv
                           /\ e.stack[i].next = c.stack[i].next
      /\ \A i \in 1 .. k - 1 : e.stack[i].todo = c.stack[i].todo
      /\ e.stack[k].todo = c.stack[k].todo \ {w}
    BY <1>3, <1>4, <1>5 DEF SearchFrame
<1>7. d.stack = e.stack /\ (d.pc = "enter" => d.gv = w)
    BY <1>2 DEF Called, Returned, IsThread
<1>8. w \in c.stack[k].todo
    BY DEF Top
<1>9. /\ thread' = [thread EXCEPT ![t] = d]
      /\ call' = call /\ start_vertex' = start_vertex /\ vertex' = vertex /\ written' = written
    BY <1>1 DEF TryCandidate
<1> HIDE DEF d, e, k
<1>10. /\ k \in Nat /\ k > 0 /\ Len(c.stack) = k /\ Len(d.stack) = k
       /\ \A i \in 1 .. k : /\ d.stack[i].gv = c.stack[i].gv
                            /\ d.stack[i].sv = c.stack[i].sv
                            /\ d.stack[i].next = c.stack[i].next
       /\ \A i \in 1 .. k - 1 : d.stack[i].todo = c.stack[i].todo
       /\ d.stack[k].todo = c.stack[k].todo \ {w}
    BY <1>3, <1>4, <1>6, <1>7 DEF k
<1>11. w \in c.stack[k].todo
    BY <1>8 DEF k
<1> HIDE DEF c
<1>12. GoesOn(c, d, t)
    BY <1>2, <1>7, <1>10, <1>11, TryGoesOn
<1>13. QED BY <1>9, <1>12, QuietStep DEF c

\* expand_search goes one level deeper.
LEMMA ExpandSearchOnce ==
    ASSUME TypeOK, SoundInv, OnceInv, NEW t \in DOMAIN thread, ExpandSearch(t) PROVE OnceInv'
<1> DEFINE c       == thread[t]
           k       == Len(c.stack)
           chosen  == c.chosen \cup {c.sv}
           rest    == save_and_remove_restriction(c.restrictions, c.sv)
           updated == update_restrictions(rest, chosen, c.gv, c.sv)
           inverse == inverse_restrictions(c.restrictions, chosen, c.gv, c.sv)
           frame(next, todo) ==
              [gv |-> c.gv, sv |-> c.sv, next |-> next, todo |-> todo, inverse |-> inverse]
           into(f) == [c EXCEPT !.pc = "loop", !.path = Extended(c.path, c.gv, c.sv),
                                !.chosen = chosen, !.restrictions = updated,
                                !.stack = Append(@, f)]
<1>1. IsThread(c) /\ MovesOn(c) /\ StartsAt(c, t) /\ c.pc = "enter"
    BY RunningAgrees DEF OnceInv, ExpandSearch
<1>2. \E next, todo : thread' = [thread EXCEPT ![t] = into(frame(next, todo))]
    BY DEF ExpandSearch
<1>3. PICK next, todo : thread' = [thread EXCEPT ![t] = into(frame(next, todo))]
    BY <1>2
<1> DEFINE f == frame(next, todo)
           d == into(f)
<1>4. f.gv = c.gv /\ f.sv = c.sv
    OBVIOUS
<1>5. d.pc = "loop" /\ d.stack = Append(c.stack, f)
    BY <1>1 DEF IsThread
<1>6. /\ thread' = [thread EXCEPT ![t] = d]
      /\ call' = call /\ start_vertex' = start_vertex /\ vertex' = vertex /\ written' = written
    BY <1>3 DEF ExpandSearch
<1> HIDE DEF f, d
<1>7. /\ k \in Nat /\ Len(d.stack) = k + 1 /\ d.stack[k + 1] = f
      /\ \A i \in 1 .. k : d.stack[i] = c.stack[i]
    BY <1>1, <1>5 DEF IsThread
<1> HIDE DEF k
<1>8. GoesOn(c, d, t)
    BY <1>1, <1>4, <1>5, <1>7, PushGoesOn DEF k
<1>9. QED BY <1>6, <1>8, QuietStep

\* expand_search comes back.
LEMMA BacktrackOnce ==
    ASSUME TypeOK, SoundInv, OnceInv, NEW t \in DOMAIN thread, Backtrack(t) PROVE OnceInv'
<1> DEFINE c == thread[t]
           f == Top(c)
           n == Len(c.stack) - 1
           R == restore_restrictions(c.restrictions, f.inverse)
           C == c.chosen \ {f.sv}
           P == Restrict(c.path, DOMAIN c.path \ {f.gv})
           S == SubSeq(c.stack, 1, n)
           d == Returned([c EXCEPT !.restrictions = R, !.chosen = C, !.path = P, !.stack = S])
<1>1. /\ IsThread(c) /\ ThreadAgrees(c) /\ MovesOn(c) /\ StartsAt(c, t)
      /\ c.pc = "loop"
    BY RunningAgrees DEF OnceInv, Backtrack
<1>2. c.stack \in Seq(SearchFrame) /\ n \in Nat /\ Len(c.stack) = n + 1
    BY <1>1 DEF IsThread
<1>3. Len(S) = n /\ \A i \in 1 .. n : S[i] = c.stack[i]
    BY <1>2
<1>4. S = <<>> <=> n = 0
    <2>1. S \in Seq(SearchFrame) /\ Len(S) = n
        BY <1>2, <1>3
    <2> HIDE DEF S, n
    <2>2. S = <<>> <=> Len(S) = 0
        BY <2>1
    <2>3. QED BY <2>1, <2>2
<1>5. /\ thread' = [thread EXCEPT ![t] = d]
      /\ call' = call /\ start_vertex' = start_vertex /\ vertex' = vertex /\ written' = written
    BY DEF Backtrack
<1> HIDE DEF R, C, P, S
<1>6. d.stack = S /\ d.pc = IF n = 0 THEN "add" ELSE "loop"
    BY <1>1, <1>4 DEF Returned, IsThread
<1>7. \A i \in 1 .. n : c.stack[i + 1].sv = c.stack[i].next
    BY <1>1, <1>2 DEF ThreadAgrees, TodoAgrees
<1> HIDE DEF d, n, f
<1>8. GoesOn(c, d, t)
    BY <1>1, <1>2, <1>3, <1>6, <1>7, PopGoesOn
<1>9. QED BY <1>5, <1>8, QuietStep

\* The match a thread writes begins with the thread's own vertex, and was not written.
LEMMA WritesNew ==
    ASSUME TypeOK, SoundInv, SoundInv', OnceInv, NEW t \in DOMAIN thread, WriteMatch(t),
           NEW m, m = Extended(thread[t].path, thread[t].gv, thread[t].sv)
    PROVE  /\ OneToOne(m) /\ t \in DOMAIN m /\ m[t] = start_vertex
           /\ m \notin BagToSet(written)
<1> DEFINE c == thread[t]
<1>1. /\ IsThread(c) /\ ThreadAgrees(c) /\ MovesOn(c) /\ StartsAt(c, t)
      /\ c.pc = "enter" /\ Unmatched(c) /\ call # NoCall
    BY RunningAgrees, ThreadsInCalls DEF OnceInv, WriteMatch
<1>2. call' = call /\ BagToSet(written') = BagToSet(written) \cup {m}
    BY AddedToBag DEF WriteMatch
<1>3. OneToOne(m)
    <2>1. m \in BagToSet(written)' /\ call' # NoCall
        BY <1>1, <1>2
    <2>2. QED BY <2>1 DEF SoundInv, WrittenAreEmbeddings, IsEmbedding, OneToOne
<1>4. t \in DOMAIN m /\ m[t] = start_vertex
    <2>1. CASE Len(c.stack) = 0
        BY <1>1, <2>1 DEF StartsAt, Extended
    <2>2. CASE Len(c.stack) > 0
        <3>1. 1 \in 1 .. Len(c.stack)
            BY <1>1, <2>2 DEF IsThread
        <3>2. t \in DOMAIN c.path /\ c.path[t] = start_vertex
            BY <1>1, <2>2, <3>1 DEF StartsAt, ThreadAgrees, FramesArePath
        <3>3. QED BY <1>1, <3>2 DEF Extended, Unmatched
    <2>3. QED BY <1>1, <2>1, <2>2 DEF IsThread
<1>5. ASSUME m \in BagToSet(written) PROVE FALSE
    <2>1. PICK u \in DOMAIN thread : u \in DOMAIN m /\ m[u] = start_vertex /\ Passed(thread[u], m)
        BY <1>1, <1>5 DEF OnceInv, WrittenArePassed
    <2>2. u = t
        BY <1>3, <1>4, <2>1 DEF OneToOne
    <2>3. QED BY <1>1, <1>3, <2>1, <2>2, NotPassed
<1>6. QED BY <1>3, <1>4, <1>5

\* A match is written by the one thread that starts where it starts, and not again.
LEMMA WriteMatchOnce ==
    ASSUME TypeOK, SoundInv, SoundInv', OnceInv, NEW t \in DOMAIN thread, WriteMatch(t)
    PROVE  OnceInv'
<1> DEFINE c == thread[t]
           m == Extended(c.path, c.gv, c.sv)
           d == IF call.stop THEN [c EXCEPT !.pc = "found"]
                ELSE Returned([c EXCEPT !.count = @ + 1])
<1>1. /\ IsThread(c) /\ ThreadAgrees(c) /\ MovesOn(c) /\ StartsAt(c, t)
      /\ c.pc = "enter" /\ Unmatched(c) /\ call # NoCall
    BY RunningAgrees, ThreadsInCalls DEF OnceInv, WriteMatch
<1>2. /\ d.stack = c.stack
      /\ d.pc = "found" \/ d.pc = IF c.stack = <<>> THEN "add" ELSE "loop"
    BY <1>1 DEF Returned, IsThread
<1>3. /\ thread' = [thread EXCEPT ![t] = d]
      /\ call' = call /\ start_vertex' = start_vertex /\ vertex' = vertex
      /\ written' = written (+) SetToBag({m})
    BY DEF WriteMatch
<1>4. BagToSet(written') = BagToSet(written) \cup {m}
    BY <1>3, AddedToBag
<1> HIDE DEF d, m
<1>5. OneToOne(m) /\ t \in DOMAIN m /\ m[t] = start_vertex /\ m \notin BagToSet(written)
    BY WritesNew DEF m
<1>6. GoesOn(c, d, t)
    <2>1. CASE d.pc = "found"
        BY <1>1, <1>2, <2>1, EndGoesOn DEF Searching
    <2>2. CASE d.pc # "found"
        BY <1>1, <1>2, <2>2, RestGoesOn DEF Searching
    <2>3. QED BY <2>1, <2>2
<1>7. Passed(d, m)
    <2>1. CASE d.pc \notin Searching
        BY <2>1 DEF Passed, Searching
    <2>2. CASE d.pc \in Searching
        <3> DEFINE k == Len(c.stack)
        <3>1. k \in Nat /\ k > 0 /\ d.pc = "loop"
            BY <1>1, <1>2, <2>2 DEF IsThread, Searching
        <3>2. Follows(m, d.stack, k)
            BY <1>1, <1>2 DEF Follows, ThreadAgrees, FramesArePath, Extended, Unmatched, m
        <3>3. c.sv = c.stack[k].next /\ c.gv \notin c.stack[k].todo
            BY <1>1, <3>1 DEF ThreadAgrees, CallAgrees, MovesOn
        <3>4. ASSUME NEW v \in DOMAIN m, m[v] = c.stack[k].next PROVE v = c.gv
            BY <1>5, <3>3, <3>4 DEF OneToOne, Extended, m
        <3>5. \A v \in DOMAIN m : m[v] = d.stack[k].next => Left(d, k, v)
            BY <1>2, <3>1, <3>3, <3>4 DEF Left
        <3>6. k \in 1 .. Len(d.stack)
            BY <1>2, <3>1
        <3>7. QED BY <3>2, <3>5, <3>6 DEF Passed
    <2>3. QED BY <2>1, <2>2
<1>8. ASSUME NEW u \in DOMAIN thread'
       PROVE  u < vertex' /\ MovesOn(thread'[u]) /\ StartsAt(thread[u], u)'
    BY <1>3, <1>6, <1>8 DEF OnceInv, GoesOn, StartsAt
<1>9. WrittenArePassed'
    <2>1. ASSUME NEW x \in BagToSet(written')
          PROVE  \E u \in DOMAIN thread' :
                   u \in DOMAIN x /\ x[u] = start_vertex /\ Passed(thread'[u], x)
        <3>1. CASE x = m
            BY <1>3, <1>5, <1>7, <3>1
        <3>2. CASE x \in BagToSet(written)
            <4>1. PICK u \in DOMAIN thread : u \in DOMAIN x /\ x[u] = start_vertex /\ Passed(thread[u], x)
                BY <1>1, <3>2 DEF OnceInv, WrittenArePassed
            <4>2. OneToOne(x)
                BY <1>1, <3>2, WrittenOneToOne
            <4>3. Passed(thread'[u], x)
                BY <1>3, <1>6, <4>1, <4>2 DEF GoesOn
            <4>4. QED BY <1>3, <4>1, <4>3
        <3>3. QED BY <1>4, <2>1, <3>1, <3>2
    <2>2. QED BY <1>3, <2>1 DEF WrittenArePassed
<1>10. WrittenOnce'
    <2>1. \A x \in BagToSet(written') : written'[x] = 1
        BY <1>3, <1>5 DEF OnceInv, WrittenOnce, BagToSet, SetToBag, (+)
    <2>2. QED BY <2>1 DEF WrittenOnce
<1>11. QED BY <1>8, <1>9, <1>10 DEF OnceInv

\* Every step of a thread keeps the invariant.
LEMMA ThreadStepOnce ==
    ASSUME TypeOK, SoundInv, SoundInv', OnceInv, NEW t \in DOMAIN thread, ThreadStep(t)
    PROVE  OnceInv'
BY StartSearchOnce, TryCandidateOnce, RejectOnce, WriteMatchOnce, ExpandSearchOnce,
   BacktrackOnce, StoreStopOnce, AddCountOnce DEF ThreadStep

\* A call starts without threads and without matches.
LEMMA FindAllOnce ==
    ASSUME TypeOK, NEW c \in Calls, FindAll(c) PROVE OnceInv'
<1>1. DOMAIN thread' = {} /\ BagToSet(written') = {}
    BY DEF FindAll, TypeOK, BagToSet, EmptyBag, SetToBag
<1>2. QED BY <1>1 DEF OnceInv, WrittenArePassed, WrittenOnce

\* What leaves the threads and the matches alone.
LEMMA UnmovedOnce ==
    ASSUME OnceInv, call' = call, start_vertex' = start_vertex, vertex' = vertex,
           thread' = thread, written' = written
    PROVE  OnceInv'
BY DEF OnceInv, WrittenArePassed, WrittenOnce, StartsAt

\* Threads are numbered upwards, so a new one never takes the place of another.
LEMMA SpawnThreadOnce ==
    ASSUME TypeOK, OnceInv, SpawnThread PROVE OnceInv'
<1>1. /\ call' = call /\ start_vertex' = start_vertex /\ written' = written
      /\ vertex' = vertex + 1 /\ vertex \in Nat /\ DOMAIN thread \subseteq Nat
    <2>1. call # NoCall /\ call \in Calls
        BY CallType DEF TypeOK, SpawnThread
    <2>2. QED BY <2>1, VertexRange, CallType DEF SpawnThread, Graph
<1> DEFINE right == get_vertex_color(Graph, vertex) = get_vertex_color(Subgraph, start_vertex)
<1>2. ASSUME NEW u \in DOMAIN thread
      PROVE  u \in Nat /\ u < vertex /\ u # vertex /\ MovesOn(thread[u]) /\ StartsAt(thread[u], u)
    BY <1>1 DEF OnceInv
<1>3. \A u \in DOMAIN thread : u \in DOMAIN thread' /\ thread'[u] = thread[u]
    BY <1>2 DEF SpawnThread
<1>4. \A u \in DOMAIN thread' \ DOMAIN thread : u = vertex /\ thread'[u] = NewThread(u)
    BY DEF SpawnThread
<1>5. ASSUME NEW u \in DOMAIN thread'
      PROVE  u < vertex' /\ MovesOn(thread'[u]) /\ StartsAt(thread[u], u)'
    <2>1. CASE u \in DOMAIN thread
        BY <1>1, <1>2, <1>3, <2>1 DEF StartsAt
    <2>2. CASE u \notin DOMAIN thread
        <3>1. u = vertex /\ thread'[u] = NewThread(u)
            BY <1>4, <1>5, <2>2
        <3>2. NewThread(u).pc = "start" /\ Len(NewThread(u).stack) = 0
            BY DEF NewThread
        <3>3. MovesOn(thread'[u]) /\ StartsAt(thread[u], u)'
            BY <3>1, <3>2 DEF MovesOn, StartsAt
        <3>4. QED BY <1>1, <3>1, <3>3
    <2>3. QED BY <2>1, <2>2
<1>6. WrittenArePassed'
    BY <1>1, <1>3 DEF OnceInv, WrittenArePassed
<1>7. QED BY <1>1, <1>5, <1>6 DEF OnceInv, WrittenOnce

\* Every step of the calling thread keeps the invariant.
LEMMA MainStepOnce ==
    ASSUME TypeOK, OnceInv, MainStep PROVE OnceInv'
<1>1. ASSUME CheckStop PROVE OnceInv'
    BY <1>1, UnmovedOnce DEF CheckStop
<1>2. ASSUME JoinBatch PROVE OnceInv'
    BY <1>2, UnmovedOnce DEF JoinBatch
<1>3. ASSUME Return PROVE OnceInv'
    <2>1. call' = NoCall /\ DOMAIN thread' = {} /\ written' = written
        BY <1>3 DEF Return
    <2>2. QED BY <2>1 DEF OnceInv, WrittenArePassed, WrittenOnce
<1>4. QED BY <1>1, <1>2, <1>3, SpawnThreadOnce DEF MainStep

\* OnceInv is an invariant.
LEMMA OnceInvariant == Spec => []OnceInv
<1>1. Init => OnceInv
    <2> SUFFICES ASSUME Init PROVE OnceInv
        OBVIOUS
    <2>1. DOMAIN thread = {} /\ BagToSet(written) = {}
        BY DEF Init, BagToSet, EmptyBag, SetToBag
    <2>2. QED BY <2>1 DEF OnceInv, WrittenArePassed, WrittenOnce
<1>2. TypeOK /\ SoundInv /\ SoundInv' /\ OnceInv /\ [Next]_vars => OnceInv'
    <2> SUFFICES ASSUME TypeOK, SoundInv, SoundInv', OnceInv, [Next]_vars PROVE OnceInv'
        OBVIOUS
    <2>1. ASSUME NEW c \in Calls, FindAll(c) PROVE OnceInv'
        BY <2>1, FindAllOnce
    <2>2. ASSUME MainStep PROVE OnceInv'
        BY <2>2, MainStepOnce
    <2>3. ASSUME NEW t \in DOMAIN thread, ThreadStep(t) PROVE OnceInv'
        BY <2>3, ThreadStepOnce
    <2>4. ASSUME UNCHANGED vars PROVE OnceInv'
        BY <2>4, UnmovedOnce DEF vars
    <2>5. QED BY <2>1, <2>2, <2>3, <2>4 DEF Next
<1>3. QED BY <1>1, <1>2, TypeCorrect, SoundInvariant, PTL DEF Spec

\* find_all writes no match twice, by one thread or by two, on any graph and
\* pattern, with any prior policy, batch size and interleaving of its threads.
THEOREM WritesOnce == Spec => []WrittenOnce
<1>1. OnceInv => WrittenOnce
    BY DEF OnceInv
<1>2. QED BY <1>1, OnceInvariant, PTL

-----------------------------------------------------------------------------
(* Matches, and the restrictions that let them through.                    *)

\* What a match is.
LEMMA WantedFacts ==
    ASSUME NEW m \in Wanted
    PROVE  /\ IsEmbedding(m, Subgraph, Graph, searcher.induced)
           /\ OneToOne(m)
           /\ DOMAIN m \subseteq Vertices(Graph)
           /\ \A v \in DOMAIN m : m[v] \in Vertices(Subgraph)
           /\ \A u \in Vertices(Subgraph) : \E v \in DOMAIN m : m[v] = u
           /\ m = [v \in DOMAIN m |-> m[v]]
<1>1. IsEmbedding(m, Subgraph, Graph, searcher.induced)
    BY DEF Wanted, Embeddings
<1>2. PICK D \in SUBSET Vertices(Graph) : m \in [D -> Vertices(Subgraph)]
    BY DEF Wanted, Embeddings
<1>3. QED BY <1>1, <1>2 DEF IsEmbedding, OneToOne

\* A vertex has at least the degrees of the pattern vertex it takes in a match.
LEMMA DegreesSuffice ==
    ASSUME GraphsAgree, NEW m \in Wanted, NEW v \in DOMAIN m
    PROVE  /\ out_degree(Subgraph, m[v]) <= out_degree(Graph, v)
           /\ in_degree(Subgraph, m[v]) <= in_degree(Graph, v)
<1>1. ASSUME NEW r \in BOOLEAN
      PROVE  Cardinality(get_neighbours(Subgraph, m[v], r)) <= Cardinality(get_neighbours(Graph, v, r))
    <2> DEFINE T == get_neighbours(Subgraph, m[v], r)
               N == get_neighbours(Graph, v, r)
               D == {x \in DOMAIN m : m[x] \in T}
               f == [x \in D |-> m[x]]
    <2>1. IsFiniteSet(Vertices(Graph)) /\ N \subseteq Vertices(Graph)
        BY SearchAssumption DEF GraphsAgree, IsColoredGraph, Graph, get_neighbours
    <2>2. IsFiniteSet(N)
        BY <2>1, FS_Subset
    <2>3. D \subseteq N
        <3>1. ASSUME NEW x \in D PROVE x \in N
            <4>1. x \in Vertices(Graph) /\ x \in DOMAIN m
                BY WantedFacts
            <4>2. CASE r
                <5>1. is_edge(Subgraph, m[x], m[v])
                    BY <4>2 DEF get_neighbours
                <5>2. is_edge(Graph, x, v)
                    BY <4>1, <5>1, WantedFacts DEF IsEmbedding
                <5>3. QED BY <4>1, <4>2, <5>2 DEF get_neighbours
            <4>3. CASE ~r
                <5>1. is_edge(Subgraph, m[v], m[x])
                    BY <4>3 DEF get_neighbours
                <5>2. is_edge(Graph, v, x)
                    BY <4>1, <5>1, WantedFacts DEF IsEmbedding
                <5>3. QED BY <4>1, <4>3, <5>2 DEF get_neighbours
            <4>4. QED BY <4>2, <4>3
        <3>2. QED BY <3>1
    <2>4. IsFiniteSet(D) /\ Cardinality(D) <= Cardinality(N)
        BY <2>2, <2>3, FS_Subset
    <2>5. f \in Surjection(D, T)
        <3>1. \A u \in T : \E x \in D : m[x] = u
            BY WantedFacts DEF get_neighbours
        <3>2. f \in [D -> T]
            OBVIOUS
        <3> HIDE DEF D, T
        <3>3. QED BY <3>1, <3>2 DEF Surjection
    <2>6. IsFiniteSet(T) /\ Cardinality(T) <= Cardinality(D)
        BY <2>4, <2>5, FS_Surjection
    <2>7. Cardinality(T) \in Nat /\ Cardinality(D) \in Nat /\ Cardinality(N) \in Nat
        BY <2>2, <2>4, <2>6, FS_CardinalityType
    <2> HIDE DEF D, T, N
    <2>8. Cardinality(T) <= Cardinality(N)
        BY <2>4, <2>6, <2>7
    <2>9. QED BY <2>8 DEF T, N
<1>2. QED BY <1>1 DEF out_degree, in_degree

\* A fresh restriction holds the vertex of every match that has the pair.
LEMMA FreshKeeps ==
    ASSUME GraphsAgree, NEW m \in Wanted, NEW gv \in DOMAIN m, NEW v \in DOMAIN m,
           m[v] \in all_adjacent(Subgraph, m[gv])
    PROVE  v \in compute_new_restriction(m[v], m[gv], gv)
<1> DEFINE u == m[v]
           sv == m[gv]
           color == get_vertex_color(Subgraph, u)
           out   == is_edge(Subgraph, sv, u)
           in    == is_edge(Subgraph, u, sv)
           toU   == colored_neighborhood(gv, color, out_degree(Subgraph, u), FALSE)
           fromU == colored_neighborhood(gv, color, in_degree(Subgraph, u), TRUE)
<1>1. out \/ in
    BY AdjacentIff
<1>2. ~searcher.directed => out
    BY <1>1, EdgeFacts
<1>3. (out => is_edge(Graph, gv, v)) /\ (in => is_edge(Graph, v, gv))
    BY WantedFacts DEF IsEmbedding
<1>4. get_vertex_color(Graph, v) = color /\ v \in Vertices(Graph)
    BY WantedFacts DEF IsEmbedding
<1>5. ASSUME NEW d, d <= out_degree(Graph, v), out PROVE v \in colored_neighborhood(gv, color, d, FALSE)
    BY <1>3, <1>4, <1>5 DEF colored_neighborhood, get_neighbours
<1>6. ASSUME NEW d, d <= in_degree(Graph, v), in PROVE v \in colored_neighborhood(gv, color, d, TRUE)
    BY <1>3, <1>4, <1>6 DEF colored_neighborhood, get_neighbours
<1>7. (out => v \in toU) /\ (in => v \in fromU)
    BY <1>5, <1>6, DegreesSuffice
<1>8. compute_new_restriction(u, sv, gv) =
        CASE ~searcher.directed -> toU
          [] searcher.directed /\ out /\ ~in -> toU
          [] searcher.directed /\ in /\ ~out -> fromU
          [] OTHER -> toU \cap fromU
    BY DEF compute_new_restriction, intersect_neighborhoods
<1> HIDE DEF u, sv, color, out, in, toU, fromU
<1>9. v \in compute_new_restriction(u, sv, gv)
    <2>1. CASE ~searcher.directed
        BY <1>2, <1>7, <1>8, <2>1
    <2>2. CASE searcher.directed /\ out /\ ~in
        BY <1>7, <1>8, <2>2
    <2>3. CASE searcher.directed /\ in /\ ~out
        BY <1>7, <1>8, <2>3
    <2>4. CASE searcher.directed /\ in /\ out
        BY <1>7, <1>8, <2>4
    <2>5. QED BY <1>1, <2>1, <2>2, <2>3, <2>4
<1>10. QED BY <1>9 DEF u, sv

\* Filtering keeps it.
LEMMA FilterKeeps ==
    ASSUME GraphsAgree, NEW m \in Wanted, NEW gv \in DOMAIN m, NEW v \in DOMAIN m,
           m[v] \in all_adjacent(Subgraph, m[gv]), NEW R, v \in R
    PROVE  v \in filter_restriction(m[v], m[gv], gv, R)
<1>1. /\ is_edge(Subgraph, m[gv], m[v]) => is_edge(Graph, gv, v)
      /\ is_edge(Subgraph, m[v], m[gv]) => is_edge(Graph, v, gv)
    BY WantedFacts DEF IsEmbedding
<1>2. ~searcher.directed => is_edge(Subgraph, m[gv], m[v])
    BY AdjacentIff, EdgeFacts
<1>3. QED BY <1>1, <1>2 DEF filter_restriction

-----------------------------------------------------------------------------
(* Descending.                                                             *)

\* Stacks with the same first frames are followed alike.
LEMMA PrefixFollows ==
    ASSUME NEW S, NEW T, NEW n, SameFrames(S, T, n)
    PROVE  /\ \A m : Follows(m, S, n) <=> Follows(m, T, n)
           /\ \A u : Open(S, n, u) <=> Open(T, n, u)
           /\ \A u : Reached(S, n, u) <=> Reached(T, n, u)
BY DEF SameFrames, Follows, Open, Reached

\* d is c after expand_search pushed a frame for the pair c was called for.
IsDescent(c, d, k) ==
    /\ IsPush(c, d, k)
    /\ d.stack[k + 1].gv = c.gv /\ d.stack[k + 1].sv = c.sv
    /\ d.stack[k + 1].inverse =
         inverse_restrictions(c.restrictions, c.chosen \cup {c.sv}, c.gv, c.sv)
    /\ d.chosen = c.chosen \cup {c.sv}
    /\ d.restrictions = update_restrictions(
                            save_and_remove_restriction(c.restrictions, c.sv),
                            d.chosen, c.gv, c.sv)

\* Its restrictions and the new undo set, entry by entry.
LEMMA DescentEntries ==
    ASSUME NEW c, NEW d, NEW k, IsDescent(c, d, k), c.sv \in Vertices(Subgraph)
    PROVE  LET touched == all_adjacent(Subgraph, c.sv) \ d.chosen
               R   == c.restrictions
               U   == d.restrictions
               inv == d.stack[k + 1].inverse IN
           /\ DOMAIN U = (DOMAIN R \ {c.sv}) \cup touched
           /\ \A u \in DOMAIN U : u \notin touched => U[u] = R[u]
           /\ \A u \in touched : /\ u # c.sv /\ u \in Vertices(Subgraph)
                                 /\ u \notin DOMAIN R => U[u] = compute_new_restriction(u, c.sv, c.gv)
                                 /\ u \in DOMAIN R => U[u] = filter_restriction(u, c.sv, c.gv, R[u])
                                 /\ u \notin DOMAIN R => inv[u] = {INVALID_VERTEX_ID}
                                 /\ u \in DOMAIN R => inv[u] = R[u] \ U[u]
           /\ inv[c.sv] = IF c.sv \in DOMAIN R THEN R[c.sv] ELSE {}
           /\ \A u \in Vertices(Subgraph) \ (touched \cup {c.sv}) : inv[u] = {}
<1> DEFINE touched == all_adjacent(Subgraph, c.sv) \ d.chosen
           R   == c.restrictions
           U   == d.restrictions
           inv == d.stack[k + 1].inverse
<1> DEFINE rest == save_and_remove_restriction(R, c.sv)
<1>1. /\ U = update_restrictions(rest, d.chosen, c.gv, c.sv)
      /\ inv = inverse_restrictions(R, d.chosen, c.gv, c.sv)
      /\ c.sv \in d.chosen
    BY DEF IsDescent
<1>2. /\ DOMAIN rest = DOMAIN R \ {c.sv}
      /\ \A u \in DOMAIN rest : rest[u] = R[u]
    BY DEF save_and_remove_restriction, Restrict
<1>3. touched \subseteq Vertices(Subgraph) /\ c.sv \notin touched
    BY <1>1, AdjacentAreVertices
<1> HIDE DEF rest
<1>4. /\ DOMAIN U = DOMAIN rest \cup touched
      /\ \A u \in DOMAIN U :
           /\ u \notin touched => U[u] = rest[u]
           /\ u \in touched /\ u \notin DOMAIN rest => U[u] = compute_new_restriction(u, c.sv, c.gv)
           /\ u \in touched /\ u \in DOMAIN rest => U[u] = filter_restriction(u, c.sv, c.gv, rest[u])
    BY <1>1 DEF update_restrictions
<1>5. \A u \in touched :
        /\ u \notin DOMAIN R => U[u] = compute_new_restriction(u, c.sv, c.gv)
        /\ u \in DOMAIN R => U[u] = filter_restriction(u, c.sv, c.gv, R[u])
    BY <1>2, <1>3, <1>4
<1>6. /\ \A u \in touched :
           /\ u \notin DOMAIN R => inv[u] = {INVALID_VERTEX_ID}
           /\ u \in DOMAIN R => inv[u] = R[u] \ filter_restriction(u, c.sv, c.gv, R[u])
      /\ inv[c.sv] = IF c.sv \in DOMAIN R THEN R[c.sv] ELSE {}
      /\ \A u \in Vertices(Subgraph) \ (touched \cup {c.sv}) : inv[u] = {}
    BY <1>1, <1>3 DEF inverse_restrictions
<1>7. \A u \in DOMAIN U : u \notin touched => U[u] = R[u]
    BY <1>2, <1>4
<1>8. QED BY <1>2, <1>3, <1>4, <1>5, <1>6, <1>7

\* What the new frame reaches and places.
LEMMA DescentFrames ==
    ASSUME NEW c, NEW d, NEW k, IsDescent(c, d, k)
    PROVE  /\ k \in Nat /\ Len(c.stack) = k /\ Len(d.stack) = k + 1
           /\ 1 .. k + 1 = (1 .. k) \cup {k + 1}
           /\ \A n \in 0 .. k :
                /\ \A m : Follows(m, d.stack, n) <=> Follows(m, c.stack, n)
                /\ \A u : Open(d.stack, n, u) <=> Open(c.stack, n, u)
                /\ \A u : Reached(d.stack, n, u) <=> Reached(c.stack, n, u)
           /\ \A m : Follows(m, d.stack, k + 1) <=>
                       Follows(m, c.stack, k) /\ c.gv \in DOMAIN m /\ m[c.gv] = c.sv
           /\ \A u : Open(d.stack, k + 1, u) <=> Open(c.stack, k, u) /\ u # c.sv
           /\ \A u : Reached(d.stack, k + 1, u) <=>
                       Reached(c.stack, k, u) \/ u \in all_adjacent(Subgraph, c.sv)
<1> DEFINE S == c.stack
           T == d.stack
<1>1. /\ k \in Nat /\ Len(S) = k /\ Len(T) = k + 1
      /\ \A i \in 1 .. k : T[i] = S[i]
      /\ T[k + 1].gv = c.gv /\ T[k + 1].sv = c.sv
    BY DEF IsDescent, IsPush
<1>2. 1 .. k + 1 = (1 .. k) \cup {k + 1}
    BY <1>1
<1>3. ASSUME NEW n \in 0 .. k
      PROVE  /\ \A m : Follows(m, T, n) <=> Follows(m, S, n)
             /\ \A u : Open(T, n, u) <=> Open(S, n, u)
             /\ \A u : Reached(T, n, u) <=> Reached(S, n, u)
    <2>1. SameFrames(T, S, n)
        BY <1>1 DEF SameFrames
    <2>2. QED BY <2>1, PrefixFollows
<1>4. k \in 0 .. k
    BY <1>1
<1>5. /\ \A m : Follows(m, T, k) <=> Follows(m, S, k)
      /\ \A u : Open(T, k, u) <=> Open(S, k, u)
      /\ \A u : Reached(T, k, u) <=> Reached(S, k, u)
    BY <1>3, <1>4
<1> HIDE DEF S, T
<1>6. \A m : Follows(m, T, k + 1) <=> Follows(m, T, k) /\ T[k + 1].gv \in DOMAIN m /\ m[T[k + 1].gv] = T[k + 1].sv
    BY <1>2 DEF Follows
<1>7. \A u : Open(T, k + 1, u) <=> Open(T, k, u) /\ T[k + 1].sv # u
    BY <1>2 DEF Open
<1>8. \A u : Reached(T, k + 1, u) <=> Reached(T, k, u) \/ u \in all_adjacent(Subgraph, T[k + 1].sv)
    BY <1>2 DEF Reached
<1>9. /\ \A m : Follows(m, T, k + 1) <=> Follows(m, S, k) /\ c.gv \in DOMAIN m /\ m[c.gv] = c.sv
      /\ \A u : Open(T, k + 1, u) <=> Open(S, k, u) /\ u # c.sv
      /\ \A u : Reached(T, k + 1, u) <=> Reached(S, k, u) \/ u \in all_adjacent(Subgraph, c.sv)
    BY <1>1, <1>5, <1>6, <1>7, <1>8
<1>10. QED BY <1>1, <1>2, <1>3, <1>9 DEF S, T

\* A pattern vertex is open until it is chosen.
LEMMA OpenIff ==
    ASSUME NEW c, FramesArePath(c), NEW u
    PROVE  Open(c.stack, Len(c.stack), u) <=> u \notin c.chosen
BY DEF Open, FramesArePath

\* The new entries are for vertices next to the one just placed.
LEMMA DescentReached ==
    ASSUME GraphsAgree, NEW c, IsThread(c), FramesArePath(c), OnlyReached(c),
           NEW d, NEW k, IsDescent(c, d, k)
    PROVE  OnlyReached(d)
<1> DEFINE S == c.stack
           T == d.stack
           R == c.restrictions
           U == d.restrictions
           inv == T[k + 1].inverse
           touched == all_adjacent(Subgraph, c.sv) \ d.chosen
<1>1. /\ k \in Nat /\ Len(S) = k /\ Len(T) = k + 1
      /\ 1 .. k + 1 = (1 .. k) \cup {k + 1}
      /\ \A i \in 1 .. k : T[i] = S[i] /\ i - 1 \in 0 .. k /\ i \in 0 .. k
      /\ k \in 0 .. k /\ k + 1 - 1 = k
    BY DescentFrames DEF IsDescent, IsPush
<1>2. /\ \A n \in 0 .. k :
           /\ \A u : Open(T, n, u) <=> Open(S, n, u)
           /\ \A u : Reached(T, n, u) <=> Reached(S, n, u)
      /\ \A u : Open(T, k + 1, u) <=> Open(S, k, u) /\ u # c.sv
      /\ \A u : Reached(T, k + 1, u) <=> Reached(S, k, u) \/ u \in all_adjacent(Subgraph, c.sv)
    BY DescentFrames
<1>3. /\ \A u \in DOMAIN R : Reached(S, k, u)
      /\ \A i \in 1 .. k : \A u \in Vertices(Subgraph) :
           /\ S[i].inverse[u] \notin {{}, {INVALID_VERTEX_ID}} => Reached(S, i - 1, u)
           /\ Open(S, i, u) /\ Reached(S, i, u) /\ ~Reached(S, i - 1, u)
                => INVALID_VERTEX_ID \in S[i].inverse[u]
    BY <1>1 DEF OnlyReached
<1>4. /\ DOMAIN U = (DOMAIN R \ {c.sv}) \cup touched
      /\ \A u \in touched : /\ u # c.sv /\ u \in Vertices(Subgraph)
                            /\ u \notin DOMAIN R => inv[u] = {INVALID_VERTEX_ID}
      /\ inv[c.sv] = IF c.sv \in DOMAIN R THEN R[c.sv] ELSE {}
      /\ \A u \in Vertices(Subgraph) \ (touched \cup {c.sv}) : inv[u] = {}
    <2>1. c.sv \in Vertices(Subgraph)
        BY DEF IsThread
    <2>2. QED BY <2>1, DescentEntries
<1>5. c.sv \in Vertices(Subgraph) /\ d.chosen = c.chosen \cup {c.sv}
      /\ \A u : Open(S, k, u) <=> u \notin c.chosen
    BY <1>1, OpenIff DEF IsThread, IsDescent
<1> HIDE DEF S, T, R, U, inv
<1>6. ASSUME NEW u \in DOMAIN U PROVE Reached(T, k + 1, u)
    BY <1>2, <1>3, <1>4, <1>6
<1>7. ASSUME NEW u \in Vertices(Subgraph)
      PROVE  /\ inv[u] \notin {{}, {INVALID_VERTEX_ID}} => Reached(T, k, u)
             /\ Open(T, k + 1, u) /\ Reached(T, k + 1, u) /\ ~Reached(T, k, u)
                  => INVALID_VERTEX_ID \in inv[u]
    <2>1. Reached(T, k, u) <=> Reached(S, k, u)
        BY <1>1, <1>2
    <2>2. inv[u] \notin {{}, {INVALID_VERTEX_ID}} => u \in DOMAIN R
        BY <1>4
    <2>3. Open(T, k + 1, u) /\ Reached(T, k + 1, u) /\ ~Reached(T, k, u)
            => u \in touched /\ u \notin DOMAIN R
        BY <1>2, <1>3, <1>5, <2>1
    <2>4. QED BY <1>3, <1>4, <2>1, <2>2, <2>3
<1>8. ASSUME NEW i \in 1 .. k + 1, NEW u \in Vertices(Subgraph)
      PROVE  /\ T[i].inverse[u] \notin {{}, {INVALID_VERTEX_ID}} => Reached(T, i - 1, u)
             /\ Open(T, i, u) /\ Reached(T, i, u) /\ ~Reached(T, i - 1, u)
                  => INVALID_VERTEX_ID \in T[i].inverse[u]
    <2>1. CASE i = k + 1
        BY <1>1, <1>7, <2>1 DEF inv
    <2>2. CASE i \in 1 .. k
        BY <1>1, <1>2, <1>3, <2>2
    <2>3. QED BY <1>1, <2>1, <2>2
<1>9. QED BY <1>1, <1>6, <1>8 DEF OnlyReached, T, U

\* No candidate of a match that takes the pair is lost: it stays, or the new undo set
\* has it.
LEMMA DescentKept ==
    ASSUME GraphsAgree, NEW c, IsThread(c), FramesArePath(c), OnlyReached(c),
           CandidatesAreKept(c), NEW d, NEW k, IsDescent(c, d, k)
    PROVE  CandidatesAreKept(d)
<1> DEFINE S == c.stack
           T == d.stack
           R == c.restrictions
           U == d.restrictions
           inv == T[k + 1].inverse
           touched == all_adjacent(Subgraph, c.sv) \ d.chosen
<1>1. /\ k \in Nat /\ Len(S) = k /\ Len(T) = k + 1
      /\ \A i \in 1 .. k : T[i] = S[i]
      /\ k \in 0 .. k
    BY DescentFrames DEF IsDescent, IsPush
<1>2. /\ \A n \in 0 .. k :
           /\ \A m : Follows(m, T, n) <=> Follows(m, S, n)
           /\ \A u : Open(T, n, u) <=> Open(S, n, u)
           /\ \A u : Reached(T, n, u) <=> Reached(S, n, u)
      /\ \A m : Follows(m, T, k + 1) <=> Follows(m, S, k) /\ c.gv \in DOMAIN m /\ m[c.gv] = c.sv
      /\ \A u : Open(T, k + 1, u) <=> Open(S, k, u) /\ u # c.sv
      /\ \A u : Reached(T, k + 1, u) <=> Reached(S, k, u) \/ u \in all_adjacent(Subgraph, c.sv)
    BY DescentFrames
<1>3. \A u \in DOMAIN R : Reached(S, k, u)
    BY <1>1 DEF OnlyReached
<1>4. ASSUME NEW m \in Wanted, NEW n \in 0 .. k, Follows(m, S, n), NEW v \in DOMAIN m,
             Open(S, n, m[v]), Reached(S, n, m[v])
      PROVE  \/ m[v] \in DOMAIN R /\ v \in R[m[v]]
             \/ \E j \in n + 1 .. k : v \in S[j].inverse[m[v]]
    BY <1>1, <1>4 DEF CandidatesAreKept
<1>5. /\ DOMAIN U = (DOMAIN R \ {c.sv}) \cup touched
      /\ \A u \in DOMAIN U : u \notin touched => U[u] = R[u]
      /\ \A u \in touched : /\ u # c.sv /\ u \in Vertices(Subgraph)
                            /\ u \notin DOMAIN R => U[u] = compute_new_restriction(u, c.sv, c.gv)
                            /\ u \in DOMAIN R => U[u] = filter_restriction(u, c.sv, c.gv, R[u])
                            /\ u \in DOMAIN R => inv[u] = R[u] \ U[u]
      /\ inv[c.sv] = IF c.sv \in DOMAIN R THEN R[c.sv] ELSE {}
    <2>1. c.sv \in Vertices(Subgraph)
        BY DEF IsThread
    <2>2. QED BY <2>1, DescentEntries
<1>6. /\ \A u : Open(S, k, u) <=> u \notin c.chosen
      /\ \A u : u \in touched <=> u \in all_adjacent(Subgraph, c.sv) /\ u \notin c.chosen /\ u # c.sv
    BY <1>1, OpenIff DEF IsDescent
<1> HIDE DEF S, T, R, U, inv, touched
<1>7. ASSUME NEW m \in Wanted, NEW n \in 0 .. k, Follows(m, T, n), NEW v \in DOMAIN m,
             Open(T, n, m[v]), Reached(T, n, m[v])
      PROVE  \/ m[v] \in DOMAIN U /\ v \in U[m[v]]
             \/ \E j \in n + 1 .. k + 1 : v \in T[j].inverse[m[v]]
    <2>1. \/ m[v] \in DOMAIN R /\ v \in R[m[v]]
          \/ \E j \in n + 1 .. k : v \in S[j].inverse[m[v]]
        BY <1>2, <1>4, <1>7
    <2>2. CASE \E j \in n + 1 .. k : v \in S[j].inverse[m[v]]
        <3>1. PICK j \in n + 1 .. k : v \in S[j].inverse[m[v]]
            BY <2>2
        <3>2. T[j] = S[j] /\ j \in n + 1 .. k + 1
            BY <1>1
        <3>3. QED BY <3>1, <3>2
    <2>3. CASE m[v] \in DOMAIN R /\ v \in R[m[v]]
        <3>1. (m[v] \in DOMAIN U /\ v \in U[m[v]]) \/ v \in inv[m[v]]
            BY <1>5, <2>3
        <3>2. k + 1 \in n + 1 .. k + 1
            BY <1>1
        <3>3. QED BY <3>1, <3>2 DEF inv
    <2>4. QED BY <2>1, <2>2, <2>3
<1>8. ASSUME NEW m \in Wanted, Follows(m, T, k + 1), NEW v \in DOMAIN m,
             Open(T, k + 1, m[v]), Reached(T, k + 1, m[v])
      PROVE  m[v] \in DOMAIN U /\ v \in U[m[v]]
    <2>1. Follows(m, S, k) /\ c.gv \in DOMAIN m /\ m[c.gv] = c.sv
        BY <1>2, <1>8
    <2>2. Open(S, k, m[v]) /\ m[v] # c.sv
        BY <1>2, <1>8
    <2>3. Reached(S, k, m[v]) => m[v] \in DOMAIN R /\ v \in R[m[v]]
        BY <1>1, <1>4, <2>1, <2>2
    <2>4. CASE m[v] \in all_adjacent(Subgraph, c.sv)
        <3>1. m[v] \in touched
            BY <1>6, <2>2, <2>4
        <3>2. CASE m[v] \in DOMAIN R
            <4>1. v \in R[m[v]]
                BY <1>3, <2>3, <3>2
            <4>2. v \in filter_restriction(m[v], c.sv, c.gv, R[m[v]])
                BY <2>1, <2>4, <4>1, FilterKeeps
            <4>3. QED BY <1>5, <3>1, <3>2, <4>2
        <3>3. CASE m[v] \notin DOMAIN R
            <4>1. v \in compute_new_restriction(m[v], c.sv, c.gv)
                BY <2>1, <2>4, FreshKeeps
            <4>2. QED BY <1>5, <3>1, <3>3, <4>1
        <3>4. QED BY <3>2, <3>3
    <2>5. CASE m[v] \notin all_adjacent(Subgraph, c.sv)
        <3>1. m[v] \in DOMAIN R /\ v \in R[m[v]] /\ m[v] \notin touched
            BY <1>2, <1>6, <1>8, <2>3, <2>5
        <3>2. QED BY <1>5, <2>2, <3>1
    <2>6. QED BY <2>4, <2>5
<1>9. ASSUME NEW m \in Wanted, NEW n \in 0 .. k + 1, Follows(m, T, n), NEW v \in DOMAIN m,
             Open(T, n, m[v]), Reached(T, n, m[v])
      PROVE  \/ m[v] \in DOMAIN U /\ v \in U[m[v]]
             \/ \E j \in n + 1 .. k + 1 : v \in T[j].inverse[m[v]]
    <2>1. CASE n \in 0 .. k
        BY <1>7, <1>9, <2>1
    <2>2. CASE n = k + 1
        BY <1>8, <1>9, <2>2
    <2>3. QED BY <1>1, <2>1, <2>2
<1>10. QED BY <1>1, <1>9 DEF CandidatesAreKept, T, U

\* The frames among the first n of S that placed a vertex next to u.
NextTo(S, n, u) == {i \in 1 .. n : S[i].sv \in all_adjacent(Subgraph, u)}

\* What the first of them, i, offers to u, and the others let through.
OffersOf(S, i, near, u) ==
    {w \in compute_new_restriction(u, S[i].sv, S[i].gv) :
        \A j \in near \ {i} : w \in filter_restriction(u, S[j].sv, S[j].gv, {w})}

\* Which is what is rebuilt.
LEMMA RebuiltIs ==
    ASSUME NEW S, NEW n, NEW u
    PROVE  RebuiltRestriction(S, n, u) = OffersOf(S, Min(NextTo(S, n, u)), NextTo(S, n, u), u)
BY DEF RebuiltRestriction, OffersOf, NextTo

\* A vertex is reached when there is such a frame, and then there is a first one.
LEMMA FirstReaches ==
    ASSUME GraphsAgree, NEW S, NEW n \in Nat, NEW u
    PROVE  /\ Reached(S, n, u) <=> NextTo(S, n, u) # {}
           /\ NextTo(S, n, u) # {} => /\ Min(NextTo(S, n, u)) \in NextTo(S, n, u)
                                      /\ \A j \in NextTo(S, n, u) : Min(NextTo(S, n, u)) <= j
<1>1. \A i \in 1 .. n : u \in all_adjacent(Subgraph, S[i].sv) <=> S[i].sv \in all_adjacent(Subgraph, u)
    BY AdjacentIff
<1>2. Reached(S, n, u) <=> NextTo(S, n, u) # {}
    BY <1>1 DEF Reached, NextTo
<1>3. NextTo(S, n, u) \subseteq 1 .. n /\ IsFiniteSet(1 .. n) /\ 1 .. n \subseteq Int
    BY FS_Interval DEF NextTo
<1>4. IsFiniteSet(NextTo(S, n, u)) /\ NextTo(S, n, u) \subseteq Int
    BY <1>3, FS_Subset
<1>5. QED BY <1>2, <1>4, SmallestOfSet

\* It is the only one that is at most every other.
LEMMA FirstIs ==
    ASSUME GraphsAgree, NEW S, NEW n \in Nat, NEW u, NEW x \in NextTo(S, n, u),
           \A j \in NextTo(S, n, u) : x <= j
    PROVE  Min(NextTo(S, n, u)) = x
<1>1. Min(NextTo(S, n, u)) \in NextTo(S, n, u) /\ \A j \in NextTo(S, n, u) : Min(NextTo(S, n, u)) <= j
    BY FirstReaches
<1>2. NextTo(S, n, u) \subseteq Int
    BY DEF NextTo
<1>3. QED BY <1>1, <1>2

\* Stacks with the same first frames are rebuilt alike.
LEMMA PrefixRebuilt ==
    ASSUME GraphsAgree, NEW S, NEW T, NEW n \in Nat, SameFrames(S, T, n), NEW u, Reached(S, n, u)
    PROVE  RebuiltRestriction(S, n, u) = RebuiltRestriction(T, n, u)
<1>1. NextTo(S, n, u) = NextTo(T, n, u)
    BY DEF SameFrames, NextTo
<1>2. Min(NextTo(S, n, u)) \in 1 .. n /\ NextTo(S, n, u) \subseteq 1 .. n
    BY FirstReaches DEF NextTo
<1>3. ASSUME NEW i \in 1 .. n, NEW near, near \subseteq 1 .. n
      PROVE  OffersOf(S, i, near, u) = OffersOf(T, i, near, u)
    BY <1>3 DEF SameFrames, OffersOf
<1>4. QED BY <1>1, <1>2, <1>3, RebuiltIs

\* A frame more narrows what is rebuilt as update_restrictions narrows an entry.
LEMMA RebuiltGrows ==
    ASSUME GraphsAgree, NEW S, NEW n \in Nat, NEW u
    PROVE  LET f == S[n + 1] IN
           /\ u \notin all_adjacent(Subgraph, f.sv) /\ Reached(S, n, u) =>
                RebuiltRestriction(S, n + 1, u) = RebuiltRestriction(S, n, u)
           /\ u \in all_adjacent(Subgraph, f.sv) /\ Reached(S, n, u) =>
                RebuiltRestriction(S, n + 1, u) =
                    filter_restriction(u, f.sv, f.gv, RebuiltRestriction(S, n, u))
           /\ u \in all_adjacent(Subgraph, f.sv) /\ ~Reached(S, n, u) =>
                RebuiltRestriction(S, n + 1, u) = compute_new_restriction(u, f.sv, f.gv)
<1> DEFINE f == S[n + 1]
           N == NextTo(S, n, u)
           M == NextTo(S, n + 1, u)
<1>1. n + 1 \in Nat /\ 1 .. n + 1 = (1 .. n) \cup {n + 1} /\ n + 1 \notin 1 .. n
      /\ \A j \in 1 .. n : j <= n + 1
    OBVIOUS
<1>2. u \in all_adjacent(Subgraph, f.sv) <=> f.sv \in all_adjacent(Subgraph, u)
    BY AdjacentIff
<1>3. M = IF u \in all_adjacent(Subgraph, f.sv) THEN N \cup {n + 1} ELSE N
    BY <1>1, <1>2 DEF NextTo
<1>4. N \subseteq 1 .. n
    BY DEF NextTo
<1>5. /\ Reached(S, n, u) <=> N # {}
      /\ N # {} => Min(N) \in N /\ \A j \in N : Min(N) <= j
    BY FirstReaches
<1>6. /\ RebuiltRestriction(S, n, u) = OffersOf(S, Min(N), N, u)
      /\ RebuiltRestriction(S, n + 1, u) = OffersOf(S, Min(M), M, u)
    BY RebuiltIs
<1>7. ASSUME NEW x \in M, \A j \in M : x <= j PROVE Min(M) = x
    BY <1>1, <1>7, FirstIs
<1> HIDE DEF N, M
<1>8. CASE u \notin all_adjacent(Subgraph, f.sv)
    BY <1>3, <1>6, <1>8
<1>9. CASE u \in all_adjacent(Subgraph, f.sv) /\ Reached(S, n, u)
    <2>1. Min(N) \in N /\ M = N \cup {n + 1} /\ n + 1 \notin N
        BY <1>1, <1>3, <1>4, <1>5, <1>9
    <2>2. \A j \in M : Min(N) <= j
        BY <1>1, <1>4, <1>5, <1>9, <2>1
    <2>3. Min(M) = Min(N)
        BY <1>7, <2>1, <2>2
    <2>4. M \ {Min(N)} = (N \ {Min(N)}) \cup {n + 1}
        BY <2>1
    <2>5. \A w : w \in OffersOf(S, Min(N), M, u) <=>
                   w \in OffersOf(S, Min(N), N, u) /\ w \in filter_restriction(u, f.sv, f.gv, {w})
        BY <2>4 DEF OffersOf
    <2> DEFINE O == OffersOf(S, Min(N), N, u)
               L == OffersOf(S, Min(N), M, u)
               F == filter_restriction(u, f.sv, f.gv, O)
    <2> HIDE DEF O, L
    <2>6. \A w : w \in F <=> w \in O /\ w \in filter_restriction(u, f.sv, f.gv, {w})
        BY DEF filter_restriction
    <2> HIDE DEF F
    <2>7. L = F
        BY <2>5, <2>6 DEF O, L
    <2>8. RebuiltRestriction(S, n + 1, u) = filter_restriction(u, f.sv, f.gv, RebuiltRestriction(S, n, u))
        BY <1>6, <2>3, <2>7 DEF F, O, L
    <2>9. QED BY <1>9, <2>8
<1>10. CASE u \in all_adjacent(Subgraph, f.sv) /\ ~Reached(S, n, u)
    <2>1. M = {n + 1}
        BY <1>3, <1>5, <1>10
    <2>2. Min(M) = n + 1
        BY <1>1, <1>7, <2>1
    <2>3. OffersOf(S, n + 1, {n + 1}, u) = compute_new_restriction(u, f.sv, f.gv)
        BY DEF OffersOf
    <2>4. QED BY <1>6, <1>10, <2>1, <2>2, <2>3
<1>11. QED BY <1>8, <1>9, <1>10

\* What a frame takes from an entry is what its undo set has, and the entry it leaves is
\* the one rebuilt.
LEMMA DescentExact ==
    ASSUME GraphsAgree, NEW c, IsThread(c), ThreadAgrees(c), OnlyReached(c),
           CandidatesAreExact(c), NEW d, NEW k, IsDescent(c, d, k)
    PROVE  CandidatesAreExact(d)
<1> DEFINE S == c.stack
           T == d.stack
           R == c.restrictions
           U == d.restrictions
           inv == T[k + 1].inverse
           touched == all_adjacent(Subgraph, c.sv) \ d.chosen
<1>1. /\ k \in Nat /\ Len(S) = k /\ Len(T) = k + 1
      /\ \A i \in 1 .. k : T[i] = S[i]
      /\ T[k + 1].gv = c.gv /\ T[k + 1].sv = c.sv
      /\ k \in 0 .. k
    BY DescentFrames DEF IsDescent, IsPush
<1>2. /\ \A n \in 0 .. k :
           /\ \A u : Open(T, n, u) <=> Open(S, n, u)
           /\ \A u : Reached(T, n, u) <=> Reached(S, n, u)
      /\ \A u : Open(T, k + 1, u) <=> Open(S, k, u) /\ u # c.sv
      /\ \A u : Reached(T, k + 1, u) <=> Reached(S, k, u) \/ u \in all_adjacent(Subgraph, c.sv)
    BY DescentFrames
<1>3. FramesArePath(c) /\ RestrictionsAgree(c)
    BY DEF ThreadAgrees
<1>4. /\ \A u \in DOMAIN R : Reached(S, k, u)
      /\ \A u \in Vertices(Subgraph) \ c.chosen : Reached(S, k, u) => u \in DOMAIN R
    BY <1>1, <1>3 DEF OnlyReached, RestrictionsAgree
<1>5. ASSUME NEW n \in 0 .. k, NEW u \in Vertices(Subgraph), Open(S, n, u), Reached(S, n, u),
             NEW w \in Vertices(Graph)
      PROVE  w \in RebuiltRestriction(S, n, u) <=>
                \/ u \in DOMAIN R /\ w \in R[u]
                \/ \E j \in n + 1 .. k : w \in S[j].inverse[u]
    BY <1>1, <1>5 DEF CandidatesAreExact
<1>6. /\ DOMAIN U = (DOMAIN R \ {c.sv}) \cup touched
      /\ \A u \in DOMAIN U : u \notin touched => U[u] = R[u]
      /\ \A u \in touched : /\ u # c.sv /\ u \in Vertices(Subgraph)
                            /\ u \notin DOMAIN R => U[u] = compute_new_restriction(u, c.sv, c.gv)
                            /\ u \in DOMAIN R => U[u] = filter_restriction(u, c.sv, c.gv, R[u])
                            /\ u \in DOMAIN R => inv[u] = R[u] \ U[u]
      /\ inv[c.sv] = IF c.sv \in DOMAIN R THEN R[c.sv] ELSE {}
      /\ \A u \in Vertices(Subgraph) \ (touched \cup {c.sv}) : inv[u] = {}
    <2>1. c.sv \in Vertices(Subgraph)
        BY DEF IsThread
    <2>2. QED BY <2>1, DescentEntries
<1>7. /\ \A u : Open(S, k, u) <=> u \notin c.chosen
      /\ \A u : u \in touched <=> u \in all_adjacent(Subgraph, c.sv) /\ u \notin c.chosen /\ u # c.sv
      /\ DOMAIN R \cap c.chosen = {}
    BY <1>1, <1>3, OpenIff DEF IsDescent, RestrictionsAgree
<1>8. ASSUME NEW n \in 0 .. k, NEW u, Reached(S, n, u)
      PROVE  RebuiltRestriction(T, n, u) = RebuiltRestriction(S, n, u)
    <2>1. SameFrames(S, T, n) /\ n \in Nat
        BY <1>1 DEF SameFrames
    <2>2. QED BY <1>8, <2>1, PrefixRebuilt
<1>9. ASSUME NEW u, Reached(T, k, u) \/ u \in all_adjacent(Subgraph, c.sv)
      PROVE  RebuiltRestriction(T, k + 1, u) =
               IF u \notin all_adjacent(Subgraph, c.sv) THEN RebuiltRestriction(T, k, u)
               ELSE IF Reached(T, k, u)
                    THEN filter_restriction(u, c.sv, c.gv, RebuiltRestriction(T, k, u))
               ELSE compute_new_restriction(u, c.sv, c.gv)
    BY <1>1, <1>9, RebuiltGrows
<1>10. \A u \in DOMAIN R : R[u] \subseteq Vertices(Graph)
    BY DEF IsThread
<1> HIDE DEF S, T, R, U, inv, touched
<1>11. ASSUME NEW n \in 0 .. k, NEW u \in Vertices(Subgraph), Open(T, n, u), Reached(T, n, u),
             NEW w \in Vertices(Graph)
       PROVE  w \in RebuiltRestriction(T, n, u) <=>
                \/ u \in DOMAIN U /\ w \in U[u]
                \/ \E j \in n + 1 .. k + 1 : w \in T[j].inverse[u]
    <2>1. w \in RebuiltRestriction(T, n, u) <=>
                \/ u \in DOMAIN R /\ w \in R[u]
                \/ \E j \in n + 1 .. k : w \in S[j].inverse[u]
        BY <1>2, <1>5, <1>8, <1>11
    <2>2. (\E j \in n + 1 .. k + 1 : w \in T[j].inverse[u])
            <=> (\E j \in n + 1 .. k : w \in S[j].inverse[u]) \/ w \in inv[u]
        <3>1. n + 1 .. k + 1 = (n + 1 .. k) \cup {k + 1} /\ \A j \in n + 1 .. k : j \in 1 .. k
            BY <1>1
        <3>2. \A j \in n + 1 .. k : T[j] = S[j]
            BY <1>1, <3>1
        <3>3. QED BY <3>1, <3>2 DEF inv
    <2>3. u \in touched => u \in DOMAIN R
        <3>1. Reached(S, k, u)
            BY <1>1, <1>2, <1>11 DEF Reached
        <3>2. QED BY <1>4, <1>7, <3>1
    <2>4. (u \in DOMAIN R /\ w \in R[u]) <=> (u \in DOMAIN U /\ w \in U[u]) \/ w \in inv[u]
        <3>1. CASE u = c.sv
            BY <1>6, <3>1
        <3>2. CASE u \in touched
            <4>1. U[u] \subseteq R[u]
                BY <1>6, <2>3, <3>2 DEF filter_restriction
            <4>2. QED BY <1>6, <2>3, <3>2, <4>1
        <3>3. CASE u \notin touched /\ u # c.sv
            BY <1>6, <3>3
        <3>4. QED BY <3>1, <3>2, <3>3
    <2>5. QED BY <2>1, <2>2, <2>4
<1>12. ASSUME NEW u \in Vertices(Subgraph), Open(T, k + 1, u), Reached(T, k + 1, u),
              NEW w \in Vertices(Graph)
       PROVE  w \in RebuiltRestriction(T, k + 1, u) <=> u \in DOMAIN U /\ w \in U[u]
    <2>1. Open(S, k, u) /\ u # c.sv /\ u \notin c.chosen
        BY <1>2, <1>7, <1>12
    <2>2. Reached(S, k, u) \/ u \in all_adjacent(Subgraph, c.sv)
        BY <1>2, <1>12
    <2>3. Reached(S, k, u) <=> u \in DOMAIN R
        BY <1>4, <2>1
    <2>4. Reached(T, k, u) <=> Reached(S, k, u)
        BY <1>1, <1>2
    <2>5. u \in DOMAIN R =>
            \A x \in Vertices(Graph) : x \in RebuiltRestriction(T, k, u) <=> x \in R[u]
        <3> SUFFICES ASSUME u \in DOMAIN R, NEW x \in Vertices(Graph)
                     PROVE  x \in RebuiltRestriction(T, k, u) <=> x \in R[u]
            OBVIOUS
        <3>1. k + 1 .. k = {}
            BY <1>1
        <3>2. x \in RebuiltRestriction(S, k, u) <=> x \in R[u]
            BY <1>1, <1>5, <2>1, <2>3, <3>1
        <3>3. QED BY <1>1, <1>8, <2>3, <3>2
    <2>6. CASE u \notin all_adjacent(Subgraph, c.sv)
        <3>1. u \notin touched /\ u \in DOMAIN R
            BY <1>7, <2>2, <2>3, <2>6
        <3>2. u \in DOMAIN U /\ U[u] = R[u]
            BY <1>6, <2>1, <3>1
        <3>3. RebuiltRestriction(T, k + 1, u) = RebuiltRestriction(T, k, u)
            BY <1>9, <2>3, <2>4, <2>6, <3>1
        <3>4. QED BY <2>5, <3>1, <3>2, <3>3
    <2>7. CASE u \in all_adjacent(Subgraph, c.sv) /\ u \in DOMAIN R
        <3>1. u \in touched /\ u \in DOMAIN U
            BY <1>6, <1>7, <2>1, <2>7
        <3>2. U[u] = filter_restriction(u, c.sv, c.gv, R[u])
            BY <1>6, <2>7, <3>1
        <3>3. RebuiltRestriction(T, k + 1, u) =
                filter_restriction(u, c.sv, c.gv, RebuiltRestriction(T, k, u))
            BY <1>9, <2>3, <2>4, <2>7
        <3>4. \A A, B : (w \in A <=> w \in B)
                => (w \in filter_restriction(u, c.sv, c.gv, A)
                     <=> w \in filter_restriction(u, c.sv, c.gv, B))
            BY DEF filter_restriction
        <3>5. w \in RebuiltRestriction(T, k, u) <=> w \in R[u]
            BY <2>5, <2>7
        <3>6. QED BY <3>1, <3>2, <3>3, <3>4, <3>5
    <2>8. CASE u \in all_adjacent(Subgraph, c.sv) /\ u \notin DOMAIN R
        <3>1. u \in touched /\ u \in DOMAIN U
            BY <1>6, <1>7, <2>1, <2>8
        <3>2. QED BY <1>6, <1>9, <2>3, <2>4, <2>8, <3>1
    <2>9. QED BY <2>6, <2>7, <2>8
<1>13. ASSUME NEW n \in 0 .. k + 1, NEW u \in Vertices(Subgraph), Open(T, n, u), Reached(T, n, u),
              NEW w \in Vertices(Graph)
       PROVE  w \in RebuiltRestriction(T, n, u) <=>
                \/ u \in DOMAIN U /\ w \in U[u]
                \/ \E j \in n + 1 .. k + 1 : w \in T[j].inverse[u]
    <2>1. CASE n \in 0 .. k
        BY <1>11, <1>13, <2>1
    <2>2. CASE n = k + 1
        <3>1. n + 1 .. k + 1 = {}
            BY <1>1, <2>2
        <3>2. QED BY <1>12, <1>13, <2>2, <3>1
    <2>3. QED BY <1>1, <2>1, <2>2
<1>14. QED BY <1>1, <1>13 DEF CandidatesAreExact, T, U

\* The vertex placed is the first, or next to one placed before.
LEMMA DescentTogether ==
    ASSUME GraphsAgree, NEW c, IsThread(c), ThreadAgrees(c), OnlyReached(c), c.pc = "enter",
           ChosenTogether(c), NEW d, d.chosen = c.chosen \cup {c.sv}
    PROVE  ChosenTogether(d)
<1> DEFINE k == Len(c.stack)
<1>1. /\ k \in Nat
      /\ c.chosen = {c.stack[i].sv : i \in 1 .. k}
      /\ c.chosen \subseteq Vertices(Subgraph) /\ c.sv \in Vertices(Subgraph)
    BY DEF IsThread, ThreadAgrees, FramesArePath
<1>2. CASE k = 0
    <2>1. d.chosen = {c.sv}
        BY <1>1, <1>2
    <2>2. QED BY <2>1 DEF ChosenTogether
<1>3. CASE k > 0
    <2>1. Reached(c.stack, k, c.sv)
        BY <1>1, <1>3 DEF ThreadAgrees, CallAgrees, OnlyReached
    <2>2. PICK i \in 1 .. k : c.sv \in all_adjacent(Subgraph, c.stack[i].sv)
        BY <2>1 DEF Reached
    <2>3. PICK u \in c.chosen : is_edge(Subgraph, u, c.sv) \/ is_edge(Subgraph, c.sv, u)
        BY <1>1, <2>2, AdjacentIff
    <2>4. ASSUME NEW P \in SUBSET Vertices(Subgraph), IsPart(P)
          PROVE  d.chosen \subseteq P \/ d.chosen \cap P = {}
        <3>1. u \in P <=> c.sv \in P
            BY <1>1, <2>3, <2>4 DEF IsPart
        <3>2. c.chosen \subseteq P \/ c.chosen \cap P = {}
            BY <2>4 DEF ChosenTogether
        <3>3. QED BY <1>1, <3>1, <3>2
    <2>5. QED BY <2>4 DEF ChosenTogether
<1>4. QED BY <1>1, <1>2, <1>3

-----------------------------------------------------------------------------
(* Coming back.                                                            *)

\* The entries of the map that was restored, and their candidates.
LEMMA RestoredEntries ==
    ASSUME NEW R, NEW inv, DOMAIN inv = Vertices(Subgraph),
           NEW Q, Q = restore_restrictions(R, inv), NEW u \in Vertices(Subgraph)
    PROVE  /\ u \in DOMAIN Q <=> /\ INVALID_VERTEX_ID \notin inv[u]
                                 /\ u \in DOMAIN R \/ inv[u] # {}
           /\ u \in DOMAIN Q => /\ inv[u] \subseteq Q[u]
                                /\ u \in DOMAIN R => R[u] \subseteq Q[u]
BY DEF restore_restrictions

\* The frames that stay when d is c without its last, and what that one had given back.
ComesBack(c, d, n) ==
    /\ n \in Nat /\ Len(c.stack) = n + 1 /\ Len(d.stack) = n
    /\ \A i \in 1 .. n : d.stack[i] = c.stack[i]
    /\ \A i \in 0 .. n :
         /\ \A m : Follows(m, d.stack, i) <=> Follows(m, c.stack, i)
         /\ \A u : Open(d.stack, i, u) <=> Open(c.stack, i, u)
         /\ \A u : Reached(d.stack, i, u) <=> Reached(c.stack, i, u)
    /\ \A u : Open(c.stack, n + 1, u) <=> u \notin c.chosen
    /\ DOMAIN c.restrictions \cap c.chosen = {}
    /\ DOMAIN c.restrictions \subseteq Vertices(Subgraph)
    /\ DOMAIN d.restrictions \subseteq Vertices(Subgraph)
    /\ \A u \in Vertices(Subgraph) :
         INVALID_VERTEX_ID \in c.stack[n + 1].inverse[u] => ~Reached(c.stack, n, u)
    /\ \A u \in Vertices(Subgraph) :
         /\ u \in DOMAIN d.restrictions <=>
              /\ INVALID_VERTEX_ID \notin c.stack[n + 1].inverse[u]
              /\ u \in DOMAIN c.restrictions \/ c.stack[n + 1].inverse[u] # {}
         /\ u \in DOMAIN d.restrictions =>
              /\ c.stack[n + 1].inverse[u] \subseteq d.restrictions[u]
              /\ u \in DOMAIN c.restrictions => c.restrictions[u] \subseteq d.restrictions[u]

\* Taking a frame back comes to that.
LEMMA PopFacts ==
    ASSUME NEW c, IsThread(c), ThreadAgrees(c), NEW d, NEW n, IsPush(d, c, n),
           d.restrictions = restore_restrictions(c.restrictions, c.stack[n + 1].inverse)
    PROVE  ComesBack(c, d, n)
<1>1. /\ n \in Nat /\ Len(c.stack) = n + 1 /\ Len(d.stack) = n
      /\ \A i \in 1 .. n : d.stack[i] = c.stack[i]
    BY DEF IsPush
<1>2. ASSUME NEW i \in 0 .. n
      PROVE  /\ \A m : Follows(m, d.stack, i) <=> Follows(m, c.stack, i)
             /\ \A u : Open(d.stack, i, u) <=> Open(c.stack, i, u)
             /\ \A u : Reached(d.stack, i, u) <=> Reached(c.stack, i, u)
    <2>1. SameFrames(d.stack, c.stack, i)
        BY <1>1 DEF SameFrames
    <2>2. QED BY <2>1, PrefixFollows
<1>3. \A u : Open(c.stack, n + 1, u) <=> u \notin c.chosen
    BY <1>1, OpenIff DEF ThreadAgrees
<1>4. DOMAIN c.restrictions \cap c.chosen = {} /\ DOMAIN c.restrictions \subseteq Vertices(Subgraph)
    BY DEF ThreadAgrees, RestrictionsAgree, IsThread
<1>5. c.stack[n + 1] \in SearchFrame
    BY <1>1 DEF IsThread
<1>6. DOMAIN c.stack[n + 1].inverse = Vertices(Subgraph)
    BY <1>5 DEF SearchFrame
<1>7. DOMAIN d.restrictions \subseteq Vertices(Subgraph)
    BY <1>4, <1>6 DEF restore_restrictions
<1>8. \A u \in Vertices(Subgraph) : INVALID_VERTEX_ID \in c.stack[n + 1].inverse[u] => ~Reached(c.stack, n, u)
    <2>1. GivesBack(c.stack, n + 1, n)
        <3>1. ASSUME NEW i, i = n + 1 PROVE GivesBack(c.stack, i, n)
            BY <1>1, <3>1 DEF ThreadAgrees, UndoAgrees
        <3>2. QED BY <3>1
    <2>2. QED BY <2>1 DEF GivesBack
<1>9. QED BY <1>1, <1>2, <1>3, <1>4, <1>6, <1>7, <1>8, RestoredEntries DEF ComesBack

\* The entries the frame had made go with it.
LEMMA PopReached ==
    ASSUME NEW c, IsThread(c), ThreadAgrees(c), OnlyReached(c),
           NEW d, NEW n, IsPush(d, c, n),
           d.restrictions = restore_restrictions(c.restrictions, c.stack[n + 1].inverse)
    PROVE  OnlyReached(d)
<1> DEFINE S == c.stack
           R == c.restrictions
           Q == d.restrictions
           f == S[n + 1]
<1>1. /\ n \in Nat /\ Len(S) = n + 1 /\ Len(d.stack) = n
      /\ \A i \in 1 .. n : d.stack[i] = S[i]
      /\ \A i \in 0 .. n :
           /\ \A u : Open(d.stack, i, u) <=> Open(S, i, u)
           /\ \A u : Reached(d.stack, i, u) <=> Reached(S, i, u)
      /\ \A u : Open(S, n + 1, u) <=> u \notin c.chosen
      /\ DOMAIN R \cap c.chosen = {} /\ DOMAIN Q \subseteq Vertices(Subgraph)
      /\ \A u \in Vertices(Subgraph) :
           u \in DOMAIN Q <=> /\ INVALID_VERTEX_ID \notin f.inverse[u]
                              /\ u \in DOMAIN R \/ f.inverse[u] # {}
    <2>1. ComesBack(c, d, n)
        BY PopFacts
    <2>2. QED BY <2>1 DEF ComesBack
<1>0. /\ \A i \in 1 .. n : i - 1 \in 0 .. n /\ i \in 0 .. n /\ i \in 1 .. n + 1
      /\ n \in 0 .. n /\ n + 1 \in 1 .. n + 1 /\ n + 1 - 1 = n
    BY <1>1
<1>2. /\ \A u \in DOMAIN R : Reached(S, n + 1, u)
      /\ \A i \in 1 .. n + 1 : \A u \in Vertices(Subgraph) :
           /\ S[i].inverse[u] \notin {{}, {INVALID_VERTEX_ID}} => Reached(S, i - 1, u)
           /\ Open(S, i, u) /\ Reached(S, i, u) /\ ~Reached(S, i - 1, u)
                => INVALID_VERTEX_ID \in S[i].inverse[u]
    BY <1>1 DEF OnlyReached
<1> HIDE DEF S, R, Q, f
<1>3. ASSUME NEW u \in Vertices(Subgraph)
      PROVE  /\ f.inverse[u] \notin {{}, {INVALID_VERTEX_ID}} => Reached(S, n, u)
             /\ Open(S, n + 1, u) /\ Reached(S, n + 1, u) /\ ~Reached(S, n, u)
                => INVALID_VERTEX_ID \in f.inverse[u]
    BY <1>0, <1>1, <1>2 DEF f
<1>4. ASSUME NEW u \in DOMAIN Q PROVE Reached(d.stack, n, u)
    <2>1. u \in Vertices(Subgraph) /\ INVALID_VERTEX_ID \notin f.inverse[u]
          /\ (u \in DOMAIN R \/ f.inverse[u] # {})
        BY <1>0, <1>1, <1>4
    <2>2. CASE u \in DOMAIN R
        BY <1>0, <1>1, <1>2, <1>3, <2>1, <2>2
    <2>3. CASE f.inverse[u] # {}
        BY <1>0, <1>1, <1>3, <2>1, <2>3
    <2>4. QED BY <2>1, <2>2, <2>3
<1>5. ASSUME NEW i \in 1 .. n, NEW u \in Vertices(Subgraph)
      PROVE  /\ d.stack[i].inverse[u] \notin {{}, {INVALID_VERTEX_ID}} => Reached(d.stack, i - 1, u)
             /\ Open(d.stack, i, u) /\ Reached(d.stack, i, u) /\ ~Reached(d.stack, i - 1, u)
                  => INVALID_VERTEX_ID \in d.stack[i].inverse[u]
    BY <1>0, <1>1, <1>2
<1>6. QED BY <1>1, <1>4, <1>5 DEF OnlyReached, Q

\* The candidates the frame had taken away come back.
LEMMA PopKept ==
    ASSUME NEW c, IsThread(c), ThreadAgrees(c), CandidatesAreKept(c),
           NEW d, NEW n, IsPush(d, c, n),
           d.restrictions = restore_restrictions(c.restrictions, c.stack[n + 1].inverse)
    PROVE  CandidatesAreKept(d)
<1> DEFINE S == c.stack
           R == c.restrictions
           Q == d.restrictions
           f == S[n + 1]
<1>1. /\ n \in Nat /\ Len(S) = n + 1 /\ Len(d.stack) = n
      /\ \A i \in 1 .. n : d.stack[i] = S[i]
      /\ \A i \in 0 .. n :
           /\ \A m : Follows(m, d.stack, i) <=> Follows(m, S, i)
           /\ \A u : Open(d.stack, i, u) <=> Open(S, i, u)
           /\ \A u : Reached(d.stack, i, u) <=> Reached(S, i, u)
      /\ \A u \in Vertices(Subgraph) : INVALID_VERTEX_ID \in f.inverse[u] => ~Reached(S, n, u)
      /\ \A u \in Vertices(Subgraph) :
           /\ u \in DOMAIN Q <=> /\ INVALID_VERTEX_ID \notin f.inverse[u]
                                 /\ u \in DOMAIN R \/ f.inverse[u] # {}
           /\ u \in DOMAIN Q => /\ f.inverse[u] \subseteq Q[u]
                                /\ u \in DOMAIN R => R[u] \subseteq Q[u]
    <2>1. ComesBack(c, d, n)
        BY PopFacts
    <2>2. QED BY <2>1 DEF ComesBack
<1>2. ASSUME NEW m \in Wanted, NEW i \in 0 .. n, Follows(m, d.stack, i), NEW v \in DOMAIN m,
             Open(d.stack, i, m[v]), Reached(d.stack, i, m[v])
      PROVE  \/ m[v] \in DOMAIN Q /\ v \in Q[m[v]]
             \/ \E j \in i + 1 .. n : v \in d.stack[j].inverse[m[v]]
    <2>1. Follows(m, S, i) /\ Open(S, i, m[v]) /\ Reached(S, i, m[v])
        BY <1>1, <1>2
    <2>2. \/ m[v] \in DOMAIN R /\ v \in R[m[v]]
          \/ \E j \in i + 1 .. n + 1 : v \in S[j].inverse[m[v]]
        <3>1. i \in 0 .. Len(S)
            BY <1>1
        <3>2. QED BY <1>1, <2>1, <3>1 DEF CandidatesAreKept
    <2>3. m[v] \in Vertices(Subgraph)
        BY WantedFacts
    <2>4. Reached(S, n, m[v])
        BY <1>1, <2>1 DEF Reached
    <2> HIDE DEF S, R, Q, f
    <2>5. INVALID_VERTEX_ID \notin f.inverse[m[v]]
        BY <1>1, <2>3, <2>4
    <2>6. CASE m[v] \in DOMAIN R /\ v \in R[m[v]]
        BY <1>1, <2>3, <2>5, <2>6
    <2>7. CASE \E j \in i + 1 .. n + 1 : v \in S[j].inverse[m[v]]
        <3>1. PICK j \in i + 1 .. n + 1 : v \in S[j].inverse[m[v]]
            BY <2>7
        <3>2. CASE j = n + 1
            <4>1. v \in f.inverse[m[v]]
                BY <3>1, <3>2 DEF f
            <4>2. QED BY <1>1, <2>3, <2>5, <4>1
        <3>3. CASE j # n + 1
            <4>1. j \in i + 1 .. n /\ j \in 1 .. n
                BY <1>1, <3>3
            <4>2. QED BY <1>1, <3>1, <4>1
        <3>4. QED BY <3>2, <3>3
    <2>8. QED BY <2>2, <2>6, <2>7
<1> HIDE DEF Q, S, R
<1>3. QED BY <1>1, <1>2 DEF CandidatesAreKept, Q

\* A restored entry has what it had and what its undo set has, no more.
LEMMA RestoredExactly ==
    ASSUME NEW R, NEW inv, DOMAIN inv = Vertices(Subgraph),
           NEW Q, Q = restore_restrictions(R, inv), NEW u \in DOMAIN Q, NEW w
    PROVE  w \in Q[u] <=> (u \in DOMAIN R /\ w \in R[u]) \/ w \in inv[u]
BY DEF restore_restrictions

\* What the frame had taken away comes back, and nothing else.
LEMMA PopExact ==
    ASSUME GraphsAgree, NEW c, IsThread(c), ThreadAgrees(c), CandidatesAreExact(c),
           NEW d, NEW n, IsPush(d, c, n),
           d.restrictions = restore_restrictions(c.restrictions, c.stack[n + 1].inverse)
    PROVE  CandidatesAreExact(d)
<1> DEFINE S == c.stack
           R == c.restrictions
           Q == d.restrictions
           f == S[n + 1]
<1>1. /\ n \in Nat /\ Len(S) = n + 1 /\ Len(d.stack) = n
      /\ \A i \in 1 .. n : d.stack[i] = S[i]
      /\ \A i \in 0 .. n :
           /\ \A u : Open(d.stack, i, u) <=> Open(S, i, u)
           /\ \A u : Reached(d.stack, i, u) <=> Reached(S, i, u)
      /\ \A u \in Vertices(Subgraph) : INVALID_VERTEX_ID \in f.inverse[u] => ~Reached(S, n, u)
      /\ \A u \in Vertices(Subgraph) :
           u \in DOMAIN Q <=> /\ INVALID_VERTEX_ID \notin f.inverse[u]
                              /\ u \in DOMAIN R \/ f.inverse[u] # {}
    <2>1. ComesBack(c, d, n)
        BY PopFacts
    <2>2. QED BY <2>1 DEF ComesBack
<1>2. \A u \in DOMAIN Q : \A w : w \in Q[u] <=> (u \in DOMAIN R /\ w \in R[u]) \/ w \in f.inverse[u]
    <2>1. f \in SearchFrame
        BY <1>1 DEF IsThread
    <2>2. DOMAIN f.inverse = Vertices(Subgraph)
        BY <2>1 DEF SearchFrame
    <2>3. QED BY <2>2, RestoredExactly
<1>3. ASSUME NEW i \in 0 .. n, NEW u, Reached(S, i, u)
      PROVE  RebuiltRestriction(d.stack, i, u) = RebuiltRestriction(S, i, u)
    <2>1. SameFrames(S, d.stack, i) /\ i \in Nat
        BY <1>1 DEF SameFrames
    <2>2. QED BY <1>3, <2>1, PrefixRebuilt
<1>4. ASSUME NEW i \in 0 .. n, NEW u \in Vertices(Subgraph),
             Open(d.stack, i, u), Reached(d.stack, i, u), NEW w \in Vertices(Graph)
      PROVE  w \in RebuiltRestriction(d.stack, i, u) <=>
                \/ u \in DOMAIN Q /\ w \in Q[u]
                \/ \E j \in i + 1 .. n : w \in d.stack[j].inverse[u]
    <2>1. Open(S, i, u) /\ Reached(S, i, u)
        BY <1>1, <1>4
    <2>2. w \in RebuiltRestriction(S, i, u) <=>
                \/ u \in DOMAIN R /\ w \in R[u]
                \/ \E j \in i + 1 .. n + 1 : w \in S[j].inverse[u]
        <3>1. i \in 0 .. Len(S)
            BY <1>1
        <3>2. QED BY <1>1, <2>1, <3>1 DEF CandidatesAreExact
    <2>3. Reached(S, n, u)
        BY <1>1, <2>1 DEF Reached
    <2>4. INVALID_VERTEX_ID \notin f.inverse[u]
        BY <1>1, <2>3
    <2>5. (\E j \in i + 1 .. n + 1 : w \in S[j].inverse[u])
            <=> (\E j \in i + 1 .. n : w \in d.stack[j].inverse[u]) \/ w \in f.inverse[u]
        <3>1. i + 1 .. n + 1 = (i + 1 .. n) \cup {n + 1} /\ \A j \in i + 1 .. n : j \in 1 .. n
            BY <1>1
        <3>2. \A j \in i + 1 .. n : d.stack[j] = S[j]
            BY <1>1, <3>1
        <3>3. QED BY <3>1, <3>2
    <2> HIDE DEF S, R, Q, f
    <2>6. (u \in DOMAIN Q /\ w \in Q[u]) <=> (u \in DOMAIN R /\ w \in R[u]) \/ w \in f.inverse[u]
        BY <1>1, <1>2, <2>4
    <2>7. RebuiltRestriction(d.stack, i, u) = RebuiltRestriction(S, i, u)
        BY <1>3, <2>1
    <2>8. QED BY <2>2, <2>5, <2>6, <2>7
<1> HIDE DEF Q, S, R
<1>5. QED BY <1>1, <1>4 DEF CandidatesAreExact, Q

\* What is left is still in one part.
LEMMA PopTogether ==
    ASSUME NEW c, ChosenTogether(c), NEW d, d.chosen \subseteq c.chosen
    PROVE  ChosenTogether(d)
BY DEF ChosenTogether

-----------------------------------------------------------------------------
(* A match that is pending stays so until it is written.                   *)

\* Giving up candidates changes nothing else.
LEMMA KeepsKeeps ==
    ASSUME GraphsAgree, NEW c, NEW d, Keeps(c, d), ThreadKeeps(c)
    PROVE  /\ ThreadKeeps(d)
           /\ \A n \in 0 .. Len(c.stack) : \A m : Follows(m, d.stack, n) <=> Follows(m, c.stack, n)
<1> DEFINE S == c.stack
           T == d.stack
           k == Len(c.stack)
<1>1. /\ k \in Nat /\ Len(T) = k
      /\ d.chosen = c.chosen /\ d.restrictions = c.restrictions
      /\ \A i \in 1 .. k : T[i].gv = S[i].gv /\ T[i].sv = S[i].sv /\ T[i].inverse = S[i].inverse
    BY DEF Keeps
<1>2. ASSUME NEW n \in 0 .. k
      PROVE  /\ \A m : Follows(m, T, n) <=> Follows(m, S, n)
             /\ \A u : Open(T, n, u) <=> Open(S, n, u)
             /\ \A u : Reached(T, n, u) <=> Reached(S, n, u)
    <2>1. SameFrames(T, S, n)
        BY <1>1 DEF SameFrames
    <2>2. QED BY <2>1, PrefixFollows
<1>3. OnlyReached(c) /\ CandidatesAreKept(c) /\ CandidatesAreExact(c) /\ ChosenTogether(c)
    BY DEF ThreadKeeps
<1>4. k \in 0 .. k /\ \A i \in 1 .. k : i \in 0 .. k /\ i - 1 \in 0 .. k
    BY <1>1
<1>5. OnlyReached(d)
    <2>1. \A u \in DOMAIN d.restrictions : Reached(T, k, u)
        BY <1>1, <1>2, <1>3, <1>4 DEF OnlyReached
    <2>2. ASSUME NEW i \in 1 .. k, NEW u \in Vertices(Subgraph)
          PROVE  /\ T[i].inverse[u] \notin {{}, {INVALID_VERTEX_ID}} => Reached(T, i - 1, u)
                 /\ Open(T, i, u) /\ Reached(T, i, u) /\ ~Reached(T, i - 1, u)
                      => INVALID_VERTEX_ID \in T[i].inverse[u]
        <3>1. /\ S[i].inverse[u] \notin {{}, {INVALID_VERTEX_ID}} => Reached(S, i - 1, u)
              /\ Open(S, i, u) /\ Reached(S, i, u) /\ ~Reached(S, i - 1, u)
                   => INVALID_VERTEX_ID \in S[i].inverse[u]
            BY <1>3 DEF OnlyReached
        <3>2. QED BY <1>1, <1>2, <1>4, <3>1
    <2>3. QED BY <1>1, <2>1, <2>2 DEF OnlyReached
<1>6. CandidatesAreKept(d)
    <2>1. ASSUME NEW m \in Wanted, NEW n \in 0 .. k, Follows(m, T, n), NEW v \in DOMAIN m,
                 Open(T, n, m[v]), Reached(T, n, m[v])
          PROVE  \/ m[v] \in DOMAIN d.restrictions /\ v \in d.restrictions[m[v]]
                 \/ \E j \in n + 1 .. k : v \in T[j].inverse[m[v]]
        <3>1. Follows(m, S, n) /\ Open(S, n, m[v]) /\ Reached(S, n, m[v])
            BY <1>2, <2>1
        <3>2. \/ m[v] \in DOMAIN c.restrictions /\ v \in c.restrictions[m[v]]
              \/ \E j \in n + 1 .. k : v \in S[j].inverse[m[v]]
            BY <1>3, <3>1 DEF CandidatesAreKept
        <3>3. \A j \in n + 1 .. k : j \in 1 .. k
            BY <1>1
        <3>4. QED BY <1>1, <3>2, <3>3
    <2>2. QED BY <1>1, <2>1 DEF CandidatesAreKept
<1>7. CandidatesAreExact(d)
    <2>1. ASSUME NEW n \in 0 .. k, NEW u \in Vertices(Subgraph), Open(T, n, u), Reached(T, n, u),
                 NEW w \in Vertices(Graph)
          PROVE  w \in RebuiltRestriction(T, n, u) <=>
                    \/ u \in DOMAIN d.restrictions /\ w \in d.restrictions[u]
                    \/ \E j \in n + 1 .. k : w \in T[j].inverse[u]
        <3>1. Open(S, n, u) /\ Reached(S, n, u)
            BY <1>2, <2>1
        <3>2. w \in RebuiltRestriction(S, n, u) <=>
                 \/ u \in DOMAIN c.restrictions /\ w \in c.restrictions[u]
                 \/ \E j \in n + 1 .. k : w \in S[j].inverse[u]
            BY <1>3, <3>1 DEF CandidatesAreExact
        <3>3. RebuiltRestriction(S, n, u) = RebuiltRestriction(T, n, u)
            <4>1. SameFrames(S, T, n) /\ n \in Nat
                BY <1>1 DEF SameFrames
            <4>2. QED BY <3>1, <4>1, PrefixRebuilt
        <3>4. \A j \in n + 1 .. k : j \in 1 .. k
            BY <1>1
        <3>5. QED BY <1>1, <3>2, <3>3, <3>4
    <2>2. QED BY <1>1, <2>1 DEF CandidatesAreExact
<1>8. ChosenTogether(d)
    BY <1>1, <1>3 DEF ChosenTogether
<1>9. QED BY <1>2, <1>5, <1>6, <1>7, <1>8 DEF ThreadKeeps

\* Thread c is on a branch, at frame i, that match m takes.
OnBranch(c, m, i) == /\ Follows(m, c.stack, i)
                     /\ \E v \in c.stack[i].todo : v \in DOMAIN m /\ m[v] = c.stack[i].next

\* The call for the thread's own vertex.
LEMMA StartPending ==
    ASSUME NEW d, Len(d.stack) = 0, d.pc = "enter", NEW m, d.gv \in DOMAIN m, m[d.gv] = d.sv
    PROVE  Pending(d, m)
BY DEF Pending, Follows

\* The next candidate is the match's, or not.
LEMMA TryPending ==
    ASSUME NEW c, NEW d, NEW w, c.pc = "loop", NEW k \in Nat, k > 0,
           Len(c.stack) = k, Len(d.stack) = k,
           \A i \in 1 .. k : /\ d.stack[i].gv = c.stack[i].gv
                             /\ d.stack[i].sv = c.stack[i].sv
                             /\ d.stack[i].next = c.stack[i].next,
           \A i \in 1 .. k - 1 : d.stack[i].todo = c.stack[i].todo,
           d.stack[k].todo = c.stack[k].todo \ {w},
           d.pc = "enter", d.gv = w, d.sv = c.stack[k].next,
           NEW m, Pending(c, m)
    PROVE  Pending(d, m)
<1>1. PICK i \in 1 .. k : OnBranch(c, m, i)
    BY DEF Pending, OnBranch
<1>2. PICK v \in c.stack[i].todo : v \in DOMAIN m /\ m[v] = c.stack[i].next
    BY <1>1 DEF OnBranch
<1>3. Follows(m, d.stack, i)
    BY <1>1 DEF Follows, OnBranch
<1>4. CASE i = k /\ v = w
    BY <1>2, <1>3, <1>4 DEF Pending
<1>5. CASE ~(i = k /\ v = w)
    <2>1. v \in d.stack[i].todo /\ m[v] = d.stack[i].next
        <3>1. CASE i = k
            BY <1>2, <1>5, <3>1
        <3>2. CASE i # k
            <4>1. i \in 1 .. k - 1
                BY <3>2
            <4>2. QED BY <1>2, <4>1
        <3>3. QED BY <3>1, <3>2
    <2>2. QED BY <1>2, <1>3, <2>1 DEF Pending
<1>6. QED BY <1>4, <1>5

\* A return that leaves the stack alone: what was pending in its frames still is.
LEMMA RestPending ==
    ASSUME NEW c, NEW d, d.stack = c.stack, d.pc = IF Len(c.stack) = 0 THEN "add" ELSE "loop",
           Len(c.stack) \in Nat, NEW m, NEW i \in 1 .. Len(c.stack), OnBranch(c, m, i)
    PROVE  Pending(d, m)
<1>1. d.pc = "loop"
    OBVIOUS
<1>2. QED BY <1>1 DEF Pending, OnBranch

\* One level deeper.
LEMMA PushPending ==
    ASSUME NEW c, NEW d, NEW k \in Nat, Len(c.stack) = k, Len(d.stack) = k + 1,
           \A i \in 1 .. k : d.stack[i] = c.stack[i], d.pc = "loop",
           NEW m, NEW i \in 1 .. k, OnBranch(c, m, i)
    PROVE  Pending(d, m)
<1>1. Follows(m, d.stack, i) /\ d.stack[i] = c.stack[i] /\ i \in 1 .. k + 1
    BY DEF OnBranch, Follows
<1>2. QED BY <1>1 DEF Pending, OnBranch

\* One level back: the frame that goes has no candidates left.
LEMMA PopPending ==
    ASSUME NEW c, NEW d, NEW n \in Nat, Len(c.stack) = n + 1, Len(d.stack) = n,
           \A i \in 1 .. n : d.stack[i] = c.stack[i], c.stack[n + 1].todo = {},
           c.pc = "loop", d.pc = IF n = 0 THEN "add" ELSE "loop",
           NEW m, Pending(c, m)
    PROVE  Pending(d, m)
<1>1. PICK i \in 1 .. n + 1 : OnBranch(c, m, i)
    BY DEF Pending, OnBranch
<1>2. i \in 1 .. n
    BY <1>1 DEF OnBranch
<1>3. Follows(m, d.stack, i) /\ d.stack[i] = c.stack[i] /\ d.pc = "loop"
    BY <1>1, <1>2 DEF OnBranch, Follows
<1>4. QED BY <1>1, <1>2, <1>3 DEF Pending, OnBranch

\* The partial match of a thread is the frames of its stack; a match that follows them
\* contains it.
LEMMA FollowsPath ==
    ASSUME NEW c, ThreadAgrees(c), IsThread(c), NEW m, Follows(m, c.stack, Len(c.stack))
    PROVE  \A v \in DOMAIN c.path : v \in DOMAIN m /\ m[v] = c.path[v] /\ c.path[v] \in c.chosen
BY DEF ThreadAgrees, FramesArePath, Follows

\* A pair that a match has is not rejected.
LEMMA NotRejected ==
    ASSUME GraphsAgree, NEW c, ThreadAgrees(c), IsThread(c), c.pc = "enter", NEW m \in Wanted,
           Follows(m, c.stack, Len(c.stack)), c.gv \in DOMAIN m, m[c.gv] = c.sv
    PROVE  Unmatched(c)
<1>1. c.gv \notin DOMAIN c.path
    BY FollowsPath, CalledAgrees
<1>2. ASSUME searcher.induced PROVE is_induced_valid(c.path, c.gv, c.sv)
    <2>1. \A v, w \in DOMAIN m : is_edge(Graph, v, w) => is_edge(Subgraph, m[v], m[w])
        BY <1>2, WantedFacts DEF IsEmbedding
    <2>2. ASSUME NEW w \in get_neighbours(Graph, c.gv, FALSE) \cap DOMAIN c.path
          PROVE  is_edge(Subgraph, c.sv, c.path[w])
        <3>1. is_edge(Graph, c.gv, w)
            BY <2>2 DEF get_neighbours
        <3>2. QED BY <2>1, <3>1, FollowsPath
    <2>3. ASSUME NEW w \in get_neighbours(Graph, c.gv, TRUE) \cap DOMAIN c.path
          PROVE  is_edge(Subgraph, c.path[w], c.sv)
        <3>1. is_edge(Graph, w, c.gv)
            BY <2>3 DEF get_neighbours
        <3>2. QED BY <2>1, <3>1, FollowsPath
    <2>4. QED BY <2>2, <2>3 DEF is_induced_valid
<1>3. QED BY <1>1, <1>2 DEF Unmatched

\* A match that the last pair completes is the one that is written.
LEMMA CompletedMatch ==
    ASSUME GraphsAgree, NEW c, ThreadAgrees(c), IsThread(c), c.pc = "enter", NEW m \in Wanted,
           Follows(m, c.stack, Len(c.stack)), c.gv \in DOMAIN m, m[c.gv] = c.sv, Complete(c)
    PROVE  m = Extended(c.path, c.gv, c.sv)
<1> DEFINE e == Extended(c.path, c.gv, c.sv)
<1>1. e = [v \in DOMAIN c.path \cup {c.gv} |-> IF v = c.gv THEN c.sv ELSE c.path[v]]
    BY DEF Extended
<1>2. c.chosen \cup {c.sv} = Vertices(Subgraph)
    BY CompleteCovers
<1>3. \A u \in c.chosen : \E v \in DOMAIN c.path : c.path[v] = u
    BY DEF ThreadAgrees, FramesArePath
<1>4. \A v \in DOMAIN c.path \cup {c.gv} : v \in DOMAIN m /\ e[v] = m[v]
    BY <1>1, FollowsPath
<1>5. ASSUME NEW v \in DOMAIN m PROVE v \in DOMAIN c.path \cup {c.gv}
    <2>1. m[v] \in c.chosen \cup {c.sv}
        BY <1>2, WantedFacts
    <2>2. PICK w \in DOMAIN c.path \cup {c.gv} : m[w] = m[v] /\ w \in DOMAIN m
        BY <1>3, <2>1, FollowsPath
    <2>3. QED BY <2>2, WantedFacts DEF OneToOne
<1>6. DOMAIN m = DOMAIN c.path \cup {c.gv}
    BY <1>4, <1>5
<1>7. m = [v \in DOMAIN m |-> m[v]]
    BY WantedFacts
<1> HIDE DEF e
<1>8. e = [v \in DOMAIN m |-> m[v]]
    BY <1>1, <1>4, <1>6
<1>9. QED BY <1>7, <1>8 DEF e

\* A complete match means that the pattern is in one part.
LEMMA CompleteConnects ==
    ASSUME GraphsAgree, NEW c, ThreadAgrees(c), IsThread(c), c.pc = "enter", Complete(c),
           OnlyReached(c), ChosenTogether(c)
    PROVE  IsConnected(Subgraph)
<1> DEFINE d == [chosen |-> c.chosen \cup {c.sv}]
<1>1. d.chosen = Vertices(Subgraph) /\ ChosenTogether(d)
    <2>1. d.chosen = c.chosen \cup {c.sv}
        OBVIOUS
    <2> HIDE DEF d
    <2>2. QED BY <2>1, CompleteCovers, DescentTogether
<1> HIDE DEF d
<1>2. ASSUME NEW T \in (SUBSET Vertices(Subgraph)) \ {{}, Vertices(Subgraph)}
      PROVE  \E u \in T, w \in Vertices(Subgraph) \ T : is_edge(Subgraph, u, w) \/ is_edge(Subgraph, w, u)
    <2>1. T \subseteq Vertices(Subgraph) /\ T # {} /\ T # Vertices(Subgraph)
        BY <1>2
    <2>2. ~(Vertices(Subgraph) \subseteq T) /\ Vertices(Subgraph) \cap T # {}
        BY <2>1
    <2>3. ~IsPart(T)
        BY <1>1, <2>1, <2>2 DEF ChosenTogether
    <2>4. QED BY <2>3 DEF IsPart
<1>3. QED BY <1>2 DEF IsConnected

\* While the match is not complete, a connected pattern has a vertex next to it.
LEMMA OneIsOpen ==
    ASSUME GraphsAgree, IsConnected(Subgraph), NEW c, ThreadAgrees(c), IsThread(c),
           c.pc = "enter", ~Complete(c),
           NEW d, ThreadAgrees(d), d.chosen = c.chosen \cup {c.sv}
    PROVE  DOMAIN d.restrictions \ d.chosen # {}
<1>1. d.chosen \in (SUBSET Vertices(Subgraph)) \ {{}, Vertices(Subgraph)}
    <2>1. d.chosen # Vertices(Subgraph)
        BY CompleteCovers
    <2>2. d.chosen \subseteq Vertices(Subgraph) /\ c.sv \in d.chosen
        BY DEF IsThread
    <2>3. QED BY <2>1, <2>2
<1>2. PICK u \in d.chosen, w \in Vertices(Subgraph) \ d.chosen :
        is_edge(Subgraph, u, w) \/ is_edge(Subgraph, w, u)
    BY <1>1 DEF IsConnected
<1>3. w \in all_adjacent(Subgraph, u)
    BY <1>2, AdjacentIff
<1>4. PICK i \in 1 .. Len(d.stack) : u = d.stack[i].sv
    BY <1>2 DEF ThreadAgrees, FramesArePath
<1>5. Reached(d.stack, Len(d.stack), w)
    BY <1>3, <1>4 DEF Reached
<1>6. QED BY <1>2, <1>5 DEF ThreadAgrees, RestrictionsAgree

\* The vertex chosen next has a restriction.
LEMMA NextIsOpen ==
    ASSUME NEW R, NEW chosen, DOMAIN R \ chosen # {}, NEW next \in choose_next(R, chosen)
    PROVE  next \in DOMAIN R \ chosen
BY DEF choose_next

\* A match that takes the pair has a candidate for every vertex next to it.
LEMMA DescentFinds ==
    ASSUME NEW d, ThreadKeeps(d), ThreadAgrees(d), Len(d.stack) \in Nat, NEW m \in Wanted,
           Follows(m, d.stack, Len(d.stack)), NEW u \in DOMAIN d.restrictions
    PROVE  \E v \in DOMAIN m : m[v] = u /\ v \in d.restrictions[u]
<1> DEFINE T == d.stack
           k == Len(d.stack)
<1>1. k \in 0 .. k /\ k + 1 .. k = {}
    OBVIOUS
<1>2. Reached(T, k, u) /\ u \in Vertices(Subgraph)
    <2>1. Reached(T, k, u)
        BY DEF ThreadKeeps, OnlyReached
    <2>2. QED BY <2>1, AdjacentAreVertices DEF Reached
<1>3. Open(T, k, u)
    BY OpenIff DEF ThreadAgrees, RestrictionsAgree
<1>4. PICK v \in DOMAIN m : m[v] = u
    BY <1>2, WantedFacts
<1>5. \/ m[v] \in DOMAIN d.restrictions /\ v \in d.restrictions[m[v]]
      \/ \E j \in k + 1 .. k : v \in T[j].inverse[m[v]]
    BY <1>1, <1>2, <1>3, <1>4 DEF ThreadKeeps, CandidatesAreKept
<1>6. QED BY <1>1, <1>4, <1>5

-----------------------------------------------------------------------------
(* The steps of the threads.                                               *)

\* What a thread knows is about the graphs and the searcher, which stay.
LEMMA StillKeeps ==
    ASSUME call' = call, searcher' = searcher, NEW u, ThreadKeeps(thread'[u])
    PROVE  ThreadKeeps(thread[u])'
<1>1. Graph' = Graph /\ Subgraph' = Subgraph
    BY DEF Graph, Subgraph
<1>2. Wanted' = Wanted
    BY <1>1 DEF Wanted
<1>3. \A S, n, x : Reached(S, n, x)' <=> Reached(S, n, x)
    BY <1>1 DEF Reached, all_adjacent
<1>4. OnlyReached(thread[u])'
    BY <1>1, <1>3 DEF ThreadKeeps, OnlyReached
<1>5. CandidatesAreKept(thread[u])'
    BY <1>2, <1>3 DEF ThreadKeeps, CandidatesAreKept
<1>6. CandidatesAreExact(thread[u])'
    <2>1. \A S, n, x : RebuiltRestriction(S, n, x)' = RebuiltRestriction(S, n, x)
        BY <1>1 DEF RebuiltRestriction, filter_restriction, compute_new_restriction, all_adjacent,
                    colored_neighborhood, intersect_neighborhoods
    <2>2. QED BY <1>1, <1>3, <2>1 DEF ThreadKeeps, CandidatesAreExact
<1>7. ChosenTogether(thread[u])'
    BY <1>1 DEF ThreadKeeps, ChosenTogether, IsPart
<1>8. QED BY <1>4, <1>5, <1>6, <1>7 DEF ThreadKeeps

\* The matches of a thread, and those counted, change with what is written only.
LEMMA StillWritten ==
    ASSUME written' = written, start_vertex' = start_vertex
    PROVE  /\ BagToSet(written)' = BagToSet(written)
           /\ \A u : WrittenBy(u)' = WrittenBy(u)
BY DEF WrittenBy

\* Where a thread has its context still and nothing to report by an exception.
Keeping == Searching \cup {"add"}

\* A step of one thread from c to d that writes nothing and does not end the thread.
QuietFor(c, d, t) ==
    /\ c.pc # "done" /\ d.pc # "done"
    /\ d.pc \in Keeping => ThreadKeeps(d)
    /\ \A n : Knows(c, n) => Knows(d, n)
    /\ \A m \in Wanted : SearchesAll /\ t \in DOMAIN m /\ m[t] = start_vertex /\ Pending(c, m)
                            => Pending(d, m)

\* Such a step keeps the invariant.
LEMMA QuietKeeps ==
    ASSUME TypeOK, CompleteInv, NEW t \in DOMAIN thread, NEW d,
           thread' = [thread EXCEPT ![t] = d], QuietFor(thread[t], d, t),
           UNCHANGED <<call, searcher, start_vertex, main, vertex, written, matches_counter>>,
           m_stop => m_stop'
    PROVE  CompleteInv'
<1>1. /\ DOMAIN thread' = DOMAIN thread
      /\ \A u \in DOMAIN thread : thread'[u] = IF u = t THEN d ELSE thread[u]
      /\ call' = call /\ searcher' = searcher /\ start_vertex' = start_vertex
      /\ main' = main /\ vertex' = vertex /\ written' = written
      /\ matches_counter' = matches_counter
      /\ Graph' = Graph /\ Subgraph' = Subgraph
    BY DEF Graph, Subgraph
<1>2. BagToSet(written)' = BagToSet(written) /\ \A u : WrittenBy(u)' = WrittenBy(u)
    BY <1>1, StillWritten
<1>3. call # NoCall
    BY ThreadsInCalls
<1>4. ASSUME NEW u \in DOMAIN thread', thread'[u].pc \in Keeping PROVE ThreadKeeps(thread[u])'
    <2>1. ThreadKeeps(thread'[u])
        BY <1>1, <1>4 DEF CompleteInv, QuietFor, Keeping, Searching
    <2>2. QED BY <1>1, <2>1, StillKeeps
<1>5. NoneIsLost'
    <2>1. SearchesAll' <=> SearchesAll
        BY <1>1 DEF SearchesAll
    <2>2. Wanted' = Wanted
        BY <1>1 DEF Wanted
    <2>3. ASSUME SearchesAll, NEW m \in Wanted \ BagToSet(written)
          PROVE  \E u \in DOMAIN m : /\ m[u] = start_vertex
                                     /\ u \in DOMAIN thread' => Pending(thread'[u], m)
                                     /\ u \notin DOMAIN thread' => u >= vertex
        <3>1. PICK u \in DOMAIN m : /\ m[u] = start_vertex
                                    /\ u \in DOMAIN thread => Pending(thread[u], m)
                                    /\ u \notin DOMAIN thread => u >= vertex
            BY <2>3 DEF CompleteInv, NoneIsLost
        <3>2. u \in DOMAIN thread => Pending(thread'[u], m)
            BY <1>1, <2>3, <3>1 DEF QuietFor
        <3>3. QED BY <1>1, <3>1, <3>2
    <2>4. QED BY <1>1, <1>2, <2>1, <2>2, <2>3 DEF NoneIsLost
<1>6. ReturnsAtEnd'
    BY <1>1 DEF CompleteInv, ReturnsAtEnd
<1>7. CountsAgree'
    <2>1. Counted' = Counted
        <3>1. \A u \in DOMAIN thread : thread'[u].pc = "done" <=> thread[u].pc = "done"
            BY <1>1 DEF QuietFor
        <3>2. QED BY <1>1, <1>2, <3>1 DEF Counted
    <2>2. \A c, n : Knows(c, n)' <=> Knows(c, n)
        BY <1>1 DEF Knows
    <2>3. ASSUME NEW u \in DOMAIN thread' PROVE Knows(thread'[u], Cardinality(WrittenBy(u)))
        BY <1>1, <1>3 DEF CompleteInv, CountsAgree, QuietFor
    <2>4. ASSUME NEW u \in DOMAIN thread' PROVE Knows(thread[u], Cardinality(WrittenBy(u)))'
        BY <1>1, <1>2, <2>3 DEF Knows
    <2>5. QED BY <1>1, <1>2, <1>3, <2>1, <2>4 DEF CompleteInv, CountsAgree
<1>8. WrittenAreMatches'
    BY <1>1, <1>2 DEF CompleteInv, WrittenAreMatches
<1>9. QED BY <1>4, <1>5, <1>6, <1>7, <1>8 DEF CompleteInv, Keeping, Searching

\* While a call searches for all, the flag is down and no thread has thrown.
LEMMA FlagIsDown ==
    ASSUME StopInv, SearchesAll
    PROVE  ~m_stop /\ \A t \in DOMAIN thread : thread[t].pc \notin {"found", "stopped"}
BY DEF StopInv, StopMeansFound, InHand, SearchesAll

\* What the steps below know of the thread that takes them.
LEMMA RunningKeeps ==
    ASSUME TypeOK, SoundInv, CompleteInv, NEW t \in DOMAIN thread, thread[t].pc \in Searching
    PROVE  /\ GraphsAgree /\ IsThread(thread[t]) /\ ThreadAgrees(thread[t])
           /\ ThreadKeeps(thread[t])
BY RunningAgrees DEF CompleteInv, Keeping, Searching

\* The thread's body calls for its vertex, which every match it is to find begins with.
LEMMA StartSearchKeeps ==
    ASSUME TypeOK, SoundInv, StopInv, CompleteInv, NEW t \in DOMAIN thread, StartSearch(t)
    PROVE  CompleteInv'
<1> DEFINE c == thread[t]
           d == Called(c, t, start_vertex)
<1>1. GraphsAgree /\ IsThread(c) /\ ThreadAgrees(c) /\ ThreadKeeps(c) /\ c.pc = "start"
    BY RunningKeeps DEF StartSearch, Searching
<1>2. Len(c.stack) = 0 /\ c.stack = <<>>
    BY <1>1 DEF ThreadAgrees, CallAgrees, IsThread
<1>3. /\ d.path = c.path /\ d.chosen = c.chosen /\ d.restrictions = c.restrictions
      /\ d.stack = c.stack /\ d.count = c.count /\ d.pc \in {"add", "enter"}
      /\ ~m_stop => d.pc = "enter" /\ d.gv = t /\ d.sv = start_vertex
    BY <1>1, <1>2 DEF Called, Returned, IsThread
<1>4. /\ thread' = [thread EXCEPT ![t] = d]
      /\ UNCHANGED <<call, searcher, start_vertex, main, vertex, written, matches_counter>>
      /\ m_stop' = m_stop
    BY DEF StartSearch
<1> HIDE DEF d
<1>5. Keeps(c, d)
    BY <1>2, <1>3 DEF Keeps
<1>6. ThreadKeeps(d)
    BY <1>1, <1>5, KeepsKeeps
<1>7. \A n : Knows(c, n) => Knows(d, n)
    BY <1>1, <1>3 DEF Knows
<1>8. ASSUME NEW m, SearchesAll, t \in DOMAIN m, m[t] = start_vertex PROVE Pending(d, m)
    <2>1. ~m_stop
        BY <1>8, FlagIsDown
    <2>2. QED BY <1>2, <1>3, <1>8, <2>1, StartPending
<1>9. QuietFor(c, d, t)
    BY <1>1, <1>3, <1>6, <1>7, <1>8 DEF QuietFor
<1>10. QED BY <1>4, <1>9, QuietKeeps

\* A candidate that is tried is pending in the call, the others in the loop.
LEMMA TryCandidateKeeps ==
    ASSUME TypeOK, SoundInv, StopInv, CompleteInv, NEW t \in DOMAIN thread, TryCandidate(t)
    PROVE  CompleteInv'
<1> DEFINE c == thread[t]
           k == Len(c.stack)
<1>1. PICK w \in Top(c).todo :
        thread' = [thread EXCEPT ![t] =
                     Called([c EXCEPT !.stack[Len(c.stack)].todo = @ \ {w}], w, Top(c).next)]
    BY DEF TryCandidate
<1> DEFINE e == [c EXCEPT !.stack[k].todo = @ \ {w}]
           d == Called(e, w, Top(c).next)
<1>2. GraphsAgree /\ IsThread(c) /\ ThreadKeeps(c) /\ c.pc = "loop"
    BY RunningKeeps DEF TryCandidate, Searching
<1>3. k \in Nat /\ k > 0 /\ c.stack \in Seq(SearchFrame)
    BY <1>2 DEF IsThread
<1>4. /\ Len(e.stack) = k
      /\ \A i \in 1 .. k : e.stack[i] = IF i = k THEN [c.stack[k] EXCEPT !.todo = @ \ {w}]
                                                ELSE c.stack[i]
    BY <1>2, <1>3 DEF IsThread
<1>5. \A i \in 1 .. k : c.stack[i] \in SearchFrame
    BY <1>3
<1>6. /\ \A i \in 1 .. k : /\ e.stack[i].gv = c.stack[i].gv
                           /\ e.stack[i].sv = c.stack[i].sv
                           /\ e.stack[i].next = c.stack[i].next
                           /\ e.stack[i].inverse = c.stack[i].inverse
                           /\ e.stack[i].todo \subseteq c.stack[i].todo
      /\ \A i \in 1 .. k - 1 : e.stack[i].todo = c.stack[i].todo
      /\ e.stack[k].todo = c.stack[k].todo \ {w}
    BY <1>3, <1>4, <1>5 DEF SearchFrame
<1>7. /\ d.stack = e.stack /\ d.count = c.count /\ d.pc \in {"add", "loop", "enter"}
      /\ d.path = c.path /\ d.chosen = c.chosen /\ d.restrictions = c.restrictions
      /\ ~m_stop => d.pc = "enter" /\ d.gv = w /\ d.sv = c.stack[k].next
    BY <1>2 DEF Called, Returned, IsThread, Top
<1>8. /\ thread' = [thread EXCEPT ![t] = d]
      /\ UNCHANGED <<call, searcher, start_vertex, main, vertex, written, matches_counter>>
      /\ m_stop' = m_stop
    BY <1>1 DEF TryCandidate
<1> HIDE DEF d, e
<1>9. Len(d.stack) = k
    BY <1>4, <1>7
<1>10. Keeps(c, d)
    BY <1>3, <1>6, <1>7, <1>9 DEF Keeps
<1>11. ThreadKeeps(d)
    BY <1>2, <1>10, KeepsKeeps
<1>12. \A n : Knows(c, n) => Knows(d, n)
    BY <1>2, <1>7 DEF Knows
<1>13. ASSUME NEW m, SearchesAll, Pending(c, m) PROVE Pending(d, m)
    <2>1. /\ d.pc = "enter" /\ d.gv = w /\ d.sv = c.stack[k].next
          /\ k \in Nat /\ k > 0 /\ Len(c.stack) = k /\ Len(d.stack) = k
          /\ \A i \in 1 .. k : /\ d.stack[i].gv = c.stack[i].gv
                               /\ d.stack[i].sv = c.stack[i].sv
                               /\ d.stack[i].next = c.stack[i].next
          /\ \A i \in 1 .. k - 1 : d.stack[i].todo = c.stack[i].todo
          /\ d.stack[k].todo = c.stack[k].todo \ {w}
        BY <1>3, <1>6, <1>7, <1>9, <1>13, FlagIsDown
    <2> HIDE DEF c, k
    <2>2. QED BY <1>2, <1>13, <2>1, TryPending
<1>14. QuietFor(c, d, t)
    BY <1>2, <1>7, <1>11, <1>12, <1>13 DEF QuietFor
<1>15. QED BY <1>8, <1>14, QuietKeeps

\* No pair of a match is rejected.
LEMMA RejectKeeps ==
    ASSUME TypeOK, SoundInv, StopInv, CompleteInv, NEW t \in DOMAIN thread, Reject(t)
    PROVE  CompleteInv'
<1> DEFINE c == thread[t]
           d == Returned(c)
<1>1. /\ GraphsAgree /\ IsThread(c) /\ ThreadAgrees(c) /\ ThreadKeeps(c)
      /\ c.pc = "enter" /\ ~Unmatched(c)
    BY RunningKeeps DEF Reject, Searching
<1>2. Len(c.stack) \in Nat /\ (c.stack = <<>> <=> Len(c.stack) = 0)
    BY <1>1 DEF IsThread
<1>3. /\ d.path = c.path /\ d.chosen = c.chosen /\ d.restrictions = c.restrictions
      /\ d.stack = c.stack /\ d.count = c.count
      /\ d.pc = IF Len(c.stack) = 0 THEN "add" ELSE "loop"
    BY <1>1, <1>2 DEF Returned, IsThread
<1>4. /\ thread' = [thread EXCEPT ![t] = d]
      /\ UNCHANGED <<call, searcher, start_vertex, main, vertex, written, matches_counter>>
      /\ m_stop' = m_stop
    BY DEF Reject
<1> HIDE DEF d
<1>5. Keeps(c, d)
    BY <1>2, <1>3 DEF Keeps
<1>6. ThreadKeeps(d)
    BY <1>1, <1>5, KeepsKeeps
<1>7. \A n : Knows(c, n) => Knows(d, n)
    BY <1>1, <1>3 DEF Knows
<1>8. ASSUME NEW m \in Wanted, Pending(c, m) PROVE Pending(d, m)
    <2>1. PICK i \in 1 .. Len(c.stack) : OnBranch(c, m, i)
        BY <1>1, <1>8, NotRejected DEF Pending, OnBranch
    <2>2. QED BY <1>2, <1>3, <2>1, RestPending
<1>9. QuietFor(c, d, t)
    BY <1>1, <1>3, <1>6, <1>7, <1>8 DEF QuietFor
<1>10. QED BY <1>4, <1>9, QuietKeeps

\* The handler of the exception: the call stops at its first match.
LEMMA StoreStopKeeps ==
    ASSUME TypeOK, SoundInv, StopInv, CompleteInv, NEW t \in DOMAIN thread, StoreStop(t)
    PROVE  CompleteInv'
<1> DEFINE c == thread[t]
           d == [c EXCEPT !.pc = "stopped"]
<1>1. IsThread(c) /\ c.pc = "found"
    BY RunningAgrees DEF StoreStop
<1>2. d.pc = "stopped"
    BY <1>1 DEF IsThread
<1>3. /\ thread' = [thread EXCEPT ![t] = d]
      /\ UNCHANGED <<call, searcher, start_vertex, main, vertex, written, matches_counter>>
      /\ m_stop'
    BY DEF StoreStop
<1> HIDE DEF d
<1>4. ~SearchesAll
    BY <1>1, FlagIsDown
<1>5. \A n : Knows(c, n) => Knows(d, n)
    BY <1>1, <1>2 DEF Knows
<1>6. QuietFor(c, d, t)
    BY <1>1, <1>2, <1>4, <1>5 DEF QuietFor, Keeping, Searching
<1>7. QED BY <1>3, <1>6, QuietKeeps

\* expand_search has every match that takes the pair among the candidates of the
\* vertex it goes on with.
LEMMA ExpandSearchKeeps ==
    ASSUME TypeOK, SoundInv, StopInv, CompleteInv, NEW t \in DOMAIN thread, ExpandSearch(t)
    PROVE  CompleteInv'
<1> DEFINE c       == thread[t]
           k       == Len(c.stack)
           chosen  == c.chosen \cup {c.sv}
           rest    == save_and_remove_restriction(c.restrictions, c.sv)
           updated == update_restrictions(rest, chosen, c.gv, c.sv)
           touched == all_adjacent(Subgraph, c.sv) \ chosen
           inverse == inverse_restrictions(c.restrictions, chosen, c.gv, c.sv)
           empty   == \E u \in touched : updated[u] = {}
           frame(next, todo) ==
              [gv |-> c.gv, sv |-> c.sv, next |-> next, todo |-> todo, inverse |-> inverse]
           into(f) == [c EXCEPT !.pc = "loop", !.path = Extended(c.path, c.gv, c.sv),
                                !.chosen = chosen, !.restrictions = updated,
                                !.stack = Append(@, f)]
<1>1. /\ GraphsAgree /\ ThreadAgrees(c) /\ IsThread(c) /\ ThreadKeeps(c)
      /\ c.pc = "enter" /\ Unmatched(c) /\ ~Complete(c)
    BY RunningKeeps DEF ExpandSearch, Searching
<1>2. \E next, todo :
        /\ thread' = [thread EXCEPT ![t] = into(frame(next, todo))]
        /\ todo # {} => next \in DOMAIN updated /\ todo \subseteq updated[next]
        /\ ~empty => next \in choose_next(updated, chosen)
        /\ ~empty /\ next \in DOMAIN updated => todo = updated[next]
    <2> DEFINE todo(next) == IF next \in DOMAIN updated THEN updated[next] ELSE {}
    <2>1. CASE empty
        BY <2>1 DEF ExpandSearch
    <2>2. CASE ~empty
        <3>1. PICK next \in choose_next(updated, chosen) :
                thread' = [thread EXCEPT ![t] = into(frame(next, todo(next)))]
            BY <2>2 DEF ExpandSearch
        <3>2. /\ todo(next) # {} => next \in DOMAIN updated /\ todo(next) \subseteq updated[next]
              /\ next \in DOMAIN updated => todo(next) = updated[next]
            OBVIOUS
        <3> HIDE DEF todo, into, frame, updated, empty
        <3>3. QED BY <3>1, <3>2
    <2>3. QED BY <2>1, <2>2
<1>3. PICK next, todo :
        /\ thread' = [thread EXCEPT ![t] = into(frame(next, todo))]
        /\ todo # {} => next \in DOMAIN updated /\ todo \subseteq updated[next]
        /\ ~empty => next \in choose_next(updated, chosen)
        /\ ~empty /\ next \in DOMAIN updated => todo = updated[next]
    BY <1>2
<1> DEFINE f == frame(next, todo)
           d == into(f)
<1>4. /\ f.gv = c.gv /\ f.sv = c.sv /\ f.inverse = inverse
      /\ f.next = next /\ f.todo = todo
    OBVIOUS
<1>5. /\ d.pc = "loop" /\ d.path = Extended(c.path, c.gv, c.sv) /\ d.chosen = chosen
      /\ d.restrictions = updated /\ d.stack = Append(c.stack, f) /\ d.count = c.count
    BY <1>1 DEF IsThread
<1>6. /\ thread' = [thread EXCEPT ![t] = d]
      /\ UNCHANGED <<call, searcher, start_vertex, main, vertex, written, matches_counter>>
      /\ m_stop' = m_stop
    BY <1>3 DEF ExpandSearch
<1> HIDE DEF f, d
<1>7. ThreadAgrees(d)
    BY <1>1, <1>3, <1>4, <1>5, DescendAgrees
<1>8. /\ k \in Nat /\ Len(d.stack) = k + 1 /\ d.stack[k + 1] = f
      /\ \A i \in 1 .. k : d.stack[i] = c.stack[i]
    BY <1>1, <1>5 DEF IsThread
<1> HIDE DEF k
<1>9. IsDescent(c, d, k)
    <2>1. IsPush(c, d, k)
        BY <1>8 DEF IsPush, k
    <2>2. QED BY <1>4, <1>5, <1>8, <2>1 DEF IsDescent
<1>10. ThreadKeeps(d)
    <2>1. /\ FramesArePath(c) /\ OnlyReached(c) /\ CandidatesAreKept(c) /\ CandidatesAreExact(c)
          /\ ChosenTogether(c)
        BY <1>1 DEF ThreadAgrees, ThreadKeeps
    <2>2. OnlyReached(d)
        BY <1>1, <1>9, <2>1, DescentReached
    <2>3. CandidatesAreKept(d)
        BY <1>1, <1>9, <2>1, DescentKept
    <2>4. CandidatesAreExact(d)
        BY <1>1, <1>9, <2>1, DescentExact
    <2>5. ChosenTogether(d)
        BY <1>1, <1>9, <2>1, DescentTogether DEF IsDescent
    <2>6. QED BY <2>2, <2>3, <2>4, <2>5 DEF ThreadKeeps
<1>11. \A n : Knows(c, n) => Knows(d, n)
    BY <1>1, <1>5 DEF Knows
<1>12. ASSUME NEW m \in Wanted, SearchesAll, Follows(m, c.stack, k), c.gv \in DOMAIN m, m[c.gv] = c.sv
       PROVE  Pending(d, m)
    <2>1. Follows(m, d.stack, k + 1)
        BY <1>9, <1>12, DescentFrames
    <2>2. ASSUME NEW u \in DOMAIN updated PROVE \E v \in DOMAIN m : m[v] = u /\ v \in updated[u]
        <3>1. Follows(m, d.stack, Len(d.stack)) /\ Len(d.stack) \in Nat
            BY <1>8, <2>1
        <3>2. QED BY <1>5, <1>7, <1>10, <2>2, <3>1, DescentFinds
    <2>3. touched \subseteq DOMAIN updated
        <3>1. c.sv \in Vertices(Subgraph)
            BY <1>1 DEF IsThread
        <3>2. DOMAIN d.restrictions = (DOMAIN c.restrictions \ {c.sv})
                                        \cup (all_adjacent(Subgraph, c.sv) \ d.chosen)
            BY <1>9, <3>1, DescentEntries
        <3> HIDE DEF updated
        <3>3. QED BY <1>5, <3>2
    <2>4. ~empty
        BY <2>2, <2>3
    <2>5. DOMAIN updated \ chosen # {}
        <3>1. IsConnected(Subgraph)
            BY <1>12 DEF SearchesAll
        <3>2. DOMAIN d.restrictions \ d.chosen # {}
            BY <1>1, <1>5, <1>7, <3>1, OneIsOpen
        <3>3. QED BY <1>5, <3>2
    <2> HIDE DEF updated, chosen, empty
    <2>6. next \in DOMAIN updated
        BY <1>3, <2>4, <2>5, NextIsOpen
    <2>7. todo = updated[next]
        BY <1>3, <2>4, <2>6
    <2>8. PICK v \in DOMAIN m : m[v] = next /\ v \in todo
        BY <2>2, <2>6, <2>7
    <2>9. d.stack[k + 1].next = next /\ d.stack[k + 1].todo = todo /\ k + 1 \in 1 .. Len(d.stack)
        BY <1>4, <1>8
    <2>10. QED BY <1>5, <2>1, <2>8, <2>9 DEF Pending
<1>13. ASSUME NEW m \in Wanted, SearchesAll, Pending(c, m) PROVE Pending(d, m)
    <2>1. CASE Follows(m, c.stack, k) /\ c.gv \in DOMAIN m /\ m[c.gv] = c.sv
        BY <1>12, <1>13, <2>1
    <2>2. CASE \E i \in 1 .. k : OnBranch(c, m, i)
        <3>1. k = Len(c.stack) /\ d.pc = "loop"
            BY <1>5 DEF k
        <3>2. QED BY <1>8, <2>2, <3>1, PushPending
    <2>3. QED BY <1>1, <1>13, <2>1, <2>2 DEF Pending, OnBranch, k
<1>14. QuietFor(c, d, t)
    BY <1>1, <1>5, <1>10, <1>11, <1>13 DEF QuietFor
<1>15. QED BY <1>6, <1>14, QuietKeeps

\* expand_search comes back with no candidate left.
LEMMA BacktrackKeeps ==
    ASSUME TypeOK, SoundInv, StopInv, CompleteInv, NEW t \in DOMAIN thread, Backtrack(t)
    PROVE  CompleteInv'
<1> DEFINE c == thread[t]
           f == Top(c)
           n == Len(c.stack) - 1
           R == restore_restrictions(c.restrictions, f.inverse)
           C == c.chosen \ {f.sv}
           P == Restrict(c.path, DOMAIN c.path \ {f.gv})
           S == SubSeq(c.stack, 1, n)
           d == Returned([c EXCEPT !.restrictions = R, !.chosen = C, !.path = P, !.stack = S])
<1>1. /\ GraphsAgree /\ IsThread(c) /\ ThreadAgrees(c) /\ ThreadKeeps(c)
      /\ c.pc = "loop" /\ f.todo = {}
    BY RunningKeeps DEF Backtrack, Searching
<1>2. c.stack \in Seq(SearchFrame) /\ n \in Nat /\ Len(c.stack) = n + 1
    BY <1>1 DEF IsThread
<1>3. Len(S) = n /\ \A i \in 1 .. n : S[i] = c.stack[i]
    BY <1>2
<1>4. S = <<>> <=> n = 0
    <2>1. S \in Seq(SearchFrame) /\ Len(S) = n
        BY <1>2, <1>3
    <2> HIDE DEF S, n
    <2>2. S = <<>> <=> Len(S) = 0
        BY <2>1
    <2>3. QED BY <2>1, <2>2
<1>5. f = c.stack[n + 1]
    BY <1>2 DEF Top
<1>6. /\ thread' = [thread EXCEPT ![t] = d]
      /\ UNCHANGED <<call, searcher, start_vertex, main, vertex, written, matches_counter>>
      /\ m_stop' = m_stop
    BY DEF Backtrack
<1> HIDE DEF R, C, P, S
<1>7. /\ d.restrictions = R /\ d.chosen = C /\ d.stack = S /\ d.count = c.count
      /\ d.pc = IF n = 0 THEN "add" ELSE "loop"
    BY <1>1, <1>4 DEF Returned, IsThread
<1> HIDE DEF d, n, f
<1>8. IsPush(d, c, n)
    BY <1>2, <1>3, <1>7 DEF IsPush
<1>9. ThreadKeeps(d)
    <2>1. OnlyReached(c) /\ CandidatesAreKept(c) /\ CandidatesAreExact(c) /\ ChosenTogether(c)
        BY <1>1 DEF ThreadKeeps
    <2>2. d.restrictions = restore_restrictions(c.restrictions, c.stack[n + 1].inverse)
        BY <1>5, <1>7 DEF R
    <2>3. OnlyReached(d)
        BY <1>1, <1>8, <2>1, <2>2, PopReached
    <2>4. CandidatesAreKept(d)
        BY <1>1, <1>8, <2>1, <2>2, PopKept
    <2>5. CandidatesAreExact(d)
        BY <1>1, <1>8, <2>1, <2>2, PopExact
    <2>6. ChosenTogether(d)
        <3>1. d.chosen \subseteq c.chosen
            BY <1>7 DEF C
        <3>2. QED BY <2>1, <3>1, PopTogether
    <2>7. QED BY <2>3, <2>4, <2>5, <2>6 DEF ThreadKeeps
<1>10. \A x : Knows(c, x) => Knows(d, x)
    BY <1>1, <1>7 DEF Knows
<1>11. ASSUME NEW m, Pending(c, m) PROVE Pending(d, m)
    <2>1. /\ n \in Nat /\ Len(c.stack) = n + 1 /\ Len(d.stack) = n
          /\ \A i \in 1 .. n : d.stack[i] = c.stack[i]
          /\ c.stack[n + 1].todo = {}
        BY <1>1, <1>2, <1>3, <1>5, <1>7
    <2>2. QED BY <1>1, <1>7, <1>11, <2>1, PopPending
<1>12. QuietFor(c, d, t)
    BY <1>1, <1>7, <1>9, <1>10, <1>11 DEF QuietFor
<1>13. QED BY <1>6, <1>12, QuietKeeps

\* A match that is written is one more of its thread's, and of no other's.
LEMMA WriteMatchKeeps ==
    ASSUME TypeOK, SoundInv, SoundInv', StopInv, OnceInv, CompleteInv,
           NEW t \in DOMAIN thread, WriteMatch(t)
    PROVE  CompleteInv'
<1> DEFINE c == thread[t]
           k == Len(c.stack)
           m == Extended(c.path, c.gv, c.sv)
           d == IF call.stop THEN [c EXCEPT !.pc = "found"]
                ELSE Returned([c EXCEPT !.count = @ + 1])
<1>1. /\ GraphsAgree /\ IsThread(c) /\ ThreadAgrees(c) /\ ThreadKeeps(c)
      /\ c.pc = "enter" /\ Unmatched(c) /\ Complete(c) /\ call # NoCall
    BY RunningKeeps, ThreadsInCalls DEF WriteMatch, Searching
<1>2. k \in Nat /\ (c.stack = <<>> <=> k = 0)
    BY <1>1 DEF IsThread
<1>3. /\ d.path = c.path /\ d.chosen = c.chosen /\ d.restrictions = c.restrictions
      /\ d.stack = c.stack
      /\ call.stop => d.pc = "found"
      /\ ~call.stop => d.count = c.count + 1 /\ d.pc = IF k = 0 THEN "add" ELSE "loop"
    BY <1>1, <1>2 DEF Returned, IsThread
<1>4. /\ thread' = [thread EXCEPT ![t] = d]
      /\ written' = written (+) SetToBag({m})
      /\ UNCHANGED <<call, searcher, start_vertex, main, vertex, m_stop, matches_counter>>
    BY DEF WriteMatch
<1>5. BagToSet(written)' = BagToSet(written) \cup {m} /\ written' # EmptyBag
    BY <1>4, AddedToBag, AddToBag DEF TypeOK
<1>6. /\ OneToOne(m) /\ t \in DOMAIN m /\ m[t] = start_vertex
      /\ m \notin BagToSet(written)
    BY WritesNew
<1>7. IsEmbedding(m, Subgraph, Graph, searcher.induced)
    BY <1>1, CompleteEmbeds
<1>8. m = [v \in DOMAIN m |-> m[v]] /\ m \in [DOMAIN m -> Vertices(Subgraph)]
    BY <1>1 DEF Extended, IsThread
<1>9. \A x \in Wanted : Follows(x, c.stack, k) /\ c.gv \in DOMAIN x /\ x[c.gv] = c.sv => x = m
    BY <1>1, CompletedMatch
<1> HIDE DEF d, m
<1>10. /\ DOMAIN thread' = DOMAIN thread
       /\ \A u \in DOMAIN thread : thread'[u] = IF u = t THEN d ELSE thread[u]
    BY <1>4
<1>11. /\ WrittenBy(t)' = WrittenBy(t) \cup {m} /\ m \notin WrittenBy(t)
       /\ \A u : u # t => WrittenBy(u)' = WrittenBy(u) /\ m \notin WrittenBy(u)'
    BY <1>4, <1>5, <1>6 DEF WrittenBy, OneToOne
<1>12. ASSUME NEW u \in DOMAIN thread', thread'[u].pc \in Keeping PROVE ThreadKeeps(thread[u])'
    <2>1. Keeps(c, d)
        BY <1>2, <1>3 DEF Keeps
    <2>2. ThreadKeeps(d)
        BY <1>1, <2>1, KeepsKeeps
    <2>3. ThreadKeeps(thread'[u])
        BY <1>10, <1>12, <2>2 DEF CompleteInv, Keeping, Searching
    <2>4. QED BY <1>4, <2>3, StillKeeps
<1>13. NoneIsLost'
    <2> SUFFICES ASSUME SearchesAll', NEW x \in Wanted' \ BagToSet(written)'
                 PROVE  \E u \in DOMAIN x : /\ x[u] = start_vertex
                                            /\ u \in DOMAIN thread' => Pending(thread'[u], x)
                                            /\ u \notin DOMAIN thread' => u >= vertex
        BY <1>4 DEF NoneIsLost, Pending
    <2>1. SearchesAll /\ ~call.stop
        BY <1>4, <1>5 DEF SearchesAll, Subgraph
    <2>2. x \in Wanted \ BagToSet(written) /\ x # m
        BY <1>4, <1>5 DEF Wanted, Graph, Subgraph
    <2>3. PICK u \in DOMAIN x : /\ x[u] = start_vertex
                                /\ u \in DOMAIN thread => Pending(thread[u], x)
                                /\ u \notin DOMAIN thread => u >= vertex
        BY <2>1, <2>2 DEF CompleteInv, NoneIsLost
    <2>4. ASSUME u = t PROVE Pending(d, x)
        <3>1. Pending(c, x)
            BY <2>3, <2>4
        <3>2. PICK i \in 1 .. k : OnBranch(c, x, i)
            BY <1>1, <1>9, <2>2, <3>1 DEF Pending, OnBranch
        <3>3. QED BY <1>2, <1>3, <2>1, <3>2, RestPending
    <2>5. QED BY <1>10, <2>3, <2>4
<1>14. ReturnsAtEnd'
    BY <1>4 DEF CompleteInv, ReturnsAtEnd, Graph
<1>15. CountsAgree'
    <2>1. Counted' = Counted
        <3>1. thread[t].pc # "done" /\ thread'[t].pc # "done"
            BY <1>1, <1>3, <1>10
        <3>2. \A u \in DOMAIN thread : thread'[u].pc = "done" => u # t /\ thread[u].pc = "done"
            BY <1>10, <3>1
        <3>3. \A u \in DOMAIN thread : thread[u].pc = "done" => u # t /\ thread'[u].pc = "done"
            BY <1>10, <3>1
        <3>4. \A u : WrittenBy(u) \subseteq BagToSet(written) /\ WrittenBy(u)' \subseteq BagToSet(written)'
            BY DEF WrittenBy
        <3>5. QED BY <1>5, <1>10, <1>11, <3>2, <3>3, <3>4 DEF Counted
    <2>2. IsFiniteSet(BagToSet(written))
        BY <1>1 DEF CompleteInv, CountsAgree
    <2>3. IsFiniteSet(WrittenBy(t))
        <3>1. WrittenBy(t) \in SUBSET BagToSet(written)
            BY DEF WrittenBy
        <3>2. QED BY <2>2, <3>1, FS_Subset
    <2>4. /\ Cardinality(WrittenBy(t)') = Cardinality(WrittenBy(t)) + 1
          /\ IsFiniteSet(BagToSet(written)')
        <3>1. Cardinality(WrittenBy(t) \cup {m}) = Cardinality(WrittenBy(t)) + 1
            BY <1>11, <2>3, FS_AddElement
        <3>2. IsFiniteSet(BagToSet(written) \cup {m})
            BY <2>2, FS_AddElement
        <3>3. QED BY <1>5, <1>11, <3>1, <3>2
    <2>5. ASSUME NEW u \in DOMAIN thread' PROVE Knows(thread'[u], Cardinality(WrittenBy(u)'))
        <3>1. Knows(thread[u], Cardinality(WrittenBy(u)))
            BY <1>1, <1>10 DEF CompleteInv, CountsAgree
        <3>2. CASE u # t
            BY <1>10, <1>11, <3>1, <3>2
        <3>3. CASE u = t
            BY <1>1, <1>3, <1>10, <2>4, <3>1, <3>3 DEF Knows
        <3>4. QED BY <3>2, <3>3
    <2>6. ASSUME NEW u \in DOMAIN thread' PROVE Knows(thread[u], Cardinality(WrittenBy(u)))'
        BY <1>4, <2>5 DEF Knows
    <2>7. matches_counter' = Cardinality(Counted')
        BY <1>1, <1>4, <2>1 DEF CompleteInv, CountsAgree
    <2>8. QED BY <2>4, <2>6, <2>7 DEF CountsAgree
<1>16. WrittenAreMatches'
    <2>1. IsConnected(Subgraph)
        BY <1>1, CompleteConnects DEF ThreadKeeps
    <2>2. m \in MatchesOf(Subgraph, Graph, searcher.induced)
        <3>1. DOMAIN m \in SUBSET Vertices(Graph)
            BY <1>7 DEF IsEmbedding
        <3>2. QED BY <1>7, <1>8, <2>1, <3>1 DEF MatchesOf, Embeddings
    <2>3. QED BY <1>1, <1>4, <1>5, <2>2 DEF CompleteInv, WrittenAreMatches, Graph, Subgraph
<1>17. QED BY <1>12, <1>13, <1>14, <1>15, <1>16 DEF CompleteInv, Keeping, Searching

\* A thread that ends adds what it wrote to the counter.
LEMMA AddCountKeeps ==
    ASSUME TypeOK, SoundInv, StopInv, CompleteInv, NEW t \in DOMAIN thread, AddCount(t)
    PROVE  CompleteInv'
<1> DEFINE c == thread[t]
           d == [NewThread(t) EXCEPT !.pc = "done"]
           n == Cardinality(WrittenBy(t))
<1>1. c.pc \in {"stopped", "add"} /\ call # NoCall
    BY ThreadsInCalls DEF AddCount
<1>2. d.pc = "done" /\ d.count = 0
    BY DEF NewThread
<1>3. /\ thread' = [thread EXCEPT ![t] = d]
      /\ matches_counter' = matches_counter + (IF c.pc = "stopped" THEN 1 ELSE c.count)
      /\ call' = call /\ searcher' = searcher /\ start_vertex' = start_vertex
      /\ main' = main /\ vertex' = vertex /\ written' = written /\ m_stop' = m_stop
      /\ Graph' = Graph /\ Subgraph' = Subgraph
    BY DEF AddCount, Graph, Subgraph
<1> HIDE DEF d
<1>4. /\ DOMAIN thread' = DOMAIN thread
      /\ \A u \in DOMAIN thread : thread'[u] = IF u = t THEN d ELSE thread[u]
    BY <1>3
<1>5. BagToSet(written)' = BagToSet(written) /\ \A u : WrittenBy(u)' = WrittenBy(u)
    BY <1>3, StillWritten
<1>6. ASSUME NEW u \in DOMAIN thread', thread'[u].pc \in Keeping PROVE ThreadKeeps(thread[u])'
    <2>1. ThreadKeeps(thread'[u])
        BY <1>2, <1>4, <1>6 DEF CompleteInv, Keeping, Searching
    <2>2. QED BY <1>3, <2>1, StillKeeps
<1>7. NoneIsLost'
    <2> SUFFICES ASSUME SearchesAll, NEW x \in Wanted \ BagToSet(written)
                 PROVE  \E u \in DOMAIN x : /\ x[u] = start_vertex
                                            /\ u \in DOMAIN thread' => Pending(thread'[u], x)
                                            /\ u \notin DOMAIN thread' => u >= vertex
        BY <1>3, <1>5 DEF NoneIsLost, Pending, SearchesAll, Wanted
    <2>1. PICK u \in DOMAIN x : /\ x[u] = start_vertex
                                /\ u \in DOMAIN thread => Pending(thread[u], x)
                                /\ u \notin DOMAIN thread => u >= vertex
        BY DEF CompleteInv, NoneIsLost
    <2>2. u # t
        BY <1>1, <2>1 DEF Pending
    <2>3. QED BY <1>4, <2>1, <2>2
<1>8. ReturnsAtEnd'
    BY <1>3 DEF CompleteInv, ReturnsAtEnd
<1>9. Knows(c, n)
    BY <1>1 DEF CompleteInv, CountsAgree
<1>10. matches_counter' = Cardinality(Counted) + n
    <2>1. matches_counter = Cardinality(Counted)
        BY <1>1 DEF CompleteInv, CountsAgree
    <2> HIDE DEF n
    <2>2. QED BY <1>1, <1>3, <1>9, <2>1 DEF Knows
<1>11. CountsAgree'
    <2>1. IsFiniteSet(BagToSet(written))
        BY <1>1 DEF CompleteInv, CountsAgree
    <2>2. IsFiniteSet(Counted) /\ IsFiniteSet(WrittenBy(t))
        <3>1. Counted \in SUBSET BagToSet(written) /\ WrittenBy(t) \in SUBSET BagToSet(written)
            BY DEF Counted, WrittenBy
        <3>2. QED BY <2>1, <3>1, FS_Subset
    <2>3. Counted' = Counted \cup WrittenBy(t)
        <3>1. \A u \in DOMAIN thread : thread'[u].pc = "done" <=> thread[u].pc = "done" \/ u = t
            BY <1>1, <1>2, <1>4
        <3>2. WrittenBy(t) \subseteq BagToSet(written)
            BY DEF WrittenBy
        <3>3. QED BY <1>4, <1>5, <3>1, <3>2 DEF Counted
    <2>4. Counted \cap WrittenBy(t) = {}
        <3> SUFFICES ASSUME NEW m \in Counted, m \in WrittenBy(t) PROVE FALSE
            OBVIOUS
        <3>1. PICK u \in DOMAIN thread : thread[u].pc = "done" /\ m \in WrittenBy(u)
            BY DEF Counted
        <3>2. u = t
            <4>1. OneToOne(m)
                BY <1>1, WrittenOneToOne DEF Counted
            <4>2. QED BY <3>1, <4>1 DEF WrittenBy, OneToOne
        <3>3. QED BY <1>1, <3>1, <3>2
    <2>5. Cardinality(Counted \cup WrittenBy(t)) = Cardinality(Counted) + n
        <3>1. Cardinality(Counted \cap WrittenBy(t)) = 0
            BY <2>4, FS_EmptySet
        <3>2. Cardinality(Counted) \in Nat /\ n \in Nat
            BY <2>2, FS_CardinalityType
        <3>3. Cardinality(Counted \cup WrittenBy(t))
                = Cardinality(Counted) + n - Cardinality(Counted \cap WrittenBy(t))
            BY <2>2, FS_Union
        <3> HIDE DEF n
        <3>4. QED BY <3>1, <3>2, <3>3
    <2>6. matches_counter' = Cardinality(Counted')
        BY <1>10, <2>3, <2>5
    <2>7. ASSUME NEW u \in DOMAIN thread' PROVE Knows(thread'[u], Cardinality(WrittenBy(u)))
        <3>1. Knows(thread[u], Cardinality(WrittenBy(u)))
            BY <1>1, <1>4 DEF CompleteInv, CountsAgree
        <3>2. QED BY <1>2, <1>4, <3>1 DEF Knows
    <2>8. ASSUME NEW u \in DOMAIN thread' PROVE Knows(thread[u], Cardinality(WrittenBy(u)))'
        BY <1>3, <1>5, <2>7 DEF Knows
    <2>9. QED BY <1>5, <2>1, <2>6, <2>8 DEF CountsAgree
<1>12. WrittenAreMatches'
    BY <1>3, <1>5 DEF CompleteInv, WrittenAreMatches
<1>13. QED BY <1>6, <1>7, <1>8, <1>11, <1>12 DEF CompleteInv, Keeping, Searching

\* Every step of a thread keeps the invariant.
LEMMA ThreadStepKeeps ==
    ASSUME TypeOK, SoundInv, SoundInv', StopInv, OnceInv, CompleteInv,
           NEW t \in DOMAIN thread, ThreadStep(t)
    PROVE  CompleteInv'
BY StartSearchKeeps, TryCandidateKeeps, RejectKeeps, WriteMatchKeeps, ExpandSearchKeeps,
   BacktrackKeeps, StoreStopKeeps, AddCountKeeps DEF ThreadStep

-----------------------------------------------------------------------------
(* The steps of the calling thread.                                        *)

\* A call starts with every match to come, at a vertex of the graph.
LEMMA FindAllComplete ==
    ASSUME TypeOK, NEW c \in Calls, FindAll(c) PROVE CompleteInv'
<1>1. DOMAIN thread' = {} /\ BagToSet(written)' = {}
    BY DEF FindAll, TypeOK, BagToSet, EmptyBag, SetToBag
<1>2. /\ call' = c /\ searcher' = searcher /\ matches_counter' = 0
      /\ vertex' = 0 /\ main' = "check" /\ thread' = thread
    BY DEF FindAll
<1>3. start_vertex' \in Vertices(c.subgraph)
    BY ChooseStartType DEF FindAll
<1>4. NoneIsLost'
    <2>1. ASSUME NEW m \in Embeddings(c.subgraph, c.graph, searcher.induced)
          PROVE  \E u \in DOMAIN m : m[u] = start_vertex' /\ u >= 0
        <3>1. IsEmbedding(m, c.subgraph, c.graph, searcher.induced)
            BY DEF Embeddings
        <3>2. PICK u \in DOMAIN m : m[u] = start_vertex'
            BY <1>3, <3>1 DEF IsEmbedding
        <3>3. u \in 0 .. vertex_count(c.graph) - 1 /\ vertex_count(c.graph) \in Nat
            BY <3>1, VertexRange DEF IsEmbedding
        <3>4. QED BY <3>2, <3>3
    <2>2. Wanted' = Embeddings(c.subgraph, c.graph, searcher.induced)
        BY <1>2 DEF Wanted, Graph, Subgraph
    <2>3. QED BY <1>1, <1>2, <2>1, <2>2 DEF NoneIsLost
<1>5. CountsAgree'
    <2>1. Counted' = {}
        BY <1>1 DEF Counted
    <2>2. QED BY <1>1, <1>2, <2>1, FS_EmptySet DEF CountsAgree
<1>6. ReturnsAtEnd' /\ WrittenAreMatches'
    BY <1>1, <1>2 DEF ReturnsAtEnd, WrittenAreMatches
<1>7. QED BY <1>1, <1>4, <1>5, <1>6 DEF CompleteInv

\* What leaves the threads, the matches and the counter alone.
LEMMA UnmovedKeeps ==
    ASSUME CompleteInv, call' = call, searcher' = searcher, start_vertex' = start_vertex,
           vertex' = vertex, thread' = thread, written' = written,
           matches_counter' = matches_counter, ReturnsAtEnd'
    PROVE  CompleteInv'
<1>1. Graph' = Graph /\ Subgraph' = Subgraph
    BY DEF Graph, Subgraph
<1>2. BagToSet(written)' = BagToSet(written) /\ \A u : WrittenBy(u)' = WrittenBy(u)
    BY StillWritten
<1>3. ASSUME NEW u \in DOMAIN thread', thread'[u].pc \in Keeping PROVE ThreadKeeps(thread[u])'
    <2>1. ThreadKeeps(thread'[u])
        BY <1>3 DEF CompleteInv, Keeping, Searching
    <2>2. QED BY <2>1, StillKeeps
<1>4. NoneIsLost'
    BY <1>1, <1>2 DEF CompleteInv, NoneIsLost, SearchesAll, Wanted, Pending
<1>5. CountsAgree'
    BY <1>1, <1>2 DEF CompleteInv, CountsAgree, Counted, Knows
<1>6. WrittenAreMatches'
    BY <1>1, <1>2 DEF CompleteInv, WrittenAreMatches
<1>7. QED BY <1>3, <1>4, <1>5, <1>6 DEF CompleteInv, Keeping, Searching

\* A new thread has nothing to know yet.
LEMMA NewKeeps ==
    ASSUME NEW v PROVE ThreadKeeps(NewThread(v))
<1>1. /\ Len(NewThread(v).stack) = 0 /\ DOMAIN NewThread(v).restrictions = {}
      /\ NewThread(v).chosen = {}
    BY DEF NewThread
<1>2. OnlyReached(NewThread(v)) /\ ChosenTogether(NewThread(v))
    BY <1>1 DEF OnlyReached, ChosenTogether
<1>3. CandidatesAreKept(NewThread(v)) /\ CandidatesAreExact(NewThread(v))
    BY <1>1 DEF CandidatesAreKept, CandidatesAreExact, Reached
<1>4. QED BY <1>2, <1>3 DEF ThreadKeeps

\* A vertex that a match gives to the start vertex is of its colour, so it is not
\* skipped, and its thread has all of its matches to come.
LEMMA SpawnThreadKeeps ==
    ASSUME TypeOK, SoundInv, OnceInv, CompleteInv, SpawnThread PROVE CompleteInv'
<1> DEFINE right == get_vertex_color(Graph, vertex) = get_vertex_color(Subgraph, start_vertex)
<1>1. /\ call' = call /\ searcher' = searcher /\ start_vertex' = start_vertex
      /\ written' = written /\ matches_counter' = matches_counter
      /\ Graph' = Graph /\ Subgraph' = Subgraph
      /\ vertex' = vertex + 1 /\ main' # "return"
    BY DEF SpawnThread, Graph, Subgraph
<1>2. /\ call # NoCall /\ vertex \in Nat
      /\ Vertices(Graph) \subseteq Nat /\ DOMAIN thread \subseteq Nat
    <2>1. call # NoCall /\ call \in Calls
        BY CallType DEF TypeOK, SpawnThread
    <2>2. QED BY <2>1, VertexRange, CallType DEF Graph
<1>3. \A u \in DOMAIN thread : u # vertex
    BY <1>2 DEF OnceInv
<1>4. /\ right => DOMAIN thread' = DOMAIN thread \cup {vertex} /\ thread'[vertex] = NewThread(vertex)
      /\ ~right => DOMAIN thread' = DOMAIN thread
      /\ \A u \in DOMAIN thread : u \in DOMAIN thread' /\ thread'[u] = thread[u]
    BY <1>3 DEF SpawnThread
<1>5. \A u \in DOMAIN thread' \ DOMAIN thread : u = vertex /\ thread'[u] = NewThread(u)
    BY <1>4
<1>6. BagToSet(written)' = BagToSet(written) /\ \A u : WrittenBy(u)' = WrittenBy(u)
    BY <1>1, StillWritten
<1> HIDE DEF right
<1>7. ASSUME NEW u \in DOMAIN thread', thread'[u].pc \in Keeping PROVE ThreadKeeps(thread[u])'
    <2>1. ThreadKeeps(thread'[u])
        BY <1>4, <1>5, <1>7, NewKeeps DEF CompleteInv, Keeping, Searching
    <2>2. QED BY <1>1, <2>1, StillKeeps
<1>8. NoneIsLost'
    <2> SUFFICES ASSUME SearchesAll, NEW x \in Wanted \ BagToSet(written)
                 PROVE  \E u \in DOMAIN x : /\ x[u] = start_vertex
                                            /\ u \in DOMAIN thread' => Pending(thread'[u], x)
                                            /\ u \notin DOMAIN thread' => u >= vertex + 1
        BY <1>1, <1>6 DEF NoneIsLost, Pending, SearchesAll, Wanted
    <2>1. PICK u \in DOMAIN x : /\ x[u] = start_vertex
                                /\ u \in DOMAIN thread => Pending(thread[u], x)
                                /\ u \notin DOMAIN thread => u >= vertex
        BY DEF CompleteInv, NoneIsLost
    <2>2. CASE u \in DOMAIN thread
        BY <1>4, <2>1, <2>2
    <2>3. CASE u = vertex
        <3>1. right
            BY <2>1, <2>3, WantedFacts DEF IsEmbedding, right
        <3>2. u \in DOMAIN thread' /\ thread'[u] = NewThread(u)
            BY <1>4, <2>3, <3>1
        <3>3. Pending(NewThread(u), x)
            BY DEF Pending, NewThread
        <3>4. QED BY <2>1, <3>2, <3>3
    <2>4. CASE u \notin DOMAIN thread /\ u # vertex
        <3>1. u \in Nat
            BY <1>2, WantedFacts
        <3>2. u >= vertex + 1
            BY <1>2, <2>1, <2>4, <3>1
        <3>3. u \notin DOMAIN thread'
            BY <1>5, <2>4
        <3>4. QED BY <2>1, <3>2, <3>3
    <2>5. QED BY <2>2, <2>3, <2>4
<1>9. CountsAgree'
    <2>1. Counted' = Counted
        <3>1. \A u \in DOMAIN thread' \ DOMAIN thread : thread'[u].pc # "done"
            BY <1>5 DEF NewThread
        <3>2. QED BY <1>4, <1>6, <3>1 DEF Counted
    <2>2. WrittenBy(vertex) = {}
        <3> SUFFICES ASSUME NEW m \in BagToSet(written), vertex \in DOMAIN m, m[vertex] = start_vertex
                     PROVE  FALSE
            BY DEF WrittenBy
        <3>1. PICK u \in DOMAIN thread : u \in DOMAIN m /\ m[u] = start_vertex
            BY <1>2 DEF OnceInv, WrittenArePassed
        <3>2. OneToOne(m)
            BY <1>2, WrittenOneToOne
        <3>3. QED BY <1>3, <3>1, <3>2 DEF OneToOne
    <2>3. ASSUME NEW u \in DOMAIN thread' PROVE Knows(thread'[u], Cardinality(WrittenBy(u)))
        <3>1. CASE u \in DOMAIN thread
            BY <1>2, <1>4, <3>1 DEF CompleteInv, CountsAgree
        <3>2. CASE u \notin DOMAIN thread
            <4>1. u = vertex /\ thread'[u] = NewThread(u)
                BY <1>5, <3>2
            <4>2. Cardinality(WrittenBy(u)) = 0
                BY <2>2, <4>1, FS_EmptySet
            <4>3. NewThread(u).pc = "start" /\ NewThread(u).count = 0
                BY DEF NewThread
            <4>4. QED BY <4>1, <4>2, <4>3 DEF Knows
        <3>3. QED BY <3>1, <3>2
    <2>4. ASSUME NEW u \in DOMAIN thread' PROVE Knows(thread[u], Cardinality(WrittenBy(u)))'
        BY <1>1, <1>6, <2>3 DEF Knows
    <2>5. QED BY <1>1, <1>2, <1>6, <2>1, <2>4 DEF CompleteInv, CountsAgree
<1>10. ReturnsAtEnd' /\ WrittenAreMatches'
    BY <1>1, <1>6 DEF CompleteInv, ReturnsAtEnd, WrittenAreMatches
<1>11. QED BY <1>7, <1>8, <1>9, <1>10 DEF CompleteInv, Keeping, Searching

\* Every step of the calling thread keeps the invariant.
LEMMA MainStepKeeps ==
    ASSUME TypeOK, SoundInv, OnceInv, CompleteInv, MainStep PROVE CompleteInv'
<1>1. ASSUME CheckStop PROVE CompleteInv'
    <2>1. ReturnsAtEnd'
        BY <1>1 DEF CheckStop, ReturnsAtEnd, Graph
    <2>2. QED BY <1>1, <2>1, UnmovedKeeps DEF CheckStop
<1>2. ASSUME JoinBatch PROVE CompleteInv'
    <2>1. ReturnsAtEnd'
        BY <1>2 DEF JoinBatch, ReturnsAtEnd
    <2>2. QED BY <1>2, <2>1, UnmovedKeeps DEF JoinBatch
<1>3. ASSUME Return PROVE CompleteInv'
    <2>1. call' = NoCall /\ DOMAIN thread' = {} /\ main' = "idle"
        BY <1>3 DEF Return
    <2>2. QED BY <2>1 DEF CompleteInv, NoneIsLost, SearchesAll, ReturnsAtEnd, CountsAgree,
                          WrittenAreMatches
<1>4. QED BY <1>1, <1>2, <1>3, SpawnThreadKeeps DEF MainStep

\* CompleteInv is an invariant.
LEMMA CompleteInvariant == Spec => []CompleteInv
<1>1. Init => CompleteInv
    <2> SUFFICES ASSUME Init PROVE CompleteInv
        OBVIOUS
    <2>1. DOMAIN thread = {} /\ call = NoCall /\ main = "idle"
        BY DEF Init
    <2>2. QED BY <2>1 DEF CompleteInv, NoneIsLost, SearchesAll, ReturnsAtEnd, CountsAgree,
                          WrittenAreMatches
<1>2. /\ TypeOK /\ SoundInv /\ SoundInv' /\ StopInv /\ OnceInv /\ CompleteInv
      /\ [Next]_vars
      => CompleteInv'
    <2> SUFFICES ASSUME TypeOK, SoundInv, SoundInv', StopInv, OnceInv, CompleteInv, [Next]_vars
                 PROVE  CompleteInv'
        OBVIOUS
    <2>1. ASSUME NEW c \in Calls, FindAll(c) PROVE CompleteInv'
        BY <2>1, FindAllComplete
    <2>2. ASSUME MainStep PROVE CompleteInv'
        BY <2>2, MainStepKeeps
    <2>3. ASSUME NEW t \in DOMAIN thread, ThreadStep(t) PROVE CompleteInv'
        BY <2>3, ThreadStepKeeps
    <2>4. ASSUME UNCHANGED vars PROVE CompleteInv'
        <3>1. ReturnsAtEnd'
            BY <2>4 DEF vars, CompleteInv, ReturnsAtEnd, Graph
        <3>2. QED BY <2>4, <3>1, UnmovedKeeps DEF vars
    <2>5. QED BY <2>1, <2>2, <2>3, <2>4 DEF Next
<1>3. QED BY <1>1, <1>2, TypeCorrect, SoundInvariant, StopInvariant, OnceInvariant, PTL DEF Spec

-----------------------------------------------------------------------------
(* The restrictions of a thread are those of its partial match.            *)

\* The frames of a stack give the path, entry by entry.
LEMMA PathOfFrames ==
    ASSUME NEW c, IsThread(c), FramesArePath(c)
    PROVE  c.path = [v \in {c.stack[i].gv : i \in 1 .. Len(c.stack)} |->
                       (CHOOSE f \in {c.stack[i] : i \in 1 .. Len(c.stack)} : f.gv = v).sv]
<1> DEFINE S == c.stack
           k == Len(S)
           F == {S[i] : i \in 1 .. k}
<1>1. /\ DOMAIN c.path = {S[i].gv : i \in 1 .. k}
      /\ \A i \in 1 .. k : c.path[S[i].gv] = S[i].sv
      /\ \A i, j \in 1 .. k : S[i].gv = S[j].gv => i = j
      /\ c.path = [v \in DOMAIN c.path |-> c.path[v]]
    BY DEF FramesArePath, IsThread
<1> HIDE DEF k
<1>2. ASSUME NEW v \in DOMAIN c.path PROVE c.path[v] = (CHOOSE f \in F : f.gv = v).sv
    <2>1. PICK i \in 1 .. k : S[i].gv = v
        BY <1>1
    <2>2. \E f \in F : f.gv = v
        BY <2>1
    <2>3. (CHOOSE f \in F : f.gv = v) \in F /\ (CHOOSE f \in F : f.gv = v).gv = v
        BY <2>2
    <2>4. PICK j \in 1 .. k : (CHOOSE f \in F : f.gv = v) = S[j]
        BY <2>3
    <2>5. S[j].gv = v
        BY <2>3, <2>4
    <2>6. QED BY <1>1, <2>4, <2>5
<1>3. QED BY <1>1, <1>2, SMTT(40) DEF k

\* What is rebuilt are vertices of the graph.
LEMMA RebuiltAreVertices ==
    ASSUME NEW S, NEW n, NEW u
    PROVE  RebuiltRestriction(S, n, u) \subseteq Vertices(Graph)
<1>1. \A sv, gv : compute_new_restriction(u, sv, gv) \subseteq Vertices(Graph)
    BY DEF compute_new_restriction, intersect_neighborhoods, colored_neighborhood, get_neighbours
<1>2. QED BY <1>1 DEF RebuiltRestriction

\* One thread has the restrictions of its partial match.
LEMMA ExactlyRebuilt ==
    ASSUME GraphsAgree, NEW c, IsThread(c), ThreadAgrees(c), ThreadKeeps(c)
    PROVE  LET k == Len(c.stack) IN
           /\ c.chosen = {c.stack[i].sv : i \in 1 .. k}
           /\ DOMAIN c.restrictions =
                {u \in Vertices(Subgraph) \ c.chosen :
                   all_adjacent(Subgraph, u) \cap c.chosen # {}}
           /\ \A u \in DOMAIN c.restrictions :
                c.restrictions[u] = RebuiltRestriction(c.stack, k, u)
<1> DEFINE S == c.stack
           k == Len(S)
           R == c.restrictions
<1>1. /\ k \in Nat /\ c.chosen = {S[i].sv : i \in 1 .. k}
      /\ DOMAIN R \subseteq Vertices(Subgraph) /\ DOMAIN R \cap c.chosen = {}
      /\ \A u \in DOMAIN R : R[u] \subseteq Vertices(Graph)
      /\ \A u \in Vertices(Subgraph) \ c.chosen : Reached(S, k, u) => u \in DOMAIN R
      /\ \A u \in DOMAIN R : Reached(S, k, u)
    BY DEF IsThread, ThreadAgrees, FramesArePath, RestrictionsAgree, ThreadKeeps, OnlyReached
<1>2. \A u : Reached(S, k, u) <=> all_adjacent(Subgraph, u) \cap c.chosen # {}
    <2> SUFFICES ASSUME NEW u
                 PROVE  Reached(S, k, u) <=> all_adjacent(Subgraph, u) \cap c.chosen # {}
        OBVIOUS
    <2>1. \A i \in 1 .. k : u \in all_adjacent(Subgraph, S[i].sv) <=> S[i].sv \in all_adjacent(Subgraph, u)
        BY AdjacentIff
    <2> HIDE DEF S, k
    <2>2. QED BY <1>1, <2>1 DEF Reached
<1>3. DOMAIN R = {u \in Vertices(Subgraph) \ c.chosen : all_adjacent(Subgraph, u) \cap c.chosen # {}}
    BY <1>1, <1>2
<1>4. ASSUME NEW u \in DOMAIN R PROVE R[u] = RebuiltRestriction(S, k, u)
    <2>1. Open(S, k, u) /\ Reached(S, k, u) /\ u \in Vertices(Subgraph)
        BY <1>1 DEF Open
    <2>2. k \in 0 .. k /\ k + 1 .. k = {}
        BY <1>1
    <2>3. ASSUME NEW w \in Vertices(Graph)
          PROVE  w \in RebuiltRestriction(S, k, u) <=> w \in R[u]
        BY <2>1, <2>2 DEF ThreadKeeps, CandidatesAreExact
    <2>4. R[u] \subseteq Vertices(Graph) /\ RebuiltRestriction(S, k, u) \subseteq Vertices(Graph)
        BY <1>1, RebuiltAreVertices
    <2> HIDE DEF R, S, k
    <2>5. QED BY <2>3, <2>4
<1>5. QED BY <1>1, <1>3, <1>4

\* However deep a thread went and however often it came back, on any graph and pattern,
\* its restrictions are those of its current partial match computed afresh: undoing
\* neither loses a candidate, nor keeps one, nor leaves an entry behind.
THEOREM UndoingIsExact == Spec => []RestrictionsAreOfThePath
<1>1. TypeOK /\ SoundInv /\ CompleteInv => RestrictionsAreOfThePath
    <2> SUFFICES ASSUME TypeOK, SoundInv, CompleteInv, NEW t \in DOMAIN thread,
                        thread[t].pc \in {"enter", "loop", "add"}
                 PROVE  LET c == thread[t] k == Len(c.stack) IN
                        /\ c.chosen = {c.stack[i].sv : i \in 1 .. k}
                        /\ c.path = [v \in {c.stack[i].gv : i \in 1 .. k} |->
                                       (CHOOSE f \in {c.stack[i] : i \in 1 .. k} : f.gv = v).sv]
                        /\ DOMAIN c.restrictions =
                             {u \in Vertices(Subgraph) \ c.chosen :
                                all_adjacent(Subgraph, u) \cap c.chosen # {}}
                        /\ \A u \in DOMAIN c.restrictions :
                             c.restrictions[u] = RebuiltRestriction(c.stack, k, u)
        BY DEF RestrictionsAreOfThePath
    <2>1. /\ GraphsAgree /\ IsThread(thread[t]) /\ ThreadAgrees(thread[t])
          /\ FramesArePath(thread[t]) /\ ThreadKeeps(thread[t])
        BY RunningAgrees DEF CompleteInv, ThreadAgrees
    <2>2. QED BY <2>1, PathOfFrames, ExactlyRebuilt
<1>2. QED BY <1>1, TypeCorrect, SoundInvariant, CompleteInvariant, PTL

-----------------------------------------------------------------------------
(* Every match written is in the counter, or in the count of one thread.   *)

\* What thread t wrote and has not added to the counter yet.
StillHeld(t) == IF thread[t].pc = "done" THEN {} ELSE WrittenBy(t)

\* A match was written by one thread, which added it or holds it.
LEMMA HeldIsTheRest ==
    ASSUME SoundInv, OnceInv, call # NoCall
    PROVE  /\ BagToSet(written) \ Counted = UNION {StillHeld(t) : t \in DOMAIN thread}
           /\ \A t, u \in DOMAIN thread : t # u => StillHeld(t) \cap StillHeld(u) = {}
<1>1. ASSUME NEW m \in BagToSet(written), NEW t, m \in WrittenBy(t), NEW u, m \in WrittenBy(u)
      PROVE  t = u
    <2>1. OneToOne(m)
        BY WrittenOneToOne
    <2>2. QED BY <1>1, <2>1 DEF WrittenBy, OneToOne
<1>2. \A t : StillHeld(t) \subseteq WrittenBy(t) /\ WrittenBy(t) \subseteq BagToSet(written)
    BY DEF StillHeld, WrittenBy
<1>3. \A t, u \in DOMAIN thread : t # u => StillHeld(t) \cap StillHeld(u) = {}
    BY <1>1, <1>2
<1>4. ASSUME NEW m \in BagToSet(written) \ Counted
      PROVE  \E t \in DOMAIN thread : m \in StillHeld(t)
    <2>1. PICK t \in DOMAIN thread : t \in DOMAIN m /\ m[t] = start_vertex
        BY DEF OnceInv, WrittenArePassed
    <2>2. m \in WrittenBy(t) /\ thread[t].pc # "done"
        BY <2>1 DEF WrittenBy, Counted
    <2>3. QED BY <2>2 DEF StillHeld
<1>5. ASSUME NEW t \in DOMAIN thread, NEW m \in StillHeld(t)
      PROVE  m \in BagToSet(written) \ Counted
    <2>1. m \in WrittenBy(t) /\ thread[t].pc # "done" /\ m \in BagToSet(written)
        BY <1>2 DEF StillHeld
    <2>2. m \notin Counted
        BY <1>1, <2>1 DEF Counted
    <2>3. QED BY <2>1, <2>2
<1>6. BagToSet(written) \ Counted = UNION {StillHeld(t) : t \in DOMAIN thread}
    BY <1>4, <1>5
<1>7. QED BY <1>3, <1>6

\* The number a finished thread adds is the number of matches it wrote, whatever the
\* graphs, the interleaving and the exceptions: at every moment, the counter and what
\* the threads hold account for every match.
THEOREM NoneUncounted == Spec => []MatchesAreAccounted
<1>1. TypeOK /\ SoundInv /\ OnceInv /\ CompleteInv => MatchesAreAccounted
    <2> SUFFICES ASSUME TypeOK, SoundInv, OnceInv, CompleteInv, call # NoCall
                 PROVE  SumFunction(written) = matches_counter + SumFunction(Held)
        BY DEF MatchesAreAccounted
    <2> DEFINE W == BagToSet(written)
               D == DOMAIN thread
               part == [t \in D |-> StillHeld(t)]
    <2>1. /\ IsFiniteSet(W) /\ matches_counter = Cardinality(Counted)
          /\ \A t \in D : Knows(thread[t], Cardinality(WrittenBy(t)))
        BY DEF CompleteInv, CountsAgree
    <2>2. IsFiniteSet(D)
        <3>1. D \in SUBSET Vertices(Graph) /\ call \in Calls
            BY CallType DEF TypeOK
        <3>2. IsFiniteSet(Vertices(Graph))
            BY <3>1, SearchAssumption DEF IsColoredGraph, Graph
        <3>3. QED BY <3>1, <3>2, FS_Subset
    <2>3. SumFunction(written) = Cardinality(W)
        <3>1. W = DOMAIN written
            BY DEF BagToSet
        <3>2. \A m \in W : written[m] = 1
            BY DEF OnceInv, WrittenOnce
        <3> HIDE DEF W
        <3>3. SumFunctionOnSet(written, W) = Cardinality(W)
            BY <2>1, <3>2, SumOfOnes
        <3>4. QED BY <3>1, <3>3 DEF SumFunction
    <2>4. /\ W \ Counted = UNION {part[t] : t \in D}
          /\ \A t, u \in D : t # u => part[t] \cap part[u] = {}
        BY HeldIsTheRest
    <2>5. \A t \in D : part[t] = StillHeld(t) /\ part[t] \in SUBSET W
        BY DEF StillHeld, WrittenBy
    <2> HIDE DEF part, W
    <2>6. \A t \in D : IsFiniteSet(part[t])
        BY <2>1, <2>5, FS_Subset
    <2>7. \A t \in D : Held[t] = Cardinality(part[t])
        <3> SUFFICES ASSUME NEW t \in D PROVE Held[t] = Cardinality(part[t])
            OBVIOUS
        <3>1. Knows(thread[t], Cardinality(WrittenBy(t))) /\ IsThread(thread[t])
            BY <2>1, CallType DEF TypeOK
        <3>2. CASE thread[t].pc = "done"
            <4>1. part[t] = {} /\ Held[t] = 0
                BY <2>5, <3>1, <3>2 DEF StillHeld, Held, Knows
            <4>2. QED BY <4>1, FS_EmptySet
        <3>3. CASE thread[t].pc # "done"
            <4>1. part[t] = WrittenBy(t)
                BY <2>5, <3>3 DEF StillHeld
            <4>2. thread[t].pc \in {"found", "stopped", "start", "enter", "loop", "add"}
                BY <3>1, <3>3 DEF IsThread
            <4>3. Held[t] = Cardinality(WrittenBy(t))
                BY <3>1, <4>2 DEF Held, Knows
            <4>4. QED BY <4>1, <4>3
        <3>4. QED BY <3>2, <3>3
    <2>8. Cardinality(W \ Counted) = SumFunctionOnSet(Held, D)
        <3> HIDE DEF D
        <3>1. Cardinality(UNION {part[t] : t \in D}) = SumFunctionOnSet(Held, D)
            BY <2>2, <2>4, <2>6, <2>7, SumOfParts
        <3>2. QED BY <2>4, <3>1
    <2>9. Cardinality(W) = Cardinality(Counted) + Cardinality(W \ Counted)
        <3>1. Counted \in SUBSET W
            BY DEF Counted, W
        <3>2. IsFiniteSet(Counted) /\ W \cap Counted = Counted
            BY <2>1, <3>1, FS_Subset
        <3>3. Cardinality(W \ Counted) = Cardinality(W) - Cardinality(Counted)
            BY <2>1, <3>2, FS_Difference
        <3>4. Cardinality(W) \in Nat /\ Cardinality(Counted) \in Nat
            BY <2>1, <3>2, FS_CardinalityType
        <3>5. QED BY <3>3, <3>4
    <2>10. SumFunction(Held) = SumFunctionOnSet(Held, D)
        BY DEF SumFunction, Held
    <2>11. QED BY <2>1, <2>3, <2>8, <2>9, <2>10
<1>2. QED BY <1>1, TypeCorrect, SoundInvariant, OnceInvariant, CompleteInvariant, PTL

-----------------------------------------------------------------------------
(* The steps as MatchSearch sees them.                                     *)

\* What the call promises to find.
LEMMA ExpectedIs ==
    ASSUME TypeOK, call # NoCall
    PROVE  Promise!Expected(call) = MatchesOf(Subgraph, Graph, searcher.induced)
<1>1. call \in Calls /\ searcher.induced \in BOOLEAN
    BY SearchAssumption DEF TypeOK
<1>2. QED BY <1>1 DEF Promise!Expected, ExpectedMatches, Subgraph, Graph

\* A bag without elements is the empty one.
LEMMA EmptyIsEmpty ==
    ASSUME NEW B, IsABag(B), BagToSet(B) = {} PROVE B = EmptyBag
BY DEF IsABag, BagToSet, EmptyBag, SetToBag

\* find_all returns after its last thread has ended.
LEMMA EndedAtReturn ==
    ASSUME TypeOK, BatchInv, Return
    PROVE  call # NoCall /\ \A t \in DOMAIN thread : thread[t].pc = "done"
BY DEF TypeOK, BatchInv, Return, AllDone

\* It has then found every match, or one if that was enough.
LEMMA AllAreWritten ==
    ASSUME TypeOK, StopInv, BatchInv, CompleteInv, Return,
           ~call.stop \/ BagToSet(written) = {}
    PROVE  MatchesOf(Subgraph, Graph, searcher.induced) \subseteq BagToSet(written)
<1>1. call # NoCall /\ \A t \in DOMAIN thread : thread[t].pc = "done"
    BY EndedAtReturn
<1>2. ~(call.stop /\ written # EmptyBag)
    BY EmptyIsEmpty DEF TypeOK
<1>3. vertex = vertex_count(Graph)
    BY <1>1, <1>2 DEF CompleteInv, ReturnsAtEnd, Return, StopInv, StopMeansFound
<1>4. CASE ~IsConnected(Subgraph)
    BY <1>4 DEF MatchesOf
<1>5. CASE IsConnected(Subgraph)
    <2>1. ASSUME NEW m \in Wanted, m \notin BagToSet(written) PROVE FALSE
        <3>1. PICK t \in DOMAIN m : /\ t \in DOMAIN thread => Pending(thread[t], m)
                                    /\ t \notin DOMAIN thread => t >= vertex
            BY <1>1, <1>2, <1>5, <2>1 DEF CompleteInv, NoneIsLost, SearchesAll
        <3>2. t \notin DOMAIN thread
            BY <1>1, <3>1 DEF Pending
        <3>3. t \in 0 .. vertex_count(Graph) - 1 /\ vertex_count(Graph) \in Nat
            <4>1. call \in Calls /\ t \in Vertices(Graph)
                BY <1>1, WantedFacts DEF TypeOK
            <4>2. QED BY <4>1, VertexRange DEF Graph
        <3>4. QED BY <1>3, <3>1, <3>2, <3>3
    <2>2. QED BY <1>5, <2>1 DEF MatchesOf, Wanted
<1>6. QED BY <1>4, <1>5

\* The number it returns is that of the matches written.
LEMMA AllAreCounted ==
    ASSUME TypeOK, BatchInv, OnceInv, CompleteInv, Return
    PROVE  matches_counter = Cardinality(BagToSet(written))
<1>1. call # NoCall /\ \A t \in DOMAIN thread : thread[t].pc = "done"
    BY EndedAtReturn
<1>2. Counted = BagToSet(written)
    BY <1>1 DEF Counted, WrittenBy, OnceInv, WrittenArePassed
<1>3. QED BY <1>1, <1>2 DEF CompleteInv, CountsAgree

\* The return of find_all is the return that was promised.
LEMMA ReturnIsReturn ==
    ASSUME TypeOK, StopInv, BatchInv, OnceInv, CompleteInv, Return PROVE Promise!Return
<1>1. call # NoCall
    BY EndedAtReturn
<1>2. BagToSet(written) \subseteq MatchesOf(Subgraph, Graph, searcher.induced)
    BY <1>1 DEF CompleteInv, WrittenAreMatches
<1>3. /\ call.stop /\ BagToSet(written) = {} => Promise!Expected(call) = {}
      /\ ~call.stop => BagToSet(written) = Promise!Expected(call)
    BY <1>1, <1>2, AllAreWritten, ExpectedIs
<1>4. result' = Promise!Cardinality(BagToSet(written))
    <2>1. result' = Cardinality(BagToSet(written))
        BY AllAreCounted DEF Return
    <2>2. Promise!Cardinality(BagToSet(written)) = Cardinality(BagToSet(written))
        BY DEF Promise!Cardinality, Cardinality
    <2>3. QED BY <2>1, <2>2
<1>5. call' = NoCall /\ searcher' = searcher /\ written' = written
    BY DEF Return
<1>6. QED BY <1>1, <1>3, <1>4, <1>5 DEF Promise!Return

\* A match that is written is a match reported.
LEMMA WriteMatchIsReport ==
    ASSUME TypeOK, SoundInv, SoundInv', OnceInv, CompleteInv',
           NEW t \in DOMAIN thread, WriteMatch(t)
    PROVE  \E m \in Promise!Expected(call) : Promise!Report(m)
<1> DEFINE m == Extended(thread[t].path, thread[t].gv, thread[t].sv)
<1>1. /\ call' = call /\ searcher' = searcher /\ result' = result
      /\ written' = written (+) SetToBag({m})
      /\ Graph' = Graph /\ Subgraph' = Subgraph
    BY DEF WriteMatch, Graph, Subgraph
<1>2. BagToSet(written)' = BagToSet(written) \cup {m}
    BY <1>1, AddedToBag
<1>3. m \notin BagToSet(written)
    BY WritesNew
<1> HIDE DEF m
<1>4. call # NoCall
    BY ThreadsInCalls
<1>5. m \in MatchesOf(Subgraph, Graph, searcher.induced)
    BY <1>1, <1>2, <1>4 DEF CompleteInv, WrittenAreMatches
<1>6. m \in Promise!Expected(call) \ BagToSet(written)
    BY <1>3, <1>4, <1>5, ExpectedIs
<1>7. Promise!Report(m)
    BY <1>1, <1>2, <1>4, <1>6 DEF Promise!Report
<1>8. QED BY <1>6, <1>7

\* A call starts as promised, whatever the one before it left behind.
LEMMA FindAllIsStart ==
    ASSUME TypeOK, NEW c \in Calls, FindAll(c) PROVE Promise!Start(c)
<1>1. call = NoCall /\ call' = c /\ result' = 0 /\ searcher' = searcher
    BY DEF TypeOK, FindAll
<1>2. BagToSet(written)' = {}
    BY DEF FindAll, BagToSet, EmptyBag, SetToBag
<1>3. QED BY <1>1, <1>2 DEF Promise!Start

\* find_all keeps its promise, on any graph and pattern, with any prior policy, batch
\* size and interleaving of its threads: a call reports matches of its pattern, each
\* once; it returns when it has reported them all, or one with stop_after_first; and
\* the number it returns is the number it reported.
THEOREM KeepsPromise == Spec => ImplementsMatchSearch
<1>1. Init => Promise!Init
    <2> SUFFICES ASSUME Init PROVE Promise!Init
        OBVIOUS
    <2>1. call = NoCall /\ result = 0 /\ searcher.induced \in BOOLEAN
        BY SearchAssumption DEF Init
    <2>2. BagToSet(written) = {}
        BY DEF Init, BagToSet, EmptyBag, SetToBag
    <2>3. QED BY <2>1, <2>2 DEF Promise!Init
<1>2. /\ TypeOK /\ SoundInv /\ SoundInv' /\ StopInv /\ BatchInv /\ OnceInv
      /\ CompleteInv /\ CompleteInv' /\ [Next]_vars
      => [Promise!Next]_(Promise!msVars)
    <2> SUFFICES ASSUME TypeOK, SoundInv, SoundInv', StopInv, BatchInv, OnceInv,
                        CompleteInv, CompleteInv', [Next]_vars
                 PROVE  Promise!Next \/ UNCHANGED Promise!msVars
        OBVIOUS
    <2>1. ASSUME UNCHANGED <<call, searcher, written, result>>
          PROVE  UNCHANGED Promise!msVars
        BY <2>1 DEF Promise!msVars
    <2>2. ASSUME NEW c \in Calls, FindAll(c) PROVE Promise!Next
        BY <2>2, FindAllIsStart DEF Promise!Next
    <2>3. ASSUME Return PROVE Promise!Next
        BY <2>3, ReturnIsReturn DEF Promise!Next
    <2>4. ASSUME NEW t \in DOMAIN thread, WriteMatch(t) PROVE Promise!Next
        BY <2>4, WriteMatchIsReport, ThreadsInCalls DEF Promise!Next
    <2>5. ASSUME MainStep, ~Return PROVE UNCHANGED <<call, searcher, written, result>>
        BY <2>5 DEF MainStep, CheckStop, SpawnThread, JoinBatch
    <2>6. ASSUME NEW t \in DOMAIN thread, ThreadStep(t), ~WriteMatch(t)
          PROVE  UNCHANGED <<call, searcher, written, result>>
        BY <2>6 DEF ThreadStep, StartSearch, TryCandidate, Reject, ExpandSearch, Backtrack,
                    StoreStop, AddCount
    <2>7. ASSUME UNCHANGED vars PROVE UNCHANGED <<call, searcher, written, result>>
        BY <2>7 DEF vars
    <2>8. QED BY <2>1, <2>2, <2>3, <2>4, <2>5, <2>6, <2>7 DEF Next
<1>3. QED BY <1>1, <1>2, TypeCorrect, SoundInvariant, StopInvariant, BatchInvariant,
             OnceInvariant, CompleteInvariant, PTL
          DEF Spec, ImplementsMatchSearch, Promise!Spec
=============================================================================
