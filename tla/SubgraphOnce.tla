------------------------------ MODULE SubgraphOnce ------------------------------
(***************************************************************************)
(* The inductive invariant behind WrittenOnce: a match that was written is *)
(* on a branch of the search that its thread has left for good.            *)
(***************************************************************************)
EXTENDS SubgraphSoundness

\* Match m takes the pairs of the first n frames of S.
Follows(m, S, n) == \A i \in 1 .. n : S[i].gv \in DOMAIN m /\ m[S[i].gv] = S[i].sv

\* Frame i of a thread is done with the branch of graph vertex v: it is not to be
\* tried any more, and is not being tried.
Left(c, i, v) ==
    /\ v \notin c.stack[i].todo
    /\ i < Len(c.stack) => v # c.stack[i + 1].gv
    /\ i = Len(c.stack) /\ c.pc = "enter" => v # c.gv

\* A thread will not come to match m again: it has ended, or m leaves its stack at a
\* branch that was left.
Passed(c, m) ==
    \/ c.pc \notin {"start", "enter", "loop"}
    \/ \E i \in 1 .. Len(c.stack) :
         /\ Follows(m, c.stack, i)
         /\ \A v \in DOMAIN m : m[v] = c.stack[i].next => Left(c, i, v)

\* The vertex a frame went down with is not among those it has still to try.
MovesOn(c) ==
    /\ \A i \in 1 .. Len(c.stack) - 1 : c.stack[i + 1].gv \notin c.stack[i].todo
    /\ c.pc = "enter" /\ Len(c.stack) > 0 => c.gv \notin c.stack[Len(c.stack)].todo

\* Thread t first gives its own vertex to the start vertex.
StartsAt(c, t) ==
    /\ c.pc = "enter" /\ Len(c.stack) = 0 => c.gv = t /\ c.sv = start_vertex
    /\ Len(c.stack) > 0 => c.stack[1].gv = t /\ c.stack[1].sv = start_vertex

\* The thread that started at the vertex a match gives to the start vertex is past it.
WrittenArePassed ==
    call # NoCall =>
        \A m \in BagToSet(written) : \E t \in DOMAIN thread :
            t \in DOMAIN m /\ m[t] = start_vertex /\ Passed(thread[t], m)

OnceInv ==
    /\ \A t \in DOMAIN thread :
         t < vertex /\ MovesOn(thread[t]) /\ StartsAt(thread[t], t)
    /\ WrittenArePassed
    /\ WrittenOnce
=============================================================================
