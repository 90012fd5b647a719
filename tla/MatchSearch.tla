----------------------------- MODULE MatchSearch -----------------------------
(***************************************************************************)
(* What SubgraphSearcher::find_all promises its callers, without threads,  *)
(* restrictions or backtracking: a call reports matches of its pattern one *)
(* at a time and never one of them twice, and returns how many it          *)
(* reported.  Without stop_after_first a call returns only when every      *)
(* match was reported; with it, a call that has any match reports at least *)
(* one.                                                                    *)
(***************************************************************************)
EXTENDS FiniteSets, Naturals

CONSTANTS Calls,    \* records [graph, subgraph, stop]
          Matches,  \* the matches of every call, by whether they are to be induced
          NoCall    \* no call is in progress

VARIABLES call, induced, found, result

msVars == <<call, induced, found, result>>

Expected(c) == Matches[c][induced]

Init == /\ call = NoCall
        /\ induced \in BOOLEAN
        /\ found = {}
        /\ result = 0

Start(c) == /\ call = NoCall
            /\ call' = c
            /\ found' = {}
            /\ result' = 0
            /\ UNCHANGED induced

Report(m) == /\ call # NoCall
             /\ m \in Expected(call) \ found
             /\ found' = found \cup {m}
             /\ UNCHANGED <<call, induced, result>>

Return == /\ call # NoCall
          /\ IF call.stop THEN found = {} => Expected(call) = {}
                          ELSE found = Expected(call)
          /\ result' = Cardinality(found)
          /\ call' = NoCall
          /\ UNCHANGED <<induced, found>>

Next == \/ \E c \in Calls : Start(c)
        \/ call # NoCall /\ \E m \in Expected(call) : Report(m)
        \/ Return

Spec == Init /\ [][Next]_msVars
=============================================================================
