------------------------------ MODULE GroupCount ------------------------------
(***************************************************************************)
(* What GroupEnumerationPreprocessor::calculate promises, without threads, *)
(* marks or local maps: a calculation ends with the counts of its job's    *)
(* groups, the same on every run, or with an exception and no counts.      *)
(***************************************************************************)
CONSTANTS Jobs,      \* what is enumerated
          Counts,    \* the counts of every job
          NoJob,     \* nothing is being calculated
          NoCounts   \* no counts were returned

VARIABLES job, counts

gcVars == <<job, counts>>

Init == job = NoJob /\ counts = NoCounts

Start(j) == job = NoJob /\ job' = j /\ counts' = NoCounts

Finish == /\ job # NoJob
          /\ counts' = Counts[job]
          /\ job' = NoJob

Fail == job # NoJob /\ job' = NoJob /\ counts' = NoCounts

Next == (\E j \in Jobs : Start(j)) \/ Finish \/ Fail

Spec == Init /\ [][Next]_gcVars
=============================================================================
