-------------------------------- MODULE Flows --------------------------------
(***************************************************************************)
(* The program as a pipeline: runs over enumerations, runs over patterns   *)
(* and loads of GraphML libraries follow one another in any order over one *)
(* file system, and what one leaves, whole or not, is what the next one    *)
(* finds.  Commands come from the front ends (Arguments).                  *)
(***************************************************************************)
EXTENDS Arguments, ResultFiles

filesOfLoads == <<map_files, loading, libraries>>

vars == <<enumerationVars, patternVars, filesOfLoads>>

AllIdle == run = IdleRun /\ job = NoJob /\ loading = NotLoading

Init == EnumerationInit /\ PatternInit /\ LibraryInit

Next ==
    \/ job = NoJob /\ loading = NotLoading /\ EnumerationNext /\ UNCHANGED <<patternVars, filesOfLoads>>
    \/ loading = NotLoading /\ PatternNext /\ UNCHANGED filesOfLoads
    \/ run = IdleRun /\ job = NoJob /\ LibraryNext /\ UNCHANGED <<files, results, run, patternVars>>

Spec == Init /\ [][Next]_vars

\* A process runs until it ends: the machine goes on with the only program there is.
FairSpec == Spec /\ ([]<>AllIdle \/ []<><<TRUE>>_vars)

\* The state of one family of runs while it runs, and of the others while it does not.
TypeOK ==
    /\ EnumerationTypeOK
    /\ PatternTypeOK
    /\ LibraryTypeOK
    /\ Cardinality({r \in {<<"run", run.pc>>, <<"job", job.pc>>, <<"load", loading.pc>>} : r[2] # "idle"}) <= 1

\* Every run of either family, and every load, comes to its end.
EveryRunEnds == ~AllIdle ~> AllIdle
=============================================================================
