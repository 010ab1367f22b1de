------------------------------ MODULE MC_Parallel ------------------------------
(***************************************************************************)
(* Two independent tasks, each with a key of its own, so that two jobs are *)
(* under way at a time; exit.json is the only file, and where it says      *)
(* failure is left to the other instances.                                 *)
(***************************************************************************)
EXTENDS ResearchController

CONSTANTS t1, t2, k1, k2, exit

MCTasks == {t1, t2}
MCKeys == {k1, k2}
MCKeyOf == [t \in MCTasks |-> IF t = t1 THEN k1 ELSE k2]
MCDeps == [t \in MCTasks |-> {}]
MCRank == [t \in MCTasks |-> IF t = t1 THEN 1 ELSE 2]
MCNames == {exit}

RunOnce == {"run_once"}

=============================================================================
