----------------------------- MODULE MC_SharedKey -----------------------------
(***************************************************************************)
(* t1 and t2 were created with one submission key between them; t3 depends *)
(* on t1, is the last in line, and no provider can run it.                 *)
(***************************************************************************)
EXTENDS ResearchController

CONSTANTS t1, t2, t3, k1, k3, exit

MCTasks == {t1, t2, t3}
MCKeys == {k1, k3}
MCKeyOf == [t \in MCTasks |-> IF t = t3 THEN k3 ELSE k1]
MCDeps == [t \in MCTasks |-> IF t = t3 THEN {t1} ELSE {}]
MCRank == [t \in MCTasks |-> IF t = t1 THEN 1 ELSE IF t = t2 THEN 2 ELSE 3]
MCNames == {exit}
MCInfeasible == {t3}
MCFaults == {"runner_death", "run_once"}

=============================================================================
