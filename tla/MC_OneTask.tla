------------------------------ MODULE MC_OneTask ------------------------------
(***************************************************************************)
(* One task with one checked output, which is also its evidence.           *)
(***************************************************************************)
EXTENDS ResearchController

CONSTANTS t1, k1, exit, metrics

MCTasks == {t1}
MCKeys == {k1}
MCKeyOf == [t \in MCTasks |-> k1]
MCDeps == [t \in MCTasks |-> {}]
MCRank == [t \in MCTasks |-> 1]
MCNames == {exit, metrics}
MCRequired == {exit, metrics}
MCMetrics == {metrics}

MCFaults == FaultKinds \ {"leftovers"}
NoFaults == {}
DeathOnly == {"runner_death"}

=============================================================================
