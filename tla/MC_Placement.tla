----------------------------- MODULE MC_Placement -----------------------------
(***************************************************************************)
(* Five tasks: one for the CPU; one for a GPU of 11 GB, one for a GPU of     *)
(* 11.264 GB; one that asks for CUDA and no GPU, and so fits nowhere; one    *)
(* that lists an unknown provider before the local one.  GPU 0 has           *)
(* 11.26367 GB, offered as 11.264; GPU 1 has 11 GB exactly; GPU 2 has 24.   *)
(***************************************************************************)
EXTENDS Placement

CONSTANTS plain, exact, large, odd, elsewhere

MCTasks == {plain, exact, large, odd, elsewhere}
MCGpus == {0, 1, 2}
MCMemoryMb == [g \in MCGpus |-> CASE g = 0 -> 11534 [] g = 1 -> 11264 [] g = 2 -> 24576]
MCGpuCount == [t \in MCTasks |-> IF t \in {exact, large} THEN 1 ELSE 0]
MCMinMemory ==
  [t \in MCTasks |-> CASE t = exact -> 11000 [] t = large -> 11264 [] OTHER -> 0]
MCCapabilities == [t \in MCTasks |-> IF t \in {large, odd} THEN {"cuda"} ELSE {"cpu"}]
MCAllowedProviders ==
  [t \in MCTasks |-> IF t = elsewhere THEN <<"hpc", "local">> ELSE <<"local", "hpc">>]
=============================================================================
