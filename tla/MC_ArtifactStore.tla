--------------------------- MODULE MC_ArtifactStore ---------------------------
(* Three files, two of them with one logical name (two jobs of a project), *)
(* and two contents, so that files share blobs.                            *)
EXTENDS ArtifactStore

CONSTANTS f1, f2, f3, a, b, none, torn, rotten, p1, p2

\* Nothing tells the two contents apart, so one file may as well start with a.
MCInit == StoreInit /\ source[f1] = a

MCFairSpec == MCInit /\ [][StoreNext]_storeVars /\ StoreFairness

NameOfDef == [f \in Files |-> IF f = f3 THEN "exit.json" ELSE "metrics.json"]
=============================================================================
