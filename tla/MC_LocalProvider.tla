--------------------------- MODULE MC_LocalProvider ---------------------------
(***************************************************************************)
(* Two submission keys, one output besides exit.json, two crashes.         *)
(***************************************************************************)
EXTENDS LocalProvider, TLC

CONSTANTS k1, k2, exit, metrics

MCKeys == {k1, k2}
MCNames == {exit, metrics}
MCFaults == FaultKinds
KeySymmetry == Permutations(MCKeys)

=============================================================================
