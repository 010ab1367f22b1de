----------------------------- MODULE MC_LogCursor -----------------------------
(***************************************************************************)
(* Two lines in each file; every line of run.out has a step, its last also *)
(* the loss; run.error has a step in its first line.                       *)
(***************************************************************************)
EXTENDS LogCursor

CONSTANTS step_, loss

MCKeys == {step_, loss}
MCCarries ==
  [f \in Files |-> [i \in Lines |->
     IF f = "out" THEN IF i = MaxLines THEN {step_, loss} ELSE {step_}
     ELSE IF i = 1 THEN {step_} ELSE {}]]
=============================================================================
