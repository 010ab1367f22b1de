------------------------------ MODULE Lifecycle ------------------------------
(***************************************************************************)
(* The status enumerations of tasks and compute jobs, and the two tables   *)
(* of legal moves that TransitionService enforces.  "ABSENT" stands for a  *)
(* row that has not been inserted yet.                                     *)
(***************************************************************************)

\* Mutant of TASK_TRANSITIONS: a failed task is final.
MutTASK_TRANSITIONS ==
  [ PENDING   |-> {"READY", "BLOCKED", "CANCELLED", "SKIPPED"},
    READY     |-> {"RUNNING", "BLOCKED", "CANCELLED"},
    RUNNING   |-> {"VERIFYING", "FAILED", "BLOCKED", "CANCELLED"},
    VERIFYING |-> {"SUCCEEDED", "FAILED", "BLOCKED"},
    FAILED    |-> {},
    BLOCKED   |-> {"READY", "CANCELLED"},
    SUCCEEDED |-> {}, CANCELLED |-> {}, SKIPPED   |-> {} ]

TASK_TRANSITIONS ==
  [ PENDING   |-> {"READY", "BLOCKED", "CANCELLED", "SKIPPED"},
    READY     |-> {"RUNNING", "BLOCKED", "CANCELLED"},
    RUNNING   |-> {"VERIFYING", "FAILED", "BLOCKED", "CANCELLED"},
    VERIFYING |-> {"SUCCEEDED", "FAILED", "BLOCKED"},
    FAILED    |-> {"READY", "BLOCKED", "CANCELLED"},
    BLOCKED   |-> {"READY", "CANCELLED"},
    SUCCEEDED |-> {},
    CANCELLED |-> {},
    SKIPPED   |-> {} ]

TaskStatus == DOMAIN TASK_TRANSITIONS

TerminalCompute == {"SUCCEEDED", "FAILED", "OOM", "TIMEOUT", "CANCELLED"}

COMPUTE_TRANSITIONS ==
  LET Ends == TerminalCompute IN
  [ CREATED    |-> {"SUBMITTED", "PENDING", "RUNNING", "FAILED", "CANCELLED"},
    SUBMITTED  |-> {"PENDING", "RUNNING", "COLLECTING"} \cup Ends,
    PENDING    |-> {"RUNNING", "COLLECTING"} \cup Ends,
    RUNNING    |-> {"COLLECTING"} \cup Ends,
    COLLECTING |-> Ends,
    SUCCEEDED  |-> {}, FAILED |-> {}, OOM |-> {}, TIMEOUT |-> {},
    CANCELLED  |-> {} ]

ComputeExecutionStatus == DOMAIN COMPUTE_TRANSITIONS

POLLABLE == {"SUBMITTED", "PENDING", "RUNNING"}

\* Mutant of NONTERMINAL_COMPUTE: a job not submitted yet is no external work.
MutNONTERMINAL_COMPUTE == {"COLLECTING"} \cup POLLABLE

NONTERMINAL_COMPUTE == {"CREATED", "COLLECTING"} \cup POLLABLE

=============================================================================
