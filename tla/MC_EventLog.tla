----------------------------- MODULE MC_EventLog -----------------------------
(* A controller and a client write to one project's log; the client creates *)
(* rows and also assigns statuses of rows it has read.                     *)
EXTENDS EventLog

CONSTANTS c, client, task, job, nobody, note

=============================================================================
