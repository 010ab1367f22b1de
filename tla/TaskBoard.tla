------------------------------- MODULE TaskBoard -------------------------------
(***************************************************************************)
(* What the controller promises of the tasks table to the client that      *)
(* inserted the tasks: their statuses and attempts, with no ticks, leases, *)
(* jobs, processes or crashes.  ResearchController implements it.          *)
(***************************************************************************)
EXTENDS Naturals

CONSTANTS
  Tasks,
  Deps,         \* the tasks a task depends on
  MaxAttempts,
  Requeueable   \* tasks that may lose an attempt that has started

VARIABLES status, attempts

board == <<status, attempts>>

BoardInit ==
  /\ status = [t \in Tasks |-> "ABSENT"]
  /\ attempts = [t \in Tasks |-> 0]

In(s) == {t \in Tasks : status[t] = s}

\* The tasks of S, and no others, move.
Move(S, to) == status' = [t \in Tasks |-> IF t \in S THEN to[t] ELSE status[t]]

All(s) == [t \in Tasks |-> s]

Create(t) ==
  /\ t \in In("ABSENT")
  /\ Move({t}, All("PENDING"))
  /\ UNCHANGED attempts

Release(S) ==
  /\ S \subseteq In("PENDING")
  /\ \A t \in S : Deps[t] \subseteq In("SUCCEEDED")
  /\ Move(S, All("READY"))
  /\ UNCHANGED attempts

Start(t) ==
  /\ t \in In("READY")
  /\ Move({t}, All("RUNNING"))
  /\ attempts' = [attempts EXCEPT ![t] = @ + 1]

HandIn(t) ==
  /\ t \in In("RUNNING")
  /\ Move({t}, All("VERIFYING"))
  /\ UNCHANGED attempts

\* All that wait for a verdict get it together.
Judge(passed) ==
  /\ Move(In("VERIFYING"), [t \in Tasks |-> IF t \in passed THEN "SUCCEEDED" ELSE "FAILED"])
  /\ UNCHANGED attempts

GiveUp(S) ==
  /\ S \subseteq In("RUNNING") \cap Requeueable
  /\ Move(S, [t \in Tasks |-> IF attempts[t] < MaxAttempts THEN "READY" ELSE "FAILED"])
  /\ UNCHANGED attempts

BoardNext ==
  \/ \E t \in Tasks : Create(t) \/ Start(t) \/ HandIn(t)
  \/ \E S \in SUBSET Tasks : Release(S) \/ Judge(S) \/ GiveUp(S)

BoardSpec == BoardInit /\ [][BoardNext]_board
-----------------------------------------------------------------------------
(* A task that is not requeueable is dispatched exactly once: attempts is 0*)
(* until it is RUNNING and 1 from then on, whatever its max_attempts.      *)
AttemptOnce ==
  \A t \in Tasks \ Requeueable :
    attempts[t] = IF status[t] \in {"ABSENT", "PENDING", "READY"} THEN 0 ELSE 1

(* Once a client sees SUCCEEDED or FAILED in a committed row, that is the  *)
(* verdict: TASK_TRANSITIONS would let FAILED go back to READY, but the    *)
(* only code that does so has just left RUNNING in the same transaction.   *)
VerdictsAreFinal ==
  [][\A t \in Tasks : status[t] \in {"SUCCEEDED", "FAILED"} => status'[t] = status[t]]_board

=============================================================================
