---------------------------- MODULE ControllerProofs ----------------------------
(***************************************************************************)
(* Proofs about ResearchController, for any tasks, keys, dependencies,     *)
(* files, faults and number of crashes.                                    *)
(***************************************************************************)
EXTENDS ResearchController, LocalProviderProofs

(* Whatever the controller does to the provider is a provider call.        *)
LEMMA ProviderSteps ==
  ASSUME [Next]_vars
  PROVE  [ProviderNext]_pvars
<1>1. CASE TickStep
  <2>1. ASSUME NEW k \in Keys, Collect(k) \/ Poll(k) \/ ReconcileSubmission(k)
        PROVE  [ProviderNext]_pvars
    BY <2>1 DEF Collect, Poll, ReconcileSubmission, ProviderNext
  <2>2. ASSUME NEW n \in Names, IngestFile(n) \/ IngestRaises(n) PROVE [ProviderNext]_pvars
    BY <2>2 DEF IngestFile, IngestRaises, ProviderNext
  <2>3. ASSUME NEW due \in SUBSET Keys, BeginPoll(due) PROVE [ProviderNext]_pvars
    BY <2>3 DEF BeginPoll, Select
  <2>4. ASSUME NEW t \in Tasks, Dispatch(t) \/ DispatchRaises(t)
        PROVE  [ProviderNext]_pvars
    BY <2>4 DEF Dispatch, DispatchRaises, ProviderNext
  <2>5. CASE ProbeProcess \/ RecordObservation \/ Submit \/ MarkSubmitted
    BY <2>5 DEF ProbeProcess, RecordObservation, Submit, MarkSubmitted, ProviderNext
  <2>6. CASE BeginCollect \/ BeginReconcileCreated \/ VerifyRaises
    BY <2>6 DEF BeginCollect, BeginReconcileCreated, Select, VerifyRaises, ProviderNext
  <2>7. CASE UNCHANGED pvars
    BY <2>7
  <2> QED
    BY <1>1, <2>1, <2>2, <2>3, <2>4, <2>5, <2>6, <2>7
    DEF TickStep, FinishCollect, EndLoop, RecoverExpiredLeases, ReconcileReadiness,
        VerifyCompletedWork, BeginDispatch, EndDispatch
<1>2. CASE LastTick \/ Crash \/ Restart
  BY <1>2 DEF LastTick, Crash, Restart, ProviderNext
<1>3. ASSUME NEW k \in Keys, Workload(k) PROVE [ProviderNext]_pvars
  BY <1>3 DEF Workload, ProviderNext
<1>4. ASSUME NEW t \in Tasks, CreateTask(t) \/ LeaseExpires(t)
      PROVE  [ProviderNext]_pvars
  BY <1>4 DEF CreateTask, LeaseExpires
<1>5. CASE UNCHANGED vars
  BY <1>5 DEF vars
<1> QED BY <1>1, <1>2, <1>3, <1>4, <1>5 DEF Next

(* The controller uses LocalProvider as ProviderSpec allows, so all that   *)
(* is proved of the provider holds inside the controller.                  *)
THEOREM ImplementsProvider == Spec => ProviderSpec
<1>1. Init => ProviderInit
  BY DEF Init
<1>2. [Next]_vars => [ProviderNext]_pvars
  BY ProviderSteps
<1> QED BY <1>1, <1>2, PTL DEF Spec, ProviderSpec

(* A task's submission key is launched at most once more than controllers  *)
(* have died in mid-work, over any number of ticks and restarts.           *)
THEOREM ControllerLaunchBound == Spec => []LaunchBound
BY ImplementsProvider, LaunchBoundCorrect, PTL

(* As long as no controller has been killed and none has had an OSError out*)
(* of submit, no key is launched twice: not by controllers that end with   *)
(* --once or another exception and are started again, nor by tasks that    *)
(* share the key, leases or repeated ticks.                                *)
THEOREM OnlyCrashesRelaunch == Spec => [](crashes = 0 => SingleLaunch)
<1>1. ASSUME ProviderTypeOK, LaunchBound, crashes = 0 PROVE SingleLaunch
  <2> SUFFICES ASSUME NEW k \in Keys PROVE launches[k] <= 1
    BY DEF SingleLaunch
  <2>1. launches[k] <= 0 + 1
    BY <1>1 DEF LaunchBound
  <2> QED BY <2>1
<1> QED
  BY <1>1, ControllerLaunchBound, ImplementsProvider, ProviderTypeCorrect, PTL
-----------------------------------------------------------------------------
(* Types.                                                                  *)

LEMMA TypeInit == Init => TypeOK
BY ProviderTypeInit DEF Init, TypeOK, ComputeExecutionStatus, COMPUTE_TRANSITIONS, Follows

(* The values the transitions write are statuses of the tables.            *)
LEMMA Statuses ==
  /\ {"PENDING", "READY", "RUNNING", "VERIFYING", "SUCCEEDED", "FAILED"} \subseteq TaskStatus
  /\ {"CREATED", "SUBMITTED", "RUNNING", "COLLECTING", "SUCCEEDED", "FAILED"}
       \subseteq ComputeExecutionStatus
BY DEF TaskStatus, TASK_TRANSITIONS, ComputeExecutionStatus, COMPUTE_TRANSITIONS

LEMMA Phases ==
  /\ \A p \in DOMAIN Follows : Follows[p] \in DOMAIN Follows
  /\ "collect1" \in DOMAIN Follows
  /\ {"collecting1", "collecting2", "polling", "submitting", "poll", "collect2",
      "leases", "submit", "ready", "verify", "dispatch", "dispatching"} \subseteq DOMAIN Follows
BY DEF Follows

LEMMA TypeStep ==
  ASSUME TypeOK, [Next]_vars
  PROVE  TypeOK'
<1> USE DEF TypeOK, board, jobs, artifacts, tick
<1>0. ProviderTypeOK'
  BY ProviderTypeStep, ProviderSteps
<1>1. ASSUME NEW phase \in DOMAIN Follows, NEW keys \in SUBSET Keys, Select(phase, keys)
      PROVE  TypeOK'
  BY <1>0, <1>1, Phases DEF Select
<1>2. CASE TickStep
  <2>1. CASE BeginCollect
    BY <1>1, <2>1, Phases DEF BeginCollect
  <2>2. CASE BeginReconcileCreated
    BY <1>1, <2>2, Phases DEF BeginReconcileCreated
  <2>3. ASSUME NEW due \in SUBSET Keys, BeginPoll(due) PROVE TypeOK'
    BY <1>1, <2>3, Phases DEF BeginPoll
  <2>4. CASE EndLoop
    BY <1>0, <2>4, Phases DEF EndLoop, Collecting
  <2>5. ASSUME NEW k \in Keys, Collect(k) PROVE TypeOK'
    BY <1>0, <2>5 DEF Collect, Candidates
  <2>6. ASSUME NEW n \in Names, IngestFile(n) PROVE TypeOK'
    <3>1. cur \in Keys /\ disk[cur][n] \in Contents
      BY <2>6 DEF IngestFile, IngestRaises, IsNextFile, ProviderTypeOK
    <3> QED BY <1>0, <2>6, <3>1 DEF IngestFile
  <2>7. CASE FinishCollect
    BY <1>0, <2>7, Statuses DEF FinishCollect, Terminal
  <2>8. ASSUME NEW k \in Keys, Poll(k) \/ ReconcileSubmission(k) PROVE TypeOK'
    BY <1>0, <2>8 DEF Poll, ReconcileSubmission
  <2>9. CASE ProbeProcess \/ Submit
    BY <1>0, <2>9 DEF ProbeProcess, Submit
  <2>10. CASE RecordObservation
    <3>1. \A saw \in ExitCodes \cup {"missing"} : ExitCodeOf(saw) \in ExitCodes \cup {"none"}
      BY DEF ExitCodeOf
    <3> QED BY <1>0, <2>10, <3>1, Statuses DEF RecordObservation
  <2>11. CASE MarkSubmitted
    BY <1>0, <2>11, Statuses DEF MarkSubmitted
  <2>12. CASE RecoverExpiredLeases
    BY <1>0, <2>12, Statuses, Phases DEF RecoverExpiredLeases, AfterAbandon
  <2>13. CASE ReconcileReadiness
    BY <1>0, <2>13, Statuses, Phases DEF ReconcileReadiness
  <2>14. CASE VerifyCompletedWork
    BY <1>0, <2>14, Statuses, Phases DEF VerifyCompletedWork
  <2>15. CASE BeginDispatch \/ EndDispatch
    BY <1>0, <2>15, Phases DEF BeginDispatch, EndDispatch
  <2>16. ASSUME NEW t \in Tasks, Dispatch(t) PROVE TypeOK'
    <3>1. KeyOf[t] \in Keys
      BY TasksAssumption
    <3> QED BY <1>0, <2>16, <3>1, Statuses DEF Dispatch, StartAttempt
  <2>17. ASSUME NEW t \in Tasks, DispatchRaises(t) PROVE TypeOK'
    BY <1>0, <2>17 DEF DispatchRaises, Forget
  <2>18. ASSUME NEW n \in Names, IngestRaises(n) PROVE TypeOK'
    BY <1>0, <2>18 DEF IngestRaises, Forget
  <2>19. CASE VerifyRaises
    BY <1>0, <2>19 DEF VerifyRaises, Forget
  <2> QED
    BY <1>2, <2>1, <2>2, <2>3, <2>4, <2>5, <2>6, <2>7, <2>8, <2>9, <2>10, <2>11,
       <2>12, <2>13, <2>14, <2>15, <2>16, <2>17, <2>18, <2>19
    DEF TickStep
<1>3. CASE LastTick \/ Crash
  BY <1>0, <1>3 DEF LastTick, Crash, Forget
<1>4. CASE Restart
  BY <1>0, <1>4, Phases DEF Restart
<1>5. ASSUME NEW k \in Keys, Workload(k) PROVE TypeOK'
  BY <1>0, <1>5 DEF Workload
<1>6. ASSUME NEW t \in Tasks, CreateTask(t) \/ LeaseExpires(t) PROVE TypeOK'
  BY <1>0, <1>6, Statuses DEF CreateTask, LeaseExpires
<1>7. CASE UNCHANGED vars
  BY <1>0, <1>7 DEF vars
<1> QED BY <1>2, <1>3, <1>4, <1>5, <1>6, <1>7 DEF Next

(* The rows of tasks, compute_jobs and artifacts and the memory of a tick  *)
(* are always what their declarations say.  An exit code in particular is  *)
(* one that some exit.json had: poll makes up none for a missing process.  *)
THEOREM TypeCorrect == Spec => []TypeOK
<1>1. TypeOK /\ [Next]_vars => TypeOK'
  BY TypeStep
<1> QED BY <1>1, TypeInit, PTL DEF Spec
-----------------------------------------------------------------------------
(* What a step may do to one task and to one job.                          *)

Moved(t, from, to) == status[t] = from /\ status'[t] = to

TaskMove(t) ==
  \/ status'[t] = status[t]
  \/ Moved(t, "ABSENT", "PENDING")
  \/ Moved(t, "PENDING", "READY") /\ DependenciesMet(t)
  \/ Moved(t, "READY", "RUNNING") /\ StartAttempt(t)
  \/ Moved(t, "RUNNING", "VERIFYING")
  \/ /\ pc = "leases" /\ Abandoned(t)
     /\ status'[t] = AfterAbandon(t)
  \/ Moved(t, "VERIFYING", "SUCCEEDED") /\ Passes(t) /\ ~Undecodable(t)
  \/ Moved(t, "VERIFYING", "FAILED")

LEMMA TaskMoves ==
  ASSUME TypeOK, [Next]_vars, NEW t \in Tasks
  PROVE  TaskMove(t)
<1> USE DEF TypeOK, TaskMove, Moved
<1>1. ASSUME NEW u \in Tasks, CreateTask(u) PROVE TaskMove(t)
  BY <1>1 DEF CreateTask
<1>2. ASSUME NEW u \in Tasks, Dispatch(u) PROVE TaskMove(t)
  <2>1. CASE status' = status
    BY <2>1
  <2>2. CASE status[u] = "READY" /\ StartAttempt(u)
    <3>1. status' = [status EXCEPT ![u] = "RUNNING"]
      BY <2>2 DEF StartAttempt
    <3>2. CASE t = u
      BY <2>2, <3>1, <3>2
    <3> QED BY <3>1, <3>2
  <2> QED BY <1>2, <2>1, <2>2 DEF Dispatch, board
<1>3. CASE FinishCollect
  BY <1>3 DEF FinishCollect
<1>4. CASE RecoverExpiredLeases
  BY <1>4 DEF RecoverExpiredLeases
<1>5. CASE ReconcileReadiness
  BY <1>5 DEF ReconcileReadiness
<1>6. CASE VerifyCompletedWork
  BY <1>6 DEF VerifyCompletedWork
<1>7. CASE UNCHANGED status
  BY <1>7
<1>8. CASE TickStep
  BY <1>2, <1>3, <1>4, <1>5, <1>6, <1>7, <1>8
  DEF TickStep, BeginCollect, BeginPoll, BeginReconcileCreated, Select, EndLoop, Collect,
      IngestFile, Poll, ReconcileSubmission, ProbeProcess, RecordObservation, Submit,
      MarkSubmitted, BeginDispatch, EndDispatch, DispatchRaises, IngestRaises, VerifyRaises, board
<1> QED
  BY <1>1, <1>7, <1>8
  DEF Next, LastTick, Crash, Restart, Workload, LeaseExpires, board, vars

JobMoved(k, from, to) == execution[k] = from /\ execution'[k] = to

JobMove(k) ==
  \/ execution'[k] = execution[k]
  \/ JobMoved(k, "CREATED", "SUBMITTED") /\ call.at = "returned" /\ call.key = k
  \/ execution[k] \in POLLABLE /\ execution'[k] \in {"RUNNING", "COLLECTING"}
  \/ JobMoved(k, "COLLECTING", Terminal(k)) /\ FinishCollect /\ cur = k
  \/ /\ owner[k] = NoTask
     /\ execution'[k] = "CREATED"
     /\ \E t \in Tasks : KeyOf[t] = k /\ status[t] = "READY" /\ StartAttempt(t)

LEMMA JobMoves ==
  ASSUME TypeOK, [Next]_vars, NEW k \in Keys
  PROVE  JobMove(k)
<1> USE DEF TypeOK, JobMove, JobMoved
<1>1. ASSUME NEW t \in Tasks, Dispatch(t) PROVE JobMove(k)
  <2>1. CASE execution' = execution
    BY <2>1
  <2>2. CASE status[t] = "READY" /\ StartAttempt(t)
    <3>1. execution' = [execution EXCEPT ![KeyOf[t]] =
                          IF owner[KeyOf[t]] = NoTask THEN "CREATED" ELSE @]
      BY <2>2 DEF StartAttempt
    <3>2. CASE k = KeyOf[t] /\ owner[k] = NoTask
      BY <2>2, <3>1, <3>2
    <3> QED BY <3>1, <3>2
  <2> QED BY <1>1, <2>1, <2>2 DEF Dispatch
<1>2. CASE FinishCollect
  BY <1>2 DEF FinishCollect
<1>3. CASE RecordObservation
  BY <1>3 DEF RecordObservation
<1>4. CASE MarkSubmitted
  BY <1>4 DEF MarkSubmitted
<1>5. CASE UNCHANGED execution
  BY <1>5
<1>6. CASE TickStep
  BY <1>1, <1>2, <1>3, <1>4, <1>5, <1>6
  DEF TickStep, BeginCollect, BeginPoll, BeginReconcileCreated, Select, EndLoop, Collect,
      IngestFile, Poll, ReconcileSubmission, ProbeProcess, Submit, RecoverExpiredLeases,
      ReconcileReadiness, VerifyCompletedWork, BeginDispatch, EndDispatch,
      DispatchRaises, IngestRaises, VerifyRaises, jobs
<1> QED
  BY <1>5, <1>6
  DEF Next, LastTick, Crash, Restart, Workload, CreateTask, LeaseExpires, jobs, vars
-----------------------------------------------------------------------------
(* Dependencies.                                                           *)

LEMMA DependenciesStep ==
  ASSUME TypeOK, DependenciesRespected, [Next]_vars
  PROVE  DependenciesRespected'
<1>1. SUFFICES ASSUME NEW t \in Tasks, status'[t] \notin {"ABSENT", "PENDING"},
                      NEW d \in Deps[t]
               PROVE  status'[d] = "SUCCEEDED"
  BY DEF DependenciesRespected
<1>2. d \in Tasks
  BY TasksAssumption
<1>3. TaskMove(t) /\ TaskMove(d)
  BY <1>2, TaskMoves
<1>4. status[d] = "SUCCEEDED"
  <2>1. CASE status[t] \notin {"ABSENT", "PENDING"}
    BY <2>1 DEF DependenciesRespected
  <2>2. CASE status[t] \in {"ABSENT", "PENDING"}
    BY <1>1, <1>3, <2>2 DEF TaskMove, Moved, DependenciesMet, Abandoned
  <2> QED BY <2>1, <2>2
<1> QED BY <1>3, <1>4 DEF TaskMove, Moved, Abandoned

(* No task starts before its dependencies have SUCCEEDED, through any      *)
(* crashes and retries.                                                    *)
THEOREM DependenciesCorrect == Spec => []DependenciesRespected
<1>1. Init => DependenciesRespected
  BY DEF Init, DependenciesRespected
<1>2. TypeOK /\ DependenciesRespected /\ [Next]_vars => DependenciesRespected'
  BY DependenciesStep
<1> QED BY <1>1, <1>2, TypeCorrect, PTL DEF Spec
-----------------------------------------------------------------------------
(* Submission.                                                             *)

(* A launch on record and the number of launches only grow.                *)
LEMMA LaunchesStay ==
  ASSUME ProviderTypeOK, LaunchesAccounted, AnswersAreTrue, [ProviderNext]_pvars,
         NEW k \in Keys, record[k] = "LAUNCHED"
  PROVE  record'[k] = "LAUNCHED" /\ launches'[k] >= 1
<1>1. record'[k] = "LAUNCHED" /\ launches'[k] = launches[k]
  BY LaunchedIsFinalStep
<1> QED BY <1>1 DEF AnswersAreTrue

LEMMA SubmittedStep ==
  ASSUME TypeOK, LaunchesAccounted, AnswersAreTrue, SubmittedIsLaunched, [Next]_vars
  PROVE  SubmittedIsLaunched'
<1>1. SUFFICES ASSUME NEW k \in Keys, execution'[k] \notin {"ABSENT", "CREATED"}
               PROVE  record'[k] = "LAUNCHED" /\ launches'[k] >= 1
  BY DEF SubmittedIsLaunched
<1>2. record[k] = "LAUNCHED"
  BY <1>1, JobMoves DEF JobMove, JobMoved, SubmittedIsLaunched, AnswersAreTrue, POLLABLE
<1> QED BY <1>2, LaunchesStay, ProviderSteps DEF TypeOK

(* In no state of the system does a compute job count as submitted without *)
(* a launched process on record.                                           *)
THEOREM SubmittedCorrect == Spec => []SubmittedIsLaunched
<1>1. Init => SubmittedIsLaunched
  BY DEF Init, SubmittedIsLaunched
<1>2. TypeOK /\ LaunchesAccounted /\ AnswersAreTrue /\ SubmittedIsLaunched /\ [Next]_vars
        => SubmittedIsLaunched'
  BY SubmittedStep
<1> QED
  BY <1>1, <1>2, TypeCorrect, ImplementsProvider, LaunchAccountCorrect, AnswersCorrect, PTL
  DEF Spec
-----------------------------------------------------------------------------
(* Leases and live work.                                                   *)

(* A job row changes hands only when it is made, by the task dispatched.   *)
OwnerMove(k) ==
  \/ owner'[k] = owner[k]
  \/ /\ owner[k] = NoTask
     /\ \E t \in Tasks : KeyOf[t] = k /\ StartAttempt(t)

LEMMA OwnerMoves ==
  ASSUME TypeOK, [Next]_vars, NEW k \in Keys
  PROVE  OwnerMove(k)
<1>1. ASSUME NEW t \in Tasks, Dispatch(t) PROVE OwnerMove(k)
  <2>1. CASE owner' = owner
    BY <2>1 DEF OwnerMove
  <2>2. CASE StartAttempt(t)
    <3>1. owner' = [owner EXCEPT ![KeyOf[t]] = IF owner[KeyOf[t]] = NoTask THEN t ELSE @]
      BY <2>2 DEF StartAttempt
    <3>2. CASE k = KeyOf[t] /\ owner[k] = NoTask
      BY <2>2, <3>2 DEF OwnerMove
    <3> QED BY <3>1, <3>2 DEF OwnerMove, TypeOK
  <2> QED BY <1>1, <2>1, <2>2 DEF Dispatch
<1>2. CASE UNCHANGED owner
  BY <1>2 DEF OwnerMove
<1>3. CASE TickStep
  BY <1>1, <1>2, <1>3
  DEF TickStep, BeginCollect, BeginPoll, BeginReconcileCreated, Select, EndLoop, Collect,
      IngestFile, FinishCollect, Poll, ReconcileSubmission, ProbeProcess, RecordObservation,
      Submit, MarkSubmitted, RecoverExpiredLeases, ReconcileReadiness, VerifyCompletedWork,
      BeginDispatch, EndDispatch, DispatchRaises, IngestRaises, VerifyRaises, jobs
<1> QED
  BY <1>2, <1>3
  DEF Next, LastTick, Crash, Restart, Workload, CreateTask, LeaseExpires, jobs, vars

(* What StartAttempt leaves behind for the key of its task.                *)
LEMMA StartAttemptEffect ==
  ASSUME TypeOK, NEW t \in Tasks, StartAttempt(t)
  PROVE  /\ status'[t] = "RUNNING"
         /\ owner[KeyOf[t]] = NoTask => /\ owner'[KeyOf[t]] = t
                                        /\ execution'[KeyOf[t]] = "CREATED"
<1>1. KeyOf[t] \in Keys
  BY TasksAssumption
<1> QED BY <1>1 DEF StartAttempt, TypeOK

(* An execution status is that of external work, or an end, or no row.     *)
LEMMA Nonterminal ==
  ASSUME TypeOK, NEW k \in Keys, execution[k] \notin TerminalCompute \cup {"ABSENT"}
  PROVE  execution[k] \in NONTERMINAL_COMPUTE
<1>1. execution[k] \in ComputeExecutionStatus
  BY DEF TypeOK
<1> QED
  BY <1>1 DEF ComputeExecutionStatus, COMPUTE_TRANSITIONS, NONTERMINAL_COMPUTE, POLLABLE,
              TerminalCompute

(* The invariant, JobsFollowDispatch with RunningHasLiveJob: each needs the*)
(* other, for the first says that a dispatch makes a new job, and the      *)
(* second that a lease returns no task with a job to READY.                *)
WorkInv == JobsFollowDispatch /\ RunningHasLiveJob

LEMMA NotAbandoned ==
  ASSUME TypeOK, WorkInv, NEW t \in Tasks, ~SharesKey(t)
  PROVE  ~Abandoned(t)
<1>1. KeyOf[t] \in Keys
  BY TasksAssumption
<1> QED
  BY <1>1, Nonterminal DEF WorkInv, RunningHasLiveJob, Abandoned, HasExternalWork, Own

LEMMA JobsFollowDispatchStep ==
  ASSUME TypeOK, WorkInv, [Next]_vars
  PROVE  JobsFollowDispatch'
<1>1. ASSUME NEW k \in Keys
      PROVE  IF owner'[k] = NoTask THEN execution'[k] = "ABSENT"
             ELSE KeyOf[owner'[k]] = k /\ execution'[k] # "ABSENT"
  <2>1. CASE owner[k] = NoTask
    <3>1. CASE \E t \in Tasks : KeyOf[t] = k /\ StartAttempt(t)
      BY <2>1, <3>1, StartAttemptEffect, TasksAssumption
    <3>2. CASE ~\E t \in Tasks : KeyOf[t] = k /\ StartAttempt(t)
      <4>1. owner'[k] = owner[k] /\ execution[k] = "ABSENT"
        BY <2>1, <3>2, OwnerMoves DEF OwnerMove, WorkInv, JobsFollowDispatch
      <4> QED BY <2>1, <3>2, <4>1, JobMoves DEF JobMove, JobMoved, POLLABLE
    <3> QED BY <3>1, <3>2
  <2>2. CASE owner[k] # NoTask
    <3>1. owner'[k] = owner[k] /\ KeyOf[owner[k]] = k /\ execution[k] # "ABSENT"
      BY <2>2, OwnerMoves DEF OwnerMove, WorkInv, JobsFollowDispatch
    <3>2. execution'[k] # "ABSENT"
      BY <3>1, JobMoves DEF JobMove, JobMoved, Terminal
    <3> QED BY <2>2, <3>1, <3>2
  <2> QED BY <2>1, <2>2
<1>2. ASSUME NEW t \in Tasks, owner'[KeyOf[t]] = t, ~SharesKey(t)
      PROVE  status'[t] \notin {"ABSENT", "PENDING", "READY"}
  <2>1. KeyOf[t] \in Keys /\ t # NoTask
    BY TasksAssumption
  <2>2. CASE Own(t)
    <3>1. status[t] \notin {"ABSENT", "PENDING", "READY"}
      BY <1>2, <2>2 DEF WorkInv, JobsFollowDispatch
    <3> QED BY <1>2, <3>1, TaskMoves, NotAbandoned DEF TaskMove, Moved
  <2>3. CASE ~Own(t)
    <3>1. PICK u \in Tasks : KeyOf[u] = KeyOf[t] /\ StartAttempt(u)
      BY <1>2, <2>1, <2>3, OwnerMoves DEF OwnerMove, Own
    <3>2. u = t
      BY <1>2, <3>1 DEF SharesKey
    <3> QED BY <3>1, <3>2, StartAttemptEffect
  <2> QED BY <2>2, <2>3
<1> QED BY <1>1, <1>2 DEF JobsFollowDispatch, Own, SharesKey

LEMMA RunningHasLiveJobStep ==
  ASSUME TypeOK, WorkInv, [Next]_vars
  PROVE  RunningHasLiveJob'
<1>1. SUFFICES ASSUME NEW t \in Tasks, status'[t] = "RUNNING", ~SharesKey(t)
               PROVE  /\ owner'[KeyOf[t]] = t
                      /\ execution'[KeyOf[t]] \notin TerminalCompute \cup {"ABSENT"}
  BY DEF RunningHasLiveJob, Own, SharesKey
<1>2. KeyOf[t] \in Keys /\ t # NoTask
  BY TasksAssumption
<1>3. CASE status[t] = "RUNNING"
  <2>1. Own(t) /\ execution[KeyOf[t]] \notin TerminalCompute \cup {"ABSENT"}
    BY <1>1, <1>3 DEF WorkInv, RunningHasLiveJob
  <2>2. owner'[KeyOf[t]] = t
    BY <1>2, <2>1, OwnerMoves DEF OwnerMove, Own
  <2>3. ~(FinishCollect /\ cur = KeyOf[t] /\ execution[cur] = "COLLECTING")
    BY <1>1, <1>2, <1>3, <2>1, KeysAssumption DEF FinishCollect, Own
  <2>4. execution'[KeyOf[t]] \notin TerminalCompute \cup {"ABSENT"}
    BY <1>2, <2>1, <2>3, JobMoves DEF JobMove, JobMoved, TerminalCompute
  <2> QED BY <2>2, <2>4
<1>4. CASE status[t] # "RUNNING"
  <2>1. status[t] = "READY" /\ StartAttempt(t)
    BY <1>1, <1>4, TaskMoves DEF TaskMove, Moved, AfterAbandon
  <2>2. owner[KeyOf[t]] = NoTask
    BY <1>1, <1>2, <2>1 DEF WorkInv, JobsFollowDispatch, Own, SharesKey, TypeOK
  <2> QED BY <2>1, <2>2, StartAttemptEffect DEF TerminalCompute
<1> QED BY <1>3, <1>4

(* A RUNNING task whose submission key is its own always has a job that has*)
(* not ended: no interleaving, lease or crash leaves it without work.      *)
THEOREM LiveWorkCorrect == Spec => [](JobsFollowDispatch /\ RunningHasLiveJob)
<1>1. Init => WorkInv
  BY TasksAssumption DEF Init, WorkInv, JobsFollowDispatch, RunningHasLiveJob, Own
<1>2. TypeOK /\ WorkInv /\ [Next]_vars => WorkInv'
  BY JobsFollowDispatchStep, RunningHasLiveJobStep DEF WorkInv
<1>3. WorkInv => JobsFollowDispatch /\ RunningHasLiveJob
  BY DEF WorkInv
<1> QED BY <1>1, <1>2, <1>3, TypeCorrect, PTL DEF Spec

(* Lease recovery takes no task with a submission key of its own out of    *)
(* RUNNING: it is left only for verification.                              *)
THEOREM LeaseCorrect == Spec => LeaseSparesLiveWork
<1>1. ASSUME TypeOK, JobsFollowDispatch, RunningHasLiveJob, [Next]_vars,
             NEW t \in Tasks, status[t] = "RUNNING", ~SharesKey(t)
      PROVE  status'[t] \in {"RUNNING", "VERIFYING"}
  <2>1. ~Abandoned(t)
    BY <1>1, NotAbandoned DEF WorkInv
  <2> QED BY <1>1, <2>1, TaskMoves DEF TaskMove, Moved
<1>2. TypeOK /\ JobsFollowDispatch /\ RunningHasLiveJob /\ [Next]_vars =>
        [\A t \in Tasks : status[t] = "RUNNING" /\ ~SharesKey(t) =>
           status'[t] \in {"RUNNING", "VERIFYING"}]_vars
  BY <1>1
<1> QED BY <1>2, TypeCorrect, LiveWorkCorrect, PTL DEF Spec, LeaseSparesLiveWork
-----------------------------------------------------------------------------
(* Attempts and legal moves.                                               *)

LEMMA AttemptMoves ==
  ASSUME TypeOK, [Next]_vars, NEW t \in Tasks
  PROVE  \/ attempts'[t] = attempts[t]
         \/ Moved(t, "READY", "RUNNING") /\ attempts'[t] = attempts[t] + 1
<1> DEFINE Counted == \/ attempts'[t] = attempts[t]
                      \/ Moved(t, "READY", "RUNNING") /\ attempts'[t] = attempts[t] + 1
<1>1. ASSUME NEW u \in Tasks, Dispatch(u) PROVE Counted
  <2>1. CASE attempts' = attempts
    BY <2>1
  <2>2. CASE status[u] = "READY" /\ StartAttempt(u)
    <3>1. attempts' = [attempts EXCEPT ![u] = @ + 1] /\ status' = [status EXCEPT ![u] = "RUNNING"]
      BY <2>2 DEF StartAttempt
    <3>2. CASE t = u
      BY <2>2, <3>1, <3>2 DEF Moved, TypeOK
    <3> QED BY <3>1, <3>2 DEF TypeOK
  <2> QED BY <1>1, <2>1, <2>2 DEF Dispatch, board
<1>2. CASE UNCHANGED attempts
  BY <1>2
<1>3. CASE TickStep
  BY <1>1, <1>2, <1>3
  DEF TickStep, BeginCollect, BeginPoll, BeginReconcileCreated, Select, EndLoop, Collect,
      IngestFile, FinishCollect, Poll, ReconcileSubmission, ProbeProcess, RecordObservation,
      Submit, MarkSubmitted, RecoverExpiredLeases, ReconcileReadiness, VerifyCompletedWork,
      BeginDispatch, EndDispatch, DispatchRaises, IngestRaises, VerifyRaises, board
<1> QED
  BY <1>2, <1>3
  DEF Next, LastTick, Crash, Restart, Workload, CreateTask, LeaseExpires, board, vars

LEMMA AttemptsStep ==
  ASSUME TypeOK, AttemptsBounded, [Next]_vars
  PROVE  AttemptsBounded'
<1>1. SUFFICES ASSUME NEW t \in Tasks
               PROVE  /\ attempts'[t] <= MaxAttempts
                      /\ status'[t] \in {"ABSENT", "PENDING", "READY"} => attempts'[t] < MaxAttempts
  BY DEF AttemptsBounded
<1>2. attempts[t] \in Nat /\ MaxAttempts \in Nat
  BY TasksAssumption DEF TypeOK
<1>3. /\ attempts[t] <= MaxAttempts
      /\ status[t] \in {"ABSENT", "PENDING", "READY"} => attempts[t] < MaxAttempts
  BY DEF AttemptsBounded
<1>4. CASE Moved(t, "READY", "RUNNING") /\ attempts'[t] = attempts[t] + 1
  BY <1>2, <1>3, <1>4 DEF Moved
<1>5. CASE attempts'[t] = attempts[t]
  <2>1. TaskMove(t)
    BY TaskMoves
  <2> QED BY <1>2, <1>3, <1>5, <2>1 DEF TaskMove, Moved, AfterAbandon
<1> QED BY <1>4, <1>5, AttemptMoves

(* No task is dispatched more often than its max_attempts, whatever        *)
(* leases, shared keys and crashes do.                                     *)
THEOREM AttemptsCorrect == Spec => []AttemptsBounded
<1>1. Init => AttemptsBounded
  BY TasksAssumption DEF Init, AttemptsBounded
<1>2. TypeOK /\ AttemptsBounded /\ [Next]_vars => AttemptsBounded'
  BY AttemptsStep
<1> QED BY <1>1, <1>2, TypeCorrect, PTL DEF Spec

(* TransitionService never refuses a move: no InvalidTransition ends a     *)
(* tick, for tasks and for compute jobs.                                   *)
THEOREM LegalMovesCorrect == Spec => LegalMoves
<1> DEFINE TaskLegal(t) ==
             status[t] \notin {"ABSENT", status'[t]} =>
               \/ status'[t] \in TASK_TRANSITIONS[status[t]]
               \/ /\ pc = "leases"
                  /\ "FAILED" \in TASK_TRANSITIONS[status[t]]
                  /\ status'[t] \in TASK_TRANSITIONS["FAILED"]
           JobLegal(k) ==
             execution[k] \notin {"ABSENT", execution'[k]} =>
               execution'[k] \in COMPUTE_TRANSITIONS[execution[k]]
<1>1. ASSUME TypeOK, [Next]_vars, NEW t \in Tasks PROVE TaskLegal(t)
  <2>1. TaskMove(t)
    BY <1>1, TaskMoves
  <2> QED BY <2>1 DEF TaskMove, Moved, Abandoned, AfterAbandon, TASK_TRANSITIONS
<1>2. ASSUME TypeOK, JobsFollowDispatch, [Next]_vars, NEW k \in Keys PROVE JobLegal(k)
  <2>1. JobMove(k)
    BY <1>2, JobMoves
  <2>2. owner[k] = NoTask => execution[k] = "ABSENT"
    BY <1>2 DEF JobsFollowDispatch
  <2>3. CASE JobMoved(k, "COLLECTING", Terminal(k))
    BY <2>3 DEF JobMoved, Terminal, COMPUTE_TRANSITIONS, TerminalCompute
  <2>4. CASE execution[k] \in POLLABLE /\ execution'[k] \in {"RUNNING", "COLLECTING"}
    BY <2>4 DEF POLLABLE, COMPUTE_TRANSITIONS, TerminalCompute
  <2> QED BY <2>1, <2>2, <2>3, <2>4 DEF JobMove, JobMoved, COMPUTE_TRANSITIONS
<1>3. TypeOK /\ JobsFollowDispatch /\ [Next]_vars =>
        [(\A t \in Tasks : TaskLegal(t)) /\ (\A k \in Keys : JobLegal(k))]_vars
  BY <1>1, <1>2
<1> QED BY <1>3, TypeCorrect, LiveWorkCorrect, PTL DEF Spec, LegalMoves
-----------------------------------------------------------------------------
(* The board.                                                              *)

LEMMA BoardStep ==
  ASSUME TypeOK, WorkInv, [Next]_vars
  PROVE  [Board!BoardNext]_(Board!board)
<1> USE DEF TypeOK, Board!Move, Board!All, Board!In
<1>1. ASSUME NEW t \in Tasks, CreateTask(t) PROVE Board!Create(t)
  BY <1>1 DEF CreateTask, Board!Create
<1>2. ASSUME NEW t \in Tasks, Dispatch(t) PROVE Board!Start(t) \/ UNCHANGED board
  BY <1>2 DEF Dispatch, StartAttempt, Board!Start, board
<1>3. CASE FinishCollect
  <2>1. CASE \E t \in Tasks : /\ cur # NoKey /\ execution[cur] = "COLLECTING"
                             /\ t = owner[cur] /\ status[t] = "RUNNING"
    <3>1. PICK t \in Tasks : /\ cur # NoKey /\ execution[cur] = "COLLECTING"
                            /\ t = owner[cur] /\ status[t] = "RUNNING"
      BY <2>1
    <3> QED BY <1>3, <3>1 DEF FinishCollect, Board!HandIn, Board!BoardNext
  <2>2. CASE ~\E t \in Tasks : /\ cur # NoKey /\ execution[cur] = "COLLECTING"
                              /\ t = owner[cur] /\ status[t] = "RUNNING"
    <3>1. status' = status
      BY <1>3, <2>2 DEF FinishCollect
    <3> QED BY <1>3, <3>1 DEF FinishCollect, Board!board
  <2> QED BY <2>1, <2>2
<1>4. CASE RecoverExpiredLeases
  <2> DEFINE S == {t \in Tasks : Abandoned(t)}
  <2>1. S \subseteq {t \in Tasks : SharesKey(t)}
    BY NotAbandoned
  <2>2. Board!GiveUp(S)
    BY <1>4, <2>1 DEF RecoverExpiredLeases, AfterAbandon, Abandoned, Board!GiveUp
  <2>3. S \in SUBSET Tasks
    OBVIOUS
  <2> QED BY <2>2, <2>3 DEF Board!BoardNext
<1>5. CASE ReconcileReadiness
  <2> DEFINE S == {t \in Tasks : status[t] = "PENDING" /\ DependenciesMet(t)}
  <2>1. \A t \in Tasks : Deps[t] \subseteq Tasks
    BY TasksAssumption
  <2>2. Board!Release(S)
    BY <1>5, <2>1 DEF ReconcileReadiness, DependenciesMet, Board!Release
  <2>3. S \in SUBSET Tasks
    OBVIOUS
  <2> QED BY <2>2, <2>3 DEF Board!BoardNext
<1>6. CASE VerifyCompletedWork
  <2> DEFINE S == {t \in Tasks : Passes(t)}
  <2>1. Board!Judge(S)
    BY <1>6 DEF VerifyCompletedWork, Board!Judge
  <2>2. S \in SUBSET Tasks
    OBVIOUS
  <2> QED BY <2>1, <2>2 DEF Board!BoardNext
<1>7. CASE UNCHANGED <<status, attempts>>
  BY <1>7 DEF Board!board
<1>8. CASE TickStep
  BY <1>2, <1>3, <1>4, <1>5, <1>6, <1>7, <1>8
  DEF TickStep, BeginCollect, BeginPoll, BeginReconcileCreated, Select, EndLoop, Collect,
      IngestFile, Poll, ReconcileSubmission, ProbeProcess, RecordObservation, Submit,
      MarkSubmitted, BeginDispatch, EndDispatch, DispatchRaises, IngestRaises, VerifyRaises, board, Board!BoardNext
<1> QED
  BY <1>1, <1>7, <1>8
  DEF Next, LastTick, Crash, Restart, Workload, LeaseExpires, board, vars, Board!BoardNext

(* The controller, its jobs, leases, processes and crashes, implements the *)
(* board its clients see.                                                  *)
THEOREM BoardCorrect == Spec => ImplementsBoard
<1>1. Init => Board!BoardInit
  BY DEF Init, Board!BoardInit
<1>2. TypeOK /\ JobsFollowDispatch /\ RunningHasLiveJob /\ [Next]_vars =>
        [Board!BoardNext]_(Board!board)
  BY BoardStep DEF WorkInv
<1> QED
  BY <1>1, <1>2, TypeCorrect, LiveWorkCorrect, PTL DEF Spec, ImplementsBoard, Board!BoardSpec

(* The same board once more, with what is proved of it.                    *)
BoardFacts == INSTANCE TaskBoardProofs WITH Requeueable <- {t \in Tasks : SharesKey(t)}

LEMMA OneBoard == Board!BoardSpec => BoardFacts!BoardSpec
<1>1. Board!BoardInit => BoardFacts!BoardInit
  BY DEF Board!BoardInit, BoardFacts!BoardInit
<1>2. [Board!BoardNext]_(Board!board) => [BoardFacts!BoardNext]_(BoardFacts!board)
  BY DEF Board!BoardNext, Board!Create, Board!Start, Board!HandIn, Board!Release,
      Board!Judge, Board!GiveUp, Board!Move, Board!All, Board!In, Board!board,
      BoardFacts!BoardNext, BoardFacts!Create, BoardFacts!Start, BoardFacts!HandIn,
      BoardFacts!Release, BoardFacts!Judge, BoardFacts!GiveUp, BoardFacts!Move,
      BoardFacts!All, BoardFacts!In, BoardFacts!board
<1> QED BY <1>1, <1>2, PTL DEF Board!BoardSpec, BoardFacts!BoardSpec

(* A task with a submission key of its own is dispatched exactly once,     *)
(* whatever its max_attempts and however often the controller restarts.    *)
THEOREM AttemptOnceCorrect == Spec => []AttemptOnce
<1>1. BoardFacts!AttemptOnce => AttemptOnce
  BY DEF AttemptOnce, Board!AttemptOnce, BoardFacts!AttemptOnce
<1> QED
  BY <1>1, BoardCorrect, OneBoard, BoardFacts!AttemptOnceOnBoard, PTL DEF ImplementsBoard

(* A verdict is final: no lease, restart or second job of a shared key     *)
(* takes a task that is SUCCEEDED or FAILED in the database out of it.     *)
THEOREM VerdictsFinalCorrect == Spec => Board!VerdictsAreFinal
<1>1. [\A t \in Tasks : status[t] \in {"SUCCEEDED", "FAILED"} =>
         status'[t] = status[t]]_(BoardFacts!board) =>
      [\A t \in Tasks : status[t] \in {"SUCCEEDED", "FAILED"} =>
         status'[t] = status[t]]_(Board!board)
  BY DEF Board!board, BoardFacts!board
<1> QED
  BY <1>1, BoardCorrect, OneBoard, BoardFacts!VerdictsFinalOnBoard, PTL
  DEF ImplementsBoard, Board!VerdictsAreFinal, BoardFacts!VerdictsAreFinal

=============================================================================
