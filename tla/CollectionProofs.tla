---------------------------- MODULE CollectionProofs ----------------------------
(***************************************************************************)
(* From a runner's exit.json to a verdict: proofs of what ResearchController *)
(* collects, believes and marks as evidence.                               *)
(***************************************************************************)
EXTENDS ControllerProofs

(* What ControllerProofs and LocalProviderProofs have shown.               *)
Base ==
  /\ TypeOK /\ LaunchesAccounted /\ AnswersAreTrue
  /\ ProcessesCounted /\ ExitIsLast
  /\ SubmittedIsLaunched /\ WorkInv

LEMMA BaseAlways == Spec => []Base
<1>1. TypeOK /\ LaunchesAccounted /\ AnswersAreTrue /\ ProcessesCounted
        /\ ExitIsLast /\ SubmittedIsLaunched /\ JobsFollowDispatch /\ RunningHasLiveJob => Base
  BY DEF Base, WorkInv
<1> QED
  BY <1>1, TypeCorrect, ImplementsProvider, LaunchAccountCorrect, AnswersCorrect,
     ProcessesCountedAlways, ExitIsLastAlways, SubmittedCorrect, LiveWorkCorrect, PTL

(* A job row stays with the task of its key that made it.                  *)
THEOREM JobsFollowDispatchCorrect == Spec => []JobsFollowDispatch
BY LiveWorkCorrect, PTL
-----------------------------------------------------------------------------
(* A job once submitted.                                                   *)

Submitted(k) == execution[k] \notin {"ABSENT", "CREATED"}

(* The one runner of k, if it was launched once, waits for nothing more.   *)
Rested(k) == launches[k] = 1 => ~busy[k]

(* Collection of k has begun.                                              *)
Ending(k) == execution[k] \in {"COLLECTING"} \cup TerminalCompute

LEMMA SubmittedStays ==
  ASSUME Base, [Next]_vars, NEW k \in Keys, Submitted(k)
  PROVE  /\ execution'[k] \notin {"ABSENT", "CREATED"}
         /\ launches'[k] = launches[k]
         /\ Ending(k) => execution'[k] \in {"COLLECTING"} \cup TerminalCompute
<1>1. record[k] = "LAUNCHED" /\ owner[k] # NoTask
  BY DEF Base, SubmittedIsLaunched, Submitted, WorkInv, JobsFollowDispatch
<1>2. launches'[k] = launches[k]
  BY <1>1, LaunchedIsFinalStep, ProviderSteps DEF Base, TypeOK
<1> QED
  BY <1>1, <1>2, JobMoves
  DEF Base, JobMove, JobMoved, Submitted, Ending, Terminal, POLLABLE, TerminalCompute

(* The runner of a rested job does not come to life again, and neither     *)
(* does its workdir when no process of the command is left in it.          *)
LEMMA RestedStays ==
  ASSUME Base, [Next]_vars, NEW k \in Keys, Submitted(k), Rested(k), launches'[k] = 1
  PROVE  /\ launches[k] = 1 /\ ~busy'[k] /\ disk'[k][ExitFile] = disk[k][ExitFile]
         /\ ~loose[k] => disk'[k] = disk[k]
<1>1. launches[k] = 1 /\ ~busy[k]
  BY SubmittedStays DEF Rested
<1> QED BY <1>1, FilesRest, ProviderSteps DEF Base, TypeOK
-----------------------------------------------------------------------------
(* Polling.                                                                *)

LEMMA PollMoves ==
  ASSUME TypeOK, [Next]_vars, NEW k \in Keys
  PROVE  /\ pc' = "polling" /\ k \in todo' =>
              (pc = "polling" /\ k \in todo) \/ execution[k] \in POLLABLE
         /\ call'.at \in {"probe", "observed"} /\ call'.key = k =>
              \/ call' = call
              \/ pc = "polling" /\ k \in todo /\ (PollExitFile(k) \/ PollRaises(k))
              \/ PollProcess /\ call.key = k
         /\ exitCode'[k] # exitCode[k] => execution[k] \in POLLABLE
         /\ execution'[k] = "COLLECTING" /\ execution[k] # "COLLECTING" =>
              /\ call.at = "observed" /\ call.key = k
              /\ call.saw \in ExitCodes \cup {"missing"}
              /\ exitCode'[k] = ExitCodeOf(call.saw)
<1> DEFINE Listed == pc' = "polling" /\ k \in todo' =>
                       (pc = "polling" /\ k \in todo) \/ execution[k] \in POLLABLE
           Called == call'.at \in {"probe", "observed"} /\ call'.key = k =>
                       \/ call' = call
                       \/ pc = "polling" /\ k \in todo /\ (PollExitFile(k) \/ PollRaises(k))
                       \/ PollProcess /\ call.key = k
           Coded == exitCode'[k] # exitCode[k] => execution[k] \in POLLABLE
           Began == execution'[k] = "COLLECTING" /\ execution[k] # "COLLECTING" =>
                      /\ call.at = "observed" /\ call.key = k
                      /\ call.saw \in ExitCodes \cup {"missing"}
                      /\ exitCode'[k] = ExitCodeOf(call.saw)
<1>1. Listed
  <2>1. CASE TickStep
    BY <2>1
    DEF TickStep, BeginCollect, BeginPoll, BeginReconcileCreated, Select, EndLoop, Collect,
        IngestFile, FinishCollect, Poll, ReconcileSubmission, ProbeProcess, RecordObservation,
        Submit, MarkSubmitted, RecoverExpiredLeases, ReconcileReadiness, VerifyCompletedWork,
        BeginDispatch, EndDispatch, Dispatch, DispatchRaises, IngestRaises, VerifyRaises, Forget,
        tick, Follows, Collecting
  <2> QED
    BY <2>1
    DEF Next, LastTick, Crash, Forget, Restart, Workload, CreateTask, LeaseExpires, tick, vars
<1>2. Called
  <2>1. ASSUME NEW j \in Keys, Poll(j) PROVE Called
    BY <2>1 DEF Poll, PollExitFile, PollRaises, At
  <2>2. CASE PollProcess
    BY <2>2 DEF PollProcess, At
  <2>3. CASE call' = call
    BY <2>3
  <2>4. CASE call'.at \in {"idle", "launch", "record", "returned"}
    BY <2>4
  <2>5. CASE TickStep
    BY <2>1, <2>2, <2>3, <2>4, <2>5
    DEF TickStep, BeginCollect, BeginPoll, BeginReconcileCreated, Select, EndLoop, Collect,
        IngestFile, FinishCollect, ReconcileSubmission, ProbeProcess, RecordObservation,
        Submit, MarkSubmitted, RecoverExpiredLeases, ReconcileReadiness, VerifyCompletedWork,
        BeginDispatch, EndDispatch, Dispatch, DispatchRaises, IngestRaises, VerifyRaises, pvars,
        Return, Launch, RecordLaunch, AnswerKnown, PrepareAndReserve, DiscoverResources, ControllerEnds, At, Idle
  <2> QED
    BY <2>3, <2>4, <2>5, ProcessesFrame
    DEF Next, LastTick, Crash, Restart, Workload, CreateTask, LeaseExpires, pvars, vars,
        ControllerEnds, ControllerCrash, SubmitRaises, Idle
<1>3. Coded /\ Began
  <2>1. CASE RecordObservation
    BY <2>1 DEF RecordObservation, TypeOK
  <2>2. CASE exitCode' = exitCode /\ (execution'[k] = "COLLECTING" => execution[k] = "COLLECTING")
    BY <2>2
  <2>3. CASE UNCHANGED <<exitCode, execution>>
    BY <2>2, <2>3
  <2>4. ASSUME NEW t \in Tasks, Dispatch(t) PROVE Coded /\ Began
    BY <2>2, <2>4 DEF Dispatch, StartAttempt, TypeOK
  <2>5. CASE FinishCollect \/ MarkSubmitted
    BY <2>2, <2>5 DEF FinishCollect, MarkSubmitted, Terminal, TypeOK
  <2>6. CASE TickStep
    BY <2>1, <2>3, <2>4, <2>5, <2>6
    DEF TickStep, BeginCollect, BeginPoll, BeginReconcileCreated, Select, EndLoop, Collect,
        IngestFile, Poll, ReconcileSubmission, ProbeProcess, Submit, RecoverExpiredLeases,
        ReconcileReadiness, VerifyCompletedWork, BeginDispatch, EndDispatch, DispatchRaises,
        IngestRaises, VerifyRaises, jobs
  <2> QED
    BY <2>3, <2>6
    DEF Next, LastTick, Crash, Restart, Workload, CreateTask, LeaseExpires, jobs, vars
<1> QED BY <1>1, <1>2, <1>3

(* What poll saw is still so when it is recorded, and when it is acted on. *)
PollInv ==
  \A k \in Keys :
    /\ pc = "polling" /\ k \in todo => Submitted(k)
    /\ call.at \in {"probe", "observed"} /\ call.key = k => Submitted(k)
    /\ call.at = "observed" /\ call.key = k =>
         /\ call.saw \in ExitCodes \cup {"missing"} => Rested(k)
         /\ call.saw \in ExitCodes /\ launches[k] = 1 => disk[k][ExitFile] = call.saw
    /\ Ending(k) =>
         /\ Rested(k)
         /\ exitCode[k] \in ExitCodes /\ launches[k] = 1 => disk[k][ExitFile] = exitCode[k]

(* A call about k that ends in an observation.                             *)
LEMMA Observed ==
  ASSUME Base, PollInv, [Next]_vars, NEW k \in Keys, call'.at = "observed", call'.key = k
  PROVE  /\ call'.saw \in ExitCodes \cup {"missing"} /\ launches'[k] = 1 => ~busy'[k]
         /\ call'.saw \in ExitCodes /\ launches'[k] = 1 => disk'[k][ExitFile] = call'.saw
<1> SUFFICES ASSUME call'.saw \in ExitCodes \cup {"missing"}, launches'[k] = 1
             PROVE  /\ ~busy'[k]
                    /\ call'.saw \in ExitCodes => disk'[k][ExitFile] = call'.saw
  OBVIOUS
<1>1. CASE call' = call
  <2>1. Submitted(k) /\ Rested(k)
    BY <1>1 DEF PollInv
  <2>2. launches[k] = 1 /\ ~busy'[k] /\ disk'[k][ExitFile] = disk[k][ExitFile]
    BY <2>1, RestedStays
  <2> QED BY <1>1, <2>2 DEF PollInv
<1>2. CASE pc = "polling" /\ k \in todo /\ (PollExitFile(k) \/ PollRaises(k))
  <2>1. Submitted(k)
    BY <1>2 DEF PollInv
  <2>2. disk[k][ExitFile] # "none" /\ call'.saw = disk[k][ExitFile] /\ disk' = disk
    BY <1>2, CodesAssumption DEF PollExitFile, PollRaises, At
  <2>3. Rested(k)
    BY <2>2 DEF Base, ExitIsLast, Rested
  <2> QED BY <2>1, <2>2, <2>3, RestedStays
<1>3. CASE PollProcess /\ call.key = k
  <2>1. Submitted(k) /\ record[k] = "LAUNCHED"
    BY <1>3 DEF PollProcess, PollInv, Base, SubmittedIsLaunched, Submitted
  <2>2. ~Alive(k) /\ call'.saw = "missing"
    BY <1>3, CodesAssumption DEF PollProcess, At
  <2>3. Rested(k)
    BY <2>1, <2>2 DEF Alive, Known, Rested, Base, ProcessesCounted
  <2> QED BY <2>1, <2>2, <2>3, RestedStays, CodesAssumption
<1> QED BY <1>1, <1>2, <1>3, PollMoves DEF Base

LEMMA PollStep ==
  ASSUME Base, PollInv, [Next]_vars
  PROVE  PollInv'
<1> SUFFICES ASSUME NEW k \in Keys
             PROVE  /\ pc' = "polling" /\ k \in todo' => execution'[k] \notin {"ABSENT", "CREATED"}
                    /\ call'.at \in {"probe", "observed"} /\ call'.key = k =>
                         execution'[k] \notin {"ABSENT", "CREATED"}
                    /\ call'.at = "observed" /\ call'.key = k =>
                         /\ call'.saw \in ExitCodes \cup {"missing"} /\ launches'[k] = 1 =>
                              ~busy'[k]
                         /\ call'.saw \in ExitCodes /\ launches'[k] = 1 =>
                              disk'[k][ExitFile] = call'.saw
                    /\ execution'[k] \in {"COLLECTING"} \cup TerminalCompute /\ launches'[k] = 1 =>
                         /\ ~busy'[k]
                         /\ exitCode'[k] \in ExitCodes => disk'[k][ExitFile] = exitCode'[k]
  BY DEF PollInv, Submitted, Rested, Ending
<1>1. ASSUME pc' = "polling", k \in todo' PROVE Submitted(k)
  BY <1>1, PollMoves DEF Base, PollInv, Submitted, POLLABLE
<1>2. ASSUME call'.at \in {"probe", "observed"}, call'.key = k PROVE Submitted(k)
  BY <1>2, PollMoves DEF Base, PollInv, PollProcess
<1>3. ASSUME execution'[k] \in {"COLLECTING"} \cup TerminalCompute, launches'[k] = 1
      PROVE  /\ ~busy'[k]
             /\ exitCode'[k] \in ExitCodes => disk'[k][ExitFile] = exitCode'[k]
  <2>1. CASE Ending(k)
    <3>1. Submitted(k) /\ Rested(k)
      BY <2>1 DEF PollInv, Ending, Submitted, TerminalCompute
    <3>2. launches[k] = 1 /\ ~busy'[k] /\ disk'[k][ExitFile] = disk[k][ExitFile]
      BY <1>3, <3>1, RestedStays
    <3>3. exitCode'[k] = exitCode[k]
      BY <2>1, PollMoves DEF Base, Ending, POLLABLE, TerminalCompute
    <3> QED BY <2>1, <3>2, <3>3 DEF PollInv
  <2>2. CASE ~Ending(k)
    <3>1. execution'[k] = "COLLECTING" /\ execution[k] # "COLLECTING"
      BY <1>3, <2>2, JobMoves DEF Base, JobMove, JobMoved, Ending, TerminalCompute
    <3>2. /\ call.at = "observed" /\ call.key = k
          /\ call.saw \in ExitCodes \cup {"missing"}
          /\ exitCode'[k] = ExitCodeOf(call.saw)
      BY <3>1, PollMoves DEF Base
    <3>3. Submitted(k) /\ Rested(k)
      BY <3>2 DEF PollInv
    <3>4. launches[k] = 1 /\ ~busy'[k] /\ disk'[k][ExitFile] = disk[k][ExitFile]
      BY <1>3, <3>3, RestedStays
    <3> QED BY <3>2, <3>4, CodesAssumption DEF PollInv, ExitCodeOf
  <2> QED BY <2>1, <2>2
<1> QED BY <1>1, <1>2, <1>3, SubmittedStays, Observed

LEMMA PollInvAlways == Spec => []PollInv
<1>1. ASSUME Init PROVE PollInv
  <2>1. pc = "collect1" /\ call.at = "idle" /\ \A k \in Keys : ~Ending(k)
    BY <1>1 DEF Init, ProviderInit, Ending, TerminalCompute, Idle
  <2> QED BY <2>1 DEF PollInv
<1>2. Base /\ PollInv /\ [Next]_vars => PollInv'
  BY PollStep
<1> QED BY <1>1, <1>2, BaseAlways, PTL DEF Spec

(* No job is collected while the runner it was launched with has an        *)
(* exit.json to write, between whichever two looks of poll it ends.        *)
THEOREM CollectAfterExitCorrect == Spec => []CollectAfterExit
<1>1. PollInv => CollectAfterExit
  BY DEF PollInv, CollectAfterExit, Ending, Rested
<1> QED BY <1>1, PollInvAlways, PTL
-----------------------------------------------------------------------------
(* Collecting.                                                             *)

(* The artifact rows of what the workdir of k holds.                       *)
Stored(k) == {<<n, disk[k][n]>> : n \in Candidates(k)}

(* A job that is listed for collection, or being collected, stays          *)
(* COLLECTING until its turn is over.                                      *)
ListInv ==
  /\ cur # NoKey => pc \in Collecting /\ execution[cur] = "COLLECTING"
  /\ pc \in Collecting => \A k \in todo : execution[k] = "COLLECTING" /\ k # cur

(* What has been ingested of a job, what is still listed, and the rest.    *)
Ingested(k) ==
  /\ rows[k] \subseteq Stored(k)
  /\ cur = k => \A n \in Candidates(k) \ files : <<n, disk[k][n]>> \in rows[k]
  /\ execution[k] \in TerminalCompute => Stored(k) \subseteq rows[k]

IngestInv ==
  \A k \in Keys :
    /\ rows[k] # {} => Ending(k)
    /\ launches[k] = 1 /\ exitCode[k] # "none" =>
         /\ (cur = k /\ ExitFile \notin files) \/ execution[k] \in TerminalCompute =>
              <<ExitFile, exitCode[k]>> \in rows[k]
         /\ "leftovers" \notin Faults => Ingested(k)

CollectInv == ListInv /\ IngestInv

LEMMA CollectingStays ==
  ASSUME Base, [Next]_vars, NEW k \in Keys, execution[k] = "COLLECTING",
         ~(FinishCollect /\ cur = k)
  PROVE  execution'[k] = "COLLECTING"
BY JobMoves DEF Base, JobMove, JobMoved, POLLABLE, WorkInv, JobsFollowDispatch

LEMMA ListStep ==
  ASSUME Base, ListInv, [Next]_vars
  PROVE  ListInv'
<1> USE DEF ListInv, Collecting
<1>0. cur \in Keys \cup {NoKey} /\ todo \subseteq Keys
  BY DEF Base, TypeOK
<1>1. ASSUME NEW k \in Keys, execution[k] = "COLLECTING", ~FinishCollect
      PROVE  execution'[k] = "COLLECTING"
  BY <1>1, CollectingStays
<1>2. CASE FinishCollect
  <2>1. \A k \in Keys \ {cur} : execution[k] = "COLLECTING" => execution'[k] = "COLLECTING"
    BY CollectingStays
  <2>2. cur # NoKey /\ cur' = NoKey /\ todo' = todo /\ pc' = pc
    BY <1>2 DEF FinishCollect
  <2>3. NoKey \notin todo
    BY <1>0, KeysAssumption
  <2> QED BY <1>0, <2>1, <2>2, <2>3
<1>3. ASSUME NEW k \in Keys, Collect(k) PROVE ListInv'
  <2>1. ~FinishCollect
    BY <1>3 DEF Collect, FinishCollect
  <2> QED BY <1>0, <1>1, <1>3, <2>1, KeysAssumption DEF Collect
<1>4. CASE BeginCollect
  <2>1. cur = NoKey /\ cur' = NoKey /\ execution' = execution
    BY <1>4 DEF BeginCollect, Select, jobs
  <2> QED BY <1>4, <2>1, KeysAssumption DEF BeginCollect, Select, Follows
<1>5. CASE UNCHANGED <<pc, cur, todo>> /\ ~FinishCollect
  BY <1>0, <1>1, <1>5
<1>6. CASE cur' = NoKey /\ pc' \notin Collecting
  BY <1>6
<1>7. CASE cur = NoKey /\ cur' = cur /\ pc' \notin Collecting
  BY <1>7
<1>8. ASSUME pc \notin Collecting, cur' = cur, pc' \notin Collecting PROVE ListInv'
  BY <1>8
<1>9. CASE TickStep
  <2>1. ASSUME NEW due \in SUBSET Keys, BeginPoll(due) PROVE ListInv'
    BY <1>8, <2>1 DEF BeginPoll, Select, Follows
  <2>2. CASE BeginReconcileCreated
    BY <1>8, <2>2 DEF BeginReconcileCreated, Select, Follows
  <2>3. CASE EndLoop
    BY <1>7, <2>3 DEF EndLoop, Follows
  <2>4. ASSUME NEW k \in Keys, Poll(k) \/ ReconcileSubmission(k) PROVE ListInv'
    BY <1>8, <2>4 DEF Poll, ReconcileSubmission
  <2>5. CASE RecoverExpiredLeases \/ ReconcileReadiness \/ VerifyCompletedWork
    BY <1>8, <2>5 DEF RecoverExpiredLeases, ReconcileReadiness, VerifyCompletedWork, Follows
  <2>6. CASE BeginDispatch \/ EndDispatch
    BY <1>8, <2>6 DEF BeginDispatch, EndDispatch, Follows
  <2>7. CASE \/ \E t \in Tasks : DispatchRaises(t)
             \/ \E n \in Names : IngestRaises(n)
             \/ VerifyRaises
    BY <1>6, <2>7 DEF DispatchRaises, IngestRaises, VerifyRaises, Forget
  <2>8. CASE UNCHANGED <<pc, cur, todo>>
    BY <1>2, <1>5, <2>8
  <2> QED
    BY <1>2, <1>3, <1>4, <1>9, <2>1, <2>2, <2>3, <2>4, <2>5, <2>6, <2>7, <2>8
    DEF TickStep, IngestFile, ProbeProcess, RecordObservation, Submit, MarkSubmitted,
        Dispatch, tick
<1>10. CASE LastTick \/ Crash
  BY <1>6, <1>10 DEF LastTick, Crash, Forget
<1>11. CASE Restart
  BY <1>8, <1>11 DEF Restart
<1> QED
  BY <1>2, <1>5, <1>9, <1>10, <1>11
  DEF Next, Workload, CreateTask, LeaseExpires, tick, vars

(* What a step may do to the rows of one job and to its turn.              *)
LEMMA IngestMoves ==
  ASSUME TypeOK, [Next]_vars, NEW k \in Keys
  PROVE  \/ /\ rows'[k] = rows[k]
            /\ (cur' = cur /\ files' = files) \/ cur' # k
         \/ rows'[k] = rows[k] /\ Collect(k)
         \/ cur = k /\ \E n \in Names : IngestFile(n)
<1> DEFINE Kept == rows'[k] = rows[k] /\ ((cur' = cur /\ files' = files) \/ cur' # k)
           Goal == \/ Kept
                   \/ rows'[k] = rows[k] /\ Collect(k)
                   \/ cur = k /\ \E n \in Names : IngestFile(n)
<1> USE DEF TypeOK
<1>1. ASSUME NEW j \in Keys, Collect(j) PROVE Goal
  BY <1>1 DEF Collect, artifacts
<1>2. ASSUME NEW n \in Names, IngestFile(n) PROVE Goal
  <2>1. CASE cur = k
    BY <1>2, <2>1
  <2>2. CASE cur # k
    BY <1>2, <2>2 DEF IngestFile
  <2> QED BY <2>1, <2>2
<1>3. CASE FinishCollect
  BY <1>3, KeysAssumption DEF FinishCollect, artifacts
<1>4. CASE UNCHANGED <<rows, cur, files>>
  BY <1>4
<1>5. CASE rows' = rows /\ cur' = NoKey
  BY <1>5, KeysAssumption
<1>6. CASE TickStep
  BY <1>1, <1>2, <1>3, <1>4, <1>5, <1>6
  DEF TickStep, BeginCollect, BeginPoll, BeginReconcileCreated, Select, EndLoop, Poll,
      ReconcileSubmission, ProbeProcess, RecordObservation, Submit, MarkSubmitted,
      RecoverExpiredLeases, ReconcileReadiness, VerifyCompletedWork, BeginDispatch,
      EndDispatch, Dispatch, DispatchRaises, IngestRaises, VerifyRaises, Forget, artifacts, tick
<1> QED
  BY <1>4, <1>5, <1>6
  DEF Next, LastTick, Crash, Forget, Restart, Workload, CreateTask, LeaseExpires,
      artifacts, tick, vars

(* The exit code that a job is collected on is that of its exit.json; and  *)
(* where commands leave no process behind, its workdir is final.           *)
LEMMA CollectedFiles ==
  ASSUME Base, PollInv, [Next]_vars, NEW k \in Keys, Ending(k),
         launches'[k] = 1, exitCode'[k] # "none"
  PROVE  /\ launches[k] = 1 /\ exitCode'[k] = exitCode[k]
         /\ disk[k][ExitFile] = exitCode[k] /\ disk'[k][ExitFile] = exitCode[k]
         /\ "leftovers" \notin Faults => disk'[k] = disk[k]
<1>1. Submitted(k) /\ Rested(k)
  BY DEF PollInv, Ending, Submitted, TerminalCompute
<1>2. launches[k] = 1 /\ disk'[k][ExitFile] = disk[k][ExitFile] /\ (~loose[k] => disk'[k] = disk[k])
  BY <1>1, RestedStays
<1>3. exitCode'[k] = exitCode[k]
  BY PollMoves DEF Base, Ending, POLLABLE, TerminalCompute
<1>4. disk[k][ExitFile] = exitCode[k]
  BY <1>2, <1>3 DEF PollInv, Base, TypeOK
<1>5. "leftovers" \notin Faults => ~loose[k]
  BY <1>2, <1>3, <1>4 DEF Base, ExitIsLast
<1> QED BY <1>2, <1>3, <1>4, <1>5

LEMMA IngestStep ==
  ASSUME Base, PollInv, CollectInv, [Next]_vars
  PROVE  IngestInv'
<1> SUFFICES ASSUME NEW k \in Keys
             PROVE  /\ rows'[k] # {} => execution'[k] \in {"COLLECTING"} \cup TerminalCompute
                    /\ launches'[k] = 1 /\ exitCode'[k] # "none" =>
                         /\ (cur' = k /\ ExitFile \notin files') \/ execution'[k] \in TerminalCompute =>
                              <<ExitFile, exitCode'[k]>> \in rows'[k]
                         /\ "leftovers" \notin Faults =>
                              /\ rows'[k] \subseteq Stored(k)'
                              /\ cur' = k => \A n \in Candidates(k)' \ files' :
                                                <<n, disk'[k][n]>> \in rows'[k]
                              /\ execution'[k] \in TerminalCompute => Stored(k)' \subseteq rows'[k]
  BY DEF IngestInv, Ingested, Ending
<1>1. CASE ~Ending(k)
  <2>1. rows[k] = {} /\ cur # k /\ (pc \in Collecting => k \notin todo)
    BY <1>1, KeysAssumption DEF CollectInv, ListInv, IngestInv, Ending
  <2>2. rows'[k] = {} /\ cur' # k
    BY <2>1, IngestMoves DEF Base, Collect
  <2>3. execution'[k] \notin TerminalCompute
    BY <1>1, JobMoves DEF Base, JobMove, JobMoved, Ending, TerminalCompute
  <2> QED BY <2>2, <2>3
<1>2. CASE Ending(k)
  <2>1. Submitted(k)
    BY <1>2 DEF Ending, Submitted, TerminalCompute
  <2>2. execution'[k] \in {"COLLECTING"} \cup TerminalCompute
    BY <1>2, <2>1, SubmittedStays
  <2>3. ASSUME execution'[k] \in TerminalCompute
        PROVE  execution[k] \in TerminalCompute \/ (cur = k /\ files = {})
    <3>1. CASE execution[k] = "COLLECTING" /\ ~(FinishCollect /\ cur = k)
      BY <2>3, <3>1, CollectingStays DEF TerminalCompute
    <3> QED BY <1>2, <3>1 DEF Ending, FinishCollect
  <2> SUFFICES ASSUME launches'[k] = 1, exitCode'[k] # "none"
               PROVE  /\ (cur' = k /\ ExitFile \notin files') \/ execution'[k] \in TerminalCompute =>
                           <<ExitFile, exitCode'[k]>> \in rows'[k]
                      /\ "leftovers" \notin Faults =>
                           /\ rows'[k] \subseteq Stored(k)'
                           /\ cur' = k => \A n \in Candidates(k)' \ files' :
                                             <<n, disk'[k][n]>> \in rows'[k]
                           /\ execution'[k] \in TerminalCompute => Stored(k)' \subseteq rows'[k]
    BY <2>2
  <2>4. /\ launches[k] = 1 /\ exitCode'[k] = exitCode[k]
        /\ disk[k][ExitFile] = exitCode[k] /\ disk'[k][ExitFile] = exitCode[k]
        /\ "leftovers" \notin Faults => disk'[k] = disk[k]
    BY <1>2, CollectedFiles
  <2>5. rows[k] \subseteq rows'[k]
    BY IngestMoves DEF Base, IngestFile, TypeOK
  <2>6. ASSUME (cur' = k /\ ExitFile \notin files') \/ execution'[k] \in TerminalCompute
        PROVE  <<ExitFile, exitCode'[k]>> \in rows'[k]
    <3>1. CASE (cur = k /\ ExitFile \notin files) \/ execution[k] \in TerminalCompute
      BY <2>4, <2>5, <3>1 DEF CollectInv, IngestInv
    <3>2. CASE ~((cur = k /\ ExitFile \notin files) \/ execution[k] \in TerminalCompute)
      <4>1. cur' = k /\ ExitFile \notin files'
        BY <2>3, <2>6, <3>2
      <4>2. ~Collect(k)
        BY <2>4, <4>1, NamesAssumption DEF Collect, Candidates
      <4>3. PICK n \in Names : cur = k /\ IngestFile(n)
        BY <3>2, <4>1, <4>2, IngestMoves DEF Base
      <4>4. n = ExitFile
        BY <3>2, <4>1, <4>3 DEF IngestFile
      <4> QED BY <2>4, <4>3, <4>4 DEF IngestFile, Base, TypeOK
    <3> QED BY <3>1, <3>2
  <2>7. ASSUME "leftovers" \notin Faults
        PROVE  /\ rows'[k] \subseteq Stored(k)'
               /\ cur' = k => \A n \in Candidates(k)' \ files' : <<n, disk'[k][n]>> \in rows'[k]
               /\ execution'[k] \in TerminalCompute => Stored(k)' \subseteq rows'[k]
    <3>1. disk'[k] = disk[k]
      BY <2>4, <2>7
    <3>2. Stored(k)' = Stored(k) /\ Candidates(k)' = Candidates(k)
      BY <3>1 DEF Stored, Candidates
    <3>3. /\ rows[k] \subseteq Stored(k)
          /\ cur = k => \A n \in Candidates(k) \ files : <<n, disk[k][n]>> \in rows[k]
          /\ execution[k] \in TerminalCompute => Stored(k) \subseteq rows[k]
      BY <2>4, <2>7 DEF CollectInv, IngestInv, Ingested
    <3>4. execution'[k] \in TerminalCompute => Stored(k) \subseteq rows[k]
      BY <2>3, <3>3 DEF Stored
    <3>5. CASE cur = k /\ \E n \in Names : IngestFile(n)
      <4>1. PICK n \in Names : IngestFile(n)
        BY <3>5
      <4>2. rows'[k] = rows[k] \cup {<<n, disk[k][n]>>} /\ files' = files \ {n} /\ cur' = cur
        BY <3>5, <4>1 DEF IngestFile, Base, TypeOK
      <4>3. n \in Candidates(k)
        BY <3>5, <4>1 DEF IngestFile, Candidates
      <4> QED BY <3>1, <3>2, <3>3, <3>4, <3>5, <4>2, <4>3 DEF Stored
    <3>6. CASE rows'[k] = rows[k]
      <4>1. cur' = k => \A n \in Candidates(k) \ files' : <<n, disk[k][n]>> \in rows[k]
        BY <3>3, <3>6, IngestMoves DEF Base, Collect, IngestFile, TypeOK
      <4> QED BY <3>1, <3>2, <3>3, <3>4, <3>6, <4>1
    <3> QED BY <3>5, <3>6, IngestMoves DEF Base
  <2> QED BY <2>6, <2>7
<1> QED BY <1>1, <1>2

LEMMA CollectInvAlways == Spec => []CollectInv
<1>1. Init => CollectInv
  BY KeysAssumption
  DEF Init, ProviderInit, CollectInv, ListInv, IngestInv, Collecting
<1>2. Base /\ PollInv /\ CollectInv /\ [Next]_vars => CollectInv'
  BY ListStep, IngestStep DEF CollectInv
<1> QED BY <1>1, <1>2, BaseAlways, PollInvAlways, PTL DEF Spec

(* Whatever crashes and failed ingestions cut off, the rows of a job that  *)
(* ended on its exit.json are its files, each once: nothing is missed, and *)
(* nothing is stored twice.                                                *)
THEOREM CollectionCorrect == Spec => []CollectionExact
<1>1. CollectInv => CollectionExact
  BY DEF CollectInv, IngestInv, Ingested, CollectionExact, Ended, Stored
<1> QED BY <1>1, CollectInvAlways, PTL
-----------------------------------------------------------------------------
(* Verdicts.                                                               *)

(* What SuccessIsEarned asks of a task that SUCCEEDED.                     *)
Earned(t) ==
  LET k == KeyOf[t] IN
  /\ Own(t) /\ execution[k] = "SUCCEEDED"
  /\ launches[k] = 1 => <<ExitFile, "good">> \in rows[k]
  /\ \A n \in Required : \E c \in Contents : <<n, c>> \in rows[k]
  /\ \A n \in Checked, c \in Contents : <<n, c>> \in rows[k] => c = "good"

(* The exit code a job ended with is the one that was collected.           *)
LEMMA PassingIsEarned ==
  ASSUME Base, PollInv, CollectInv, NEW t \in Tasks, Passes(t), ~Undecodable(t)
  PROVE  Earned(t)
<1> DEFINE k == KeyOf[t]
<1>1. k \in Keys
  BY TasksAssumption
<1>2. exitCode[k] = "good" /\ execution[k] = "SUCCEEDED"
  BY DEF Passes
<1>3. ASSUME launches[k] = 1 PROVE <<ExitFile, "good">> \in rows[k]
  BY <1>1, <1>2, <1>3 DEF CollectInv, IngestInv, TerminalCompute
<1>4. ASSUME NEW n \in Checked, NEW c \in Contents, <<n, c>> \in rows[k] PROVE c = "good"
  BY <1>4 DEF Passes, Undecodable, Contents
<1> QED BY <1>2, <1>3, <1>4 DEF Passes, Earned, Own

(* The row set of an ended job, and its owner, are final.                  *)
LEMMA EarnedStays ==
  ASSUME Base, CollectInv, [Next]_vars, NEW t \in Tasks, Earned(t)
  PROVE  Earned(t)'
<1> DEFINE k == KeyOf[t]
<1>1. k \in Keys /\ t # NoTask
  BY TasksAssumption
<1>2. owner[k] = t /\ execution[k] = "SUCCEEDED"
  BY DEF Earned, Own
<1>3. owner'[k] = t
  BY <1>1, <1>2, OwnerMoves DEF Base, OwnerMove
<1>4. execution'[k] = "SUCCEEDED"
  BY <1>1, <1>2, JobMoves DEF Base, JobMove, JobMoved, POLLABLE
<1>5. launches'[k] = launches[k]
  BY <1>1, <1>2, SubmittedStays DEF Submitted
<1>6. cur # k
  BY <1>1, <1>2, KeysAssumption DEF CollectInv, ListInv
<1>7. rows'[k] = rows[k]
  BY <1>1, <1>6, IngestMoves DEF Base
<1> QED BY <1>3, <1>4, <1>5, <1>7 DEF Earned, Own

(* A SUCCEEDED task has what its verdict rests on, and keeps it.           *)
THEOREM SuccessCorrect == Spec => []SuccessIsEarned
<1>1. Init => SuccessIsEarned
  BY DEF Init, SuccessIsEarned
<1>2. ASSUME Base, PollInv, CollectInv, SuccessIsEarned, [Next]_vars PROVE SuccessIsEarned'
  <2>1. \A t \in Tasks : status[t] = "SUCCEEDED" => Earned(t)
    BY <1>2 DEF SuccessIsEarned, Earned
  <2>2. ASSUME NEW t \in Tasks, status'[t] = "SUCCEEDED" PROVE Earned(t)
    <3>1. status[t] = "SUCCEEDED" \/ (Passes(t) /\ ~Undecodable(t))
      BY <1>2, <2>2, TaskMoves DEF Base, TaskMove, Moved, AfterAbandon
    <3> QED BY <1>2, <2>1, <3>1, PassingIsEarned
  <2>3. \A t \in Tasks : status'[t] = "SUCCEEDED" => Earned(t)'
    BY <1>2, <2>2, EarnedStays
  <2> QED BY <2>3 DEF SuccessIsEarned, Earned
<1> QED BY <1>1, <1>2, BaseAlways, PollInvAlways, CollectInvAlways, PTL DEF Spec

(* EvidenceOnlyFromSuccess, with the task that the evidence comes from.    *)
EvidenceInv ==
  \A k \in Keys : evidence[k] # {} =>
    evidence[k] \subseteq rows[k] /\ owner[k] \in Tasks /\ status[owner[k]] = "SUCCEEDED"

LEMMA EvidenceStep ==
  ASSUME Base, EvidenceInv, [Next]_vars
  PROVE  EvidenceInv'
<1> SUFFICES ASSUME NEW k \in Keys, evidence'[k] # {}
             PROVE  /\ evidence'[k] \subseteq rows'[k]
                    /\ owner'[k] \in Tasks /\ status'[owner'[k]] = "SUCCEEDED"
  BY DEF EvidenceInv
<1>1. CASE evidence'[k] = evidence[k]
  <2>1. evidence[k] \subseteq rows[k] /\ owner[k] \in Tasks /\ status[owner[k]] = "SUCCEEDED"
    BY <1>1 DEF EvidenceInv
  <2>2. owner'[k] = owner[k]
    BY <2>1, OwnerMoves, TasksAssumption DEF Base, OwnerMove
  <2>3. status'[owner[k]] = "SUCCEEDED"
    BY <2>1, TaskMoves DEF Base, TaskMove, Moved, Abandoned
  <2>4. rows[k] \subseteq rows'[k]
    BY IngestMoves DEF Base, IngestFile, TypeOK
  <2> QED BY <1>1, <2>1, <2>2, <2>3, <2>4
<1>2. CASE VerifyCompletedWork
  <2>1. CASE evidence'[k] = evidence[k]
    BY <1>1, <2>1
  <2>2. CASE /\ owner[k] \in Tasks /\ status[owner[k]] = "VERIFYING" /\ Passes(owner[k])
             /\ evidence'[k] = {r \in rows[k] : r[1] \in Evidence}
    BY <1>2, <2>2 DEF VerifyCompletedWork, jobs, Base, TypeOK
  <2> QED BY <1>2, <2>1, <2>2 DEF VerifyCompletedWork
<1>3. CASE UNCHANGED evidence
  BY <1>1, <1>3
<1>4. CASE TickStep
  BY <1>2, <1>3, <1>4
  DEF TickStep, BeginCollect, BeginPoll, BeginReconcileCreated, Select, EndLoop, Collect,
      IngestFile, FinishCollect, Poll, ReconcileSubmission, ProbeProcess, RecordObservation,
      Submit, MarkSubmitted, RecoverExpiredLeases, ReconcileReadiness, BeginDispatch,
      EndDispatch, Dispatch, DispatchRaises, IngestRaises, VerifyRaises, artifacts
<1> QED
  BY <1>3, <1>4
  DEF Next, LastTick, Crash, Restart, Workload, CreateTask, LeaseExpires, artifacts, vars

(* No artifact is evidence unless its task SUCCEEDED, and none that the    *)
(* task has not stored.                                                    *)
THEOREM EvidenceCorrect == Spec => []EvidenceOnlyFromSuccess
<1>1. Init => EvidenceInv
  BY DEF Init, EvidenceInv
<1>2. Base /\ EvidenceInv /\ [Next]_vars => EvidenceInv'
  BY EvidenceStep
<1>3. EvidenceInv => EvidenceOnlyFromSuccess
  BY DEF EvidenceInv, EvidenceOnlyFromSuccess
<1> QED BY <1>1, <1>2, <1>3, BaseAlways, PTL DEF Spec

(* What is marked as evidence has been verified, and is not marked again.  *)
LEMMA EvidenceStays ==
  ASSUME Base, EvidenceInv, [Next]_vars, NEW k \in Keys, evidence[k] # {}
  PROVE  evidence'[k] = evidence[k]
<1>1. CASE VerifyCompletedWork
  BY <1>1 DEF VerifyCompletedWork, EvidenceInv
<1>2. CASE UNCHANGED evidence
  BY <1>2
<1>3. CASE TickStep
  BY <1>1, <1>2, <1>3
  DEF TickStep, BeginCollect, BeginPoll, BeginReconcileCreated, Select, EndLoop, Collect,
      IngestFile, FinishCollect, Poll, ReconcileSubmission, ProbeProcess, RecordObservation,
      Submit, MarkSubmitted, RecoverExpiredLeases, ReconcileReadiness, BeginDispatch,
      EndDispatch, Dispatch, DispatchRaises, IngestRaises, VerifyRaises, artifacts
<1> QED
  BY <1>2, <1>3
  DEF Next, LastTick, Crash, Restart, Workload, CreateTask, LeaseExpires, artifacts, vars

LEMMA EndedStays ==
  ASSUME Base, CollectInv, [Next]_vars, NEW k \in Keys, Ended(k)
  PROVE  /\ execution'[k] = execution[k] /\ owner'[k] = owner[k]
         /\ exitCode'[k] = exitCode[k] /\ rows'[k] = rows[k]
<1>1. execution[k] \in TerminalCompute
  BY DEF Ended
<1>2. owner[k] # NoTask /\ cur # k
  BY <1>1, KeysAssumption
  DEF Base, WorkInv, JobsFollowDispatch, CollectInv, ListInv, TerminalCompute
<1>3. owner'[k] = owner[k]
  BY <1>2, OwnerMoves DEF Base, OwnerMove
<1>4. execution'[k] = execution[k]
  BY <1>1, <1>2, JobMoves DEF Base, JobMove, JobMoved, POLLABLE, TerminalCompute
<1>5. exitCode'[k] = exitCode[k]
  BY <1>1, PollMoves DEF Base, POLLABLE, TerminalCompute
<1>6. rows'[k] = rows[k]
  BY <1>2, IngestMoves DEF Base
<1> QED BY <1>3, <1>4, <1>5, <1>6

(* When a job has ended, nothing changes what it reports or what it has    *)
(* stored, not the polls and collections that were under way, nor a second *)
(* launch of its key; and evidence once marked stays as it was marked.     *)
ResultsAreFinal ==
  [][\A k \in Keys :
       /\ Ended(k) => /\ execution'[k] = execution[k] /\ owner'[k] = owner[k]
                      /\ exitCode'[k] = exitCode[k] /\ rows'[k] = rows[k]
       /\ evidence[k] # {} => evidence'[k] = evidence[k]]_vars

(* Late answers, crashes and repeated collections change no result.        *)
THEOREM ResultsFinalCorrect == Spec => ResultsAreFinal
<1>1. Init => EvidenceInv
  BY DEF Init, EvidenceInv
<1>2. Base /\ EvidenceInv /\ [Next]_vars => EvidenceInv'
  BY EvidenceStep
<1>3. Base /\ CollectInv /\ EvidenceInv /\ [Next]_vars =>
        \A k \in Keys :
          /\ Ended(k) => /\ execution'[k] = execution[k] /\ owner'[k] = owner[k]
                         /\ exitCode'[k] = exitCode[k] /\ rows'[k] = rows[k]
          /\ evidence[k] # {} => evidence'[k] = evidence[k]
  BY EvidenceStays, EndedStays
<1> QED
  BY <1>1, <1>2, <1>3, BaseAlways, CollectInvAlways, PTL DEF Spec, ResultsAreFinal

(* As long as no controller has died in mid-work, an ended job was launched*)
(* exactly once and its runner has nothing more to write; and if it ended  *)
(* on an exit.json, and commands leave no process behind, its rows are all *)
(* the files that are in its workdir and ever will be.                     *)
THEOREM ExactlyOnceUncrashed ==
  Spec => [](crashes = 0 => \A k \in Keys : Ended(k) =>
               /\ launches[k] = 1 /\ ~busy[k]
               /\ "leftovers" \notin Faults /\ exitCode[k] # "none" =>
                    /\ ~loose[k]
                    /\ rows[k] = {<<n, disk[k][n]>> : n \in Candidates(k)})
<1> DEFINE Exact(k) == /\ launches[k] = 1 /\ ~busy[k]
                       /\ "leftovers" \notin Faults /\ exitCode[k] # "none" =>
                            /\ ~loose[k]
                            /\ rows[k] = {<<n, disk[k][n]>> : n \in Candidates(k)}
<1>1. ASSUME Base, PollInv, CollectionExact, crashes = 0 => SingleLaunch,
             crashes = 0, NEW k \in Keys, Ended(k)
      PROVE  Exact(k)
  <2>1. execution[k] \in TerminalCompute
    BY <1>1 DEF Ended
  <2>2. launches[k] \in Nat /\ launches[k] >= 1
    BY <1>1, <2>1 DEF Base, TypeOK, ProviderTypeOK, SubmittedIsLaunched, TerminalCompute
  <2>3. launches[k] = 1
    BY <1>1, <2>2 DEF SingleLaunch
  <2>4. ~busy[k]
    BY <1>1, <2>1, <2>3 DEF PollInv, Ending, Rested
  <2>5. ASSUME "leftovers" \notin Faults, exitCode[k] # "none"
        PROVE  ~loose[k] /\ rows[k] = {<<n, disk[k][n]>> : n \in Candidates(k)}
    <3>1. disk[k][ExitFile] # "none"
      BY <1>1, <2>1, <2>3, <2>5 DEF PollInv, Ending, Base, TypeOK
    <3>2. ~loose[k]
      BY <1>1, <2>3, <2>5, <3>1 DEF Base, ExitIsLast
    <3> QED BY <1>1, <2>3, <2>5, <3>2 DEF CollectionExact
  <2> QED BY <2>3, <2>4, <2>5
<1>2. Base /\ PollInv /\ CollectionExact /\ (crashes = 0 => SingleLaunch) =>
        (crashes = 0 => \A k \in Keys : Ended(k) => Exact(k))
  BY <1>1
<1> QED
  BY <1>2, BaseAlways, PollInvAlways, CollectionCorrect, OnlyCrashesRelaunch, PTL
-----------------------------------------------------------------------------
(* A controller that lives on: nothing ends it, neither a crash nor --once *)
(* nor an exception.  Runners may be killed and polls may raise.           *)

Up == pc # "down"

(* An ended child is a zombie, and so alive to poll, until another process *)
(* is spawned; and poll spawns none between its two looks.  So a runner    *)
(* that poll reports missing has left no exit.json, and leaves none later. *)
SteadyInv ==
  \A k \in Keys :
    /\ runner[k] # "orphan"
    /\ launches[k] = 1 =>
         /\ call.at = "probe" /\ call.key = k /\ disk[k][ExitFile] # "none" =>
              runner[k] \in {"child", "zombie"}
         /\ call.at = "observed" /\ call.key = k /\ call.saw = "missing" =>
              disk[k][ExitFile] = "none"
         /\ Ending(k) /\ exitCode[k] = "none" => disk[k][ExitFile] = "none"
    /\ execution[k] \in TerminalCompute => execution[k] = Terminal(k)

(* While no controller ends, no runner is orphaned, and none is reaped     *)
(* between the two looks of a poll.                                        *)
LEMMA SteadyMoves ==
  ASSUME Base, [Next]_vars, Up', NEW k \in Keys
  PROVE  /\ runner'[k] = "orphan" => runner[k] = "orphan"
         /\ call.at = "probe" /\ call'.at = "probe" /\ runner[k] \in {"child", "zombie"} =>
              runner'[k] \in {"child", "zombie"}
<1> DEFINE Goal == /\ runner'[k] = "orphan" => runner[k] = "orphan"
                   /\ call.at = "probe" /\ call'.at = "probe" /\ runner[k] \in {"child", "zombie"} =>
                        runner'[k] \in {"child", "zombie"}
<1>0. ProviderTypeOK
  BY DEF Base, TypeOK
<1> USE DEF ProviderTypeOK
<1>1. CASE UNCHANGED runner
  BY <1>1
<1>2. CASE DiscoverResources \/ \E j \in Keys : PrepareAndReserve(j)
  BY <1>0, <1>2 DEF DiscoverResources, PrepareAndReserve, Reaped, Idle
<1>3. CASE Launch
  BY <1>0, <1>3 DEF Launch, Reaped
<1>4. CASE RecordLaunch
  BY <1>0, <1>4 DEF RecordLaunch
<1>5. ASSUME NEW j \in Keys, Workload(j) PROVE Goal
  <2>1. runner' = runner \/ (runner' = Exited(j) /\ (busy[j] \/ runner[j] \in Running))
    BY <1>5
    DEF Workload, Processes, WorkloadWrites, RunnerRecords, RunnerEnds, SurvivorEnds,
        RunnerDies, Killed
  <2>2. busy[j] => runner[j] \in Running
    BY DEF Base, ProcessesCounted
  <2> QED BY <1>0, <2>1, <2>2 DEF Exited, Running
<1>6. /\ ~Crash /\ ~LastTick /\ ~VerifyRaises
      /\ \A t \in Tasks : ~DispatchRaises(t)
      /\ \A n \in Names : ~IngestRaises(n)
  BY DEF Crash, LastTick, VerifyRaises, DispatchRaises, IngestRaises, Forget, Up
<1>7. CASE TickStep
  BY <1>1, <1>2, <1>3, <1>4, <1>6, <1>7
  DEF TickStep, BeginCollect, BeginPoll, BeginReconcileCreated, Select, EndLoop, Collect,
      IngestFile, FinishCollect, Poll, PollExitFile, PollRaises, ReconcileSubmission,
      AnswerKnown, ProbeProcess, PollProcess, RecordObservation, Return, Submit,
      MarkSubmitted, RecoverExpiredLeases, ReconcileReadiness, VerifyCompletedWork,
      BeginDispatch, EndDispatch, Dispatch, pvars
<1> QED
  BY <1>1, <1>5, <1>6, <1>7
  DEF Next, Restart, CreateTask, LeaseExpires, pvars, vars

(* The exit.json of a key launched once is written by its runner.          *)
LEMMA ExitFileMoves ==
  ASSUME Base, [Next]_vars, NEW k \in Keys, launches[k] = 1
  PROVE  disk'[k][ExitFile] = disk[k][ExitFile] \/ busy[k]
<1>0. ProviderTypeOK /\ ProcessesCounted
  BY DEF Base, TypeOK
<1>1. ProviderTypeOK /\ strays[k] = 0
  BY <1>0 DEF ProcessesCounted, ProviderTypeOK
<1>2. ASSUME NEW j \in Keys, Processes(j) \/ Cancel(j)
      PROVE  disk'[k][ExitFile] = disk[k][ExitFile] \/ busy[k]
  BY <1>1, <1>2, FilesEffect
<1>3. CASE Launch
  BY <1>3 DEF Launch
<1>4. CASE ~Launch /\ ~ \E j \in Keys : Processes(j) \/ Cancel(j)
  BY <1>1, <1>4, RunnersFrame, ProviderSteps
<1> QED BY <1>2, <1>3, <1>4

LEMMA SteadyStep ==
  ASSUME Base, PollInv, SteadyInv, [Next]_vars, Up'
  PROVE  SteadyInv'
<1> SUFFICES ASSUME NEW k \in Keys
             PROVE  /\ runner'[k] # "orphan"
                    /\ launches'[k] = 1 =>
                         /\ call'.at = "probe" /\ call'.key = k /\ disk'[k][ExitFile] # "none" =>
                              runner'[k] \in {"child", "zombie"}
                         /\ call'.at = "observed" /\ call'.key = k /\ call'.saw = "missing" =>
                              disk'[k][ExitFile] = "none"
                         /\ execution'[k] \in {"COLLECTING"} \cup TerminalCompute /\ exitCode'[k] = "none" =>
                              disk'[k][ExitFile] = "none"
                    /\ execution'[k] \in TerminalCompute => execution'[k] = Terminal(k)'
  BY DEF SteadyInv, Ending
<1>1. runner'[k] # "orphan"
  BY SteadyMoves DEF SteadyInv
<1>2. ASSUME call'.at = "probe", call'.key = k, launches'[k] = 1, disk'[k][ExitFile] # "none"
      PROVE  runner'[k] \in {"child", "zombie"}
  <2>1. CASE call' = call
    <3>1. Submitted(k)
      BY <1>2, <2>1 DEF PollInv
    <3>2. launches[k] = 1
      BY <1>2, <3>1, SubmittedStays
    <3>3. CASE busy[k]
      <4>1. runner[k] = "child"
        BY <3>3 DEF Base, ProcessesCounted, Running, SteadyInv
      <4> QED BY <1>2, <2>1, <4>1, SteadyMoves
    <3>4. CASE ~busy[k]
      <4>1. runner[k] \in {"child", "zombie"}
        BY <1>2, <2>1, <3>2, <3>4, ExitFileMoves DEF SteadyInv
      <4> QED BY <1>2, <2>1, <4>1, SteadyMoves
    <3> QED BY <3>3, <3>4
  <2>2. CASE PollExitFile(k) \/ PollRaises(k)
    BY <1>2, <2>2 DEF PollExitFile, PollRaises, At
  <2>3. CASE PollProcess
    BY <1>2, <2>3 DEF PollProcess, At
  <2> QED BY <1>2, <2>1, <2>2, <2>3, PollMoves DEF Base
<1>3. ASSUME call'.at = "observed", call'.key = k, call'.saw = "missing", launches'[k] = 1
      PROVE  disk'[k][ExitFile] = "none"
  <2>1. CASE call' = call
    <3>1. Submitted(k) /\ Rested(k)
      BY <1>3, <2>1 DEF PollInv
    <3>2. launches[k] = 1 /\ disk'[k][ExitFile] = disk[k][ExitFile]
      BY <1>3, <3>1, RestedStays
    <3> QED BY <1>3, <2>1, <3>2 DEF SteadyInv
  <2>2. CASE PollExitFile(k) \/ PollRaises(k)
    <3>1. disk[k][ExitFile] \in ExitCodes \cup {"none"}
      BY DEF Base, TypeOK, ProviderTypeOK
    <3> QED BY <1>3, <2>2, <3>1, CodesAssumption DEF PollExitFile, PollRaises, At
  <2>3. CASE PollProcess /\ call.key = k
    <3>1. Submitted(k) /\ record[k] = "LAUNCHED" /\ ~Alive(k)
      BY <1>3, <2>3 DEF PollProcess, PollInv, Base, SubmittedIsLaunched, Submitted, At
    <3>2. launches[k] = 1
      BY <1>3, <3>1, SubmittedStays
    <3>3. disk[k][ExitFile] = "none"
      BY <2>3, <3>1, <3>2 DEF PollProcess, Alive, Known, Running, SteadyInv
    <3> QED BY <2>3, <3>3 DEF PollProcess
  <2> QED BY <1>3, <2>1, <2>2, <2>3, PollMoves DEF Base
<1>4. ASSUME execution'[k] \in {"COLLECTING"} \cup TerminalCompute, exitCode'[k] = "none",
             launches'[k] = 1
      PROVE  disk'[k][ExitFile] = "none"
  <2>1. CASE Ending(k)
    <3>1. Submitted(k) /\ Rested(k)
      BY <2>1 DEF PollInv, Ending, Submitted, TerminalCompute
    <3>2. launches[k] = 1 /\ disk'[k][ExitFile] = disk[k][ExitFile]
      BY <1>4, <3>1, RestedStays
    <3>3. exitCode[k] = "none"
      BY <1>4, <2>1, PollMoves DEF Base, Ending, POLLABLE, TerminalCompute
    <3> QED BY <2>1, <3>2, <3>3 DEF SteadyInv
  <2>2. CASE ~Ending(k)
    <3>1. execution'[k] = "COLLECTING" /\ execution[k] # "COLLECTING"
      BY <1>4, <2>2, JobMoves DEF Base, JobMove, JobMoved, Ending, TerminalCompute
    <3>2. call.at = "observed" /\ call.key = k /\ call.saw = "missing"
      BY <1>4, <3>1, PollMoves, CodesAssumption DEF Base, ExitCodeOf
    <3>3. Submitted(k) /\ Rested(k)
      BY <3>2 DEF PollInv
    <3>4. launches[k] = 1 /\ disk'[k][ExitFile] = disk[k][ExitFile]
      BY <1>4, <3>3, RestedStays
    <3> QED BY <3>2, <3>4 DEF SteadyInv
  <2> QED BY <2>1, <2>2
<1>5. ASSUME execution'[k] \in TerminalCompute PROVE execution'[k] = Terminal(k)'
  <2>1. execution[k] \in TerminalCompute \/ JobMoved(k, "COLLECTING", Terminal(k))
    BY <1>5, JobMoves DEF Base, JobMove, JobMoved, TerminalCompute
  <2>2. execution[k] \notin POLLABLE
    BY <2>1 DEF JobMoved, POLLABLE, TerminalCompute
  <2>3. exitCode'[k] = exitCode[k]
    BY <2>2, PollMoves DEF Base
  <2>4. execution'[k] = Terminal(k)
    <3>1. CASE JobMoved(k, "COLLECTING", Terminal(k))
      BY <3>1 DEF JobMoved
    <3>2. CASE execution[k] \in TerminalCompute
      <4>1. execution'[k] = execution[k]
        BY <3>2, JobMoves
        DEF Base, JobMove, JobMoved, TerminalCompute, POLLABLE, WorkInv, JobsFollowDispatch
      <4> QED BY <3>2, <4>1 DEF SteadyInv
    <3> QED BY <2>1, <3>1, <3>2
  <2> QED BY <2>3, <2>4 DEF Terminal
<1> QED BY <1>1, <1>2, <1>3, <1>4, <1>5

(* While one controller lives on, what a runner wrote to exit.json is what *)
(* its job reports, whichever runners are killed, whatever their workloads *)
(* go on to do and whatever polls raise.                                   *)
THEOREM SteadyExitIsBelieved == Spec /\ []Up => []ExitIsBelieved
<1>1. ASSUME Init PROVE SteadyInv
  <2>1. /\ call.at = "idle"
        /\ \A k \in Keys : /\ runner[k] = "none" /\ disk[k][ExitFile] = "none"
                           /\ execution[k] \notin {"COLLECTING"} \cup TerminalCompute
    BY <1>1, NamesAssumption, Zenon DEF Init, ProviderInit, TerminalCompute, Idle
  <2> QED BY <2>1 DEF SteadyInv, Ending
<1>2. Base /\ PollInv /\ SteadyInv /\ [Next]_vars /\ Up' => SteadyInv'
  BY SteadyStep
<1>3. Base /\ PollInv /\ SteadyInv => ExitIsBelieved
  <2> SUFFICES ASSUME Base, PollInv, SteadyInv,
                      NEW k \in Keys, launches[k] = 1, Ended(k), disk[k][ExitFile] = "good"
               PROVE  execution[k] = "SUCCEEDED"
    BY DEF ExitIsBelieved
  <2>1. Ending(k)
    BY DEF Ended, Ending
  <2>2. exitCode[k] \in ExitCodes
    BY <2>1 DEF SteadyInv, Base, TypeOK
  <2> QED BY <2>1, <2>2 DEF PollInv, SteadyInv, Ended, Terminal
<1> QED BY <1>1, <1>2, <1>3, BaseAlways, PollInvAlways, PTL DEF Spec

=============================================================================
