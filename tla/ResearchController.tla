-------------------------- MODULE ResearchController --------------------------
(***************************************************************************)
(* The controller's tick over its SQLite database, composed with the local *)
(* provider.  Every database transaction is one step; everything a tick    *)
(* remembers between two transactions (`pc', `todo', `ready', `cur',       *)
(* `files') is lost in a crash, and the database, the submission records   *)
(* and the workdirs are not.  Tasks are COMPUTE tasks of ACTIVE projects.  *)
(***************************************************************************)
EXTENDS LocalProvider, Lifecycle

CONSTANTS
  Tasks,
  NoTask,
  KeyOf,        \* submission_key in the spec of a task
  Deps,         \* dependency_ids of a task
  Rank,         \* place of a task in ORDER BY priority DESC, created_at
  Infeasible,   \* tasks whose requirements no provider offer meets
  MaxAttempts,  \* max_attempts
  Required,     \* required artifacts; exit.json always is
  Checked,      \* artifacts the metrics validators open
  Evidence      \* outputs declared evidence_candidate

ASSUME TasksAssumption ==
  /\ NoTask \notin Tasks
  /\ KeyOf \in [Tasks -> Keys]
  /\ Deps \in [Tasks -> SUBSET Tasks]
  /\ Rank \in [Tasks -> Nat]
  /\ Infeasible \subseteq Tasks
  /\ MaxAttempts \in Nat \ {0}
ASSUME ArtifactsAssumption ==
  /\ ExitFile \in Required /\ Required \subseteq Names
  /\ Checked \subseteq Names \ {ExitFile}
  /\ Evidence \subseteq Names \ {ExitFile}

VARIABLES
  status, attempts, lease,                 \* tasks
  execution, owner, exitCode, observation, \* compute_jobs, by submission key
  rows, evidence,                          \* artifacts, by the key of their job
  pc, todo, ready, cur, files              \* memory of the running tick

board == <<status, attempts, lease>>
jobs == <<execution, owner, exitCode, observation>>
artifacts == <<rows, evidence>>
tick == <<pc, todo, ready, cur, files>>
vars == <<pvars, board, jobs, artifacts, tick>>

\* The phases of a tick; a phase in -ing works through what was selected.
Follows ==
  [ collect1   |-> "collecting1", collecting1 |-> "poll",
    poll       |-> "polling",     polling     |-> "collect2",
    collect2   |-> "collecting2", collecting2 |-> "leases",
    leases     |-> "submit",      submit      |-> "submitting",
    submitting |-> "ready",       ready       |-> "verify",
    verify     |-> "dispatch",    dispatch    |-> "dispatching",
    dispatching |-> "collect1" ]

Collecting == {"collecting1", "collecting2"}

TypeOK ==
  /\ ProviderTypeOK
  /\ status \in [Tasks -> TaskStatus \cup {"ABSENT"}]
  /\ attempts \in [Tasks -> Nat]
  /\ lease \in [Tasks -> {"none", "held", "expired"}]
  /\ execution \in [Keys -> ComputeExecutionStatus \cup {"ABSENT"}]
  /\ owner \in [Keys -> Tasks \cup {NoTask}]
  /\ exitCode \in [Keys -> ExitCodes \cup {"none"}]
  /\ observation \in [Keys -> {"FRESH", "POLL_ERROR"}]
  /\ rows \in [Keys -> SUBSET (Names \X Contents)]
  /\ evidence \in [Keys -> SUBSET (Names \X Contents)]
  /\ pc \in DOMAIN Follows \cup {"down"}
  /\ todo \subseteq Keys
  /\ ready \subseteq Tasks
  /\ cur \in Keys \cup {NoKey}
  /\ files \subseteq Names

Init ==
  /\ ProviderInit
  /\ status = [t \in Tasks |-> "ABSENT"]
  /\ attempts = [t \in Tasks |-> 0]
  /\ lease = [t \in Tasks |-> "none"]
  /\ execution = [k \in Keys |-> "ABSENT"]
  /\ owner = [k \in Keys |-> NoTask]
  /\ exitCode = [k \in Keys |-> "none"]
  /\ observation = [k \in Keys |-> "FRESH"]
  /\ rows = [k \in Keys |-> {}]
  /\ evidence = [k \in Keys |-> {}]
  /\ pc = "collect1"
  /\ todo = {} /\ ready = {} /\ cur = NoKey /\ files = {}

-----------------------------------------------------------------------------
(* Clients and the clock.                                                  *)

\* create_task refuses a dependency that is not in the database; t itself is
\* in it by then.
CreateTask(t) ==
  /\ status[t] = "ABSENT"
  /\ \A d \in Deps[t] \ {t} : status[d] # "ABSENT"
  /\ status' = [status EXCEPT ![t] = "PENDING"]
  /\ UNCHANGED <<pvars, attempts, lease, jobs, artifacts, tick>>

LeaseExpires(t) ==
  /\ lease[t] = "held"
  /\ lease' = [lease EXCEPT ![t] = "expired"]
  /\ UNCHANGED <<pvars, status, attempts, jobs, artifacts, tick>>

\* A select and the start of the loop over what it returned.
Select(phase, keys) ==
  /\ pc = phase
  /\ pc' = Follows[pc]
  /\ todo' = keys
  /\ UNCHANGED <<pvars, board, jobs, artifacts, ready, cur, files>>

EndLoop ==
  /\ pc \in Collecting \cup {"polling", "submitting"}
  /\ todo = {} /\ cur = NoKey /\ call = Idle
  /\ pc' = Follows[pc]
  /\ UNCHANGED <<pvars, board, jobs, artifacts, todo, ready, cur, files>>
-----------------------------------------------------------------------------
(* _reconcile_collecting, before and after polling.                        *)

BeginCollect ==
  \E phase \in {"collect1", "collect2"} :
    Select(phase, {k \in Keys : execution[k] = "COLLECTING"})

Collect(k) ==
  /\ pc \in Collecting
  /\ cur = NoKey
  /\ k \in todo
  /\ cur' = k
  /\ files' = Candidates(k)
  /\ todo' = todo \ {k}
  /\ UNCHANGED <<pvars, board, jobs, artifacts, pc, ready>>

\* exit.json is listed before the outputs.
IsNextFile(n) == cur # NoKey /\ n \in files /\ (n = ExitFile \/ ExitFile \notin files)

\* ingest_file of a file that is still there; the digest is taken now.
IngestFile(n) ==
  /\ IsNextFile(n)
  /\ disk[cur][n] # "none"
  /\ rows' = [rows EXCEPT ![cur] = @ \cup {<<n, disk[cur][n]>>}]
  /\ files' = files \ {n}
  /\ UNCHANGED <<pvars, board, jobs, evidence, pc, todo, ready, cur>>

\* observed_terminal_status, as the last poll left it.
Terminal(k) == IF exitCode[k] = "good" THEN "SUCCEEDED" ELSE "FAILED"

\* Mutant of FinishCollect: the job ends before its files are ingested.
MutFinishCollect ==
  /\ cur # NoKey
  /\ cur' = NoKey
  /\ files' = {}
  /\ execution' = [execution EXCEPT ![cur] = Terminal(cur)]
  /\ status' = [t \in Tasks |->
       IF t = owner[cur] /\ status[t] = "RUNNING" THEN "VERIFYING" ELSE status[t]]
  /\ UNCHANGED <<pvars, attempts, lease, owner, exitCode, observation,
                 artifacts, pc, todo, ready>>

\* Mutant of FinishCollect: the task is left for a later transaction.
MutJobOnly ==
  /\ cur # NoKey
  /\ files = {}
  /\ cur' = NoKey
  /\ execution' = [execution EXCEPT ![cur] = Terminal(cur)]
  /\ UNCHANGED <<pvars, board, owner, exitCode, observation, artifacts, pc,
                 todo, ready, files>>

\* One transaction ends the job and hands its task over to verification.
FinishCollect ==
  LET k == cur
      collecting == k # NoKey /\ execution[k] = "COLLECTING" IN
  /\ cur # NoKey
  /\ files = {}
  /\ cur' = NoKey
  /\ execution' = [execution EXCEPT ![k] = IF collecting THEN Terminal(k) ELSE @]
  /\ status' = [t \in Tasks |->
       IF collecting /\ t = owner[k] /\ status[t] = "RUNNING"
         THEN "VERIFYING" ELSE status[t]]
  /\ UNCHANGED <<pvars, attempts, lease, owner, exitCode, observation,
                 artifacts, pc, todo, ready, files>>
-----------------------------------------------------------------------------
(* Polling.                                                                *)

\* next_poll_at is null until the first poll of a job, and then any time.
BeginPoll(due) ==
  /\ {k \in Keys : execution[k] = "SUBMITTED" /\ observation[k] = "FRESH"} \subseteq due
  /\ due \subseteq {k \in Keys : execution[k] \in POLLABLE}
  /\ Select("poll", due)

Poll(k) ==
  /\ pc = "polling"
  /\ k \in todo
  /\ PollExitFile(k) \/ PollRaises(k)
  /\ todo' = todo \ {k}
  /\ UNCHANGED <<board, jobs, artifacts, pc, ready, cur, files>>

ProbeProcess ==
  /\ PollProcess
  /\ UNCHANGED <<board, jobs, artifacts, tick>>

\* Mutant of ExitCodeOf: poll makes up an exit code for a missing process.
MutExitCodeOf(saw) == saw

\* A process that is missing has no exit code.
ExitCodeOf(saw) == IF saw = "missing" THEN "none" ELSE saw

\* _record_observation, or the handler of an exception raised by poll.
RecordObservation ==
  LET k == call.key
      saw == call.saw
      ended == saw \in ExitCodes \cup {"missing"}
      believed == saw # "error" /\ execution[k] \in POLLABLE IN
  /\ call.at = "observed"
  /\ Return
  /\ observation' = [observation EXCEPT ![k] =
       IF saw = "error" THEN "POLL_ERROR" ELSE IF believed THEN "FRESH" ELSE @]
  /\ execution' = [execution EXCEPT ![k] =
       IF ~believed THEN @ ELSE IF ended THEN "COLLECTING" ELSE "RUNNING"]
  /\ exitCode' = [exitCode EXCEPT ![k] =
       IF believed /\ ended THEN ExitCodeOf(saw) ELSE @]
  /\ UNCHANGED <<board, owner, artifacts, tick>>
-----------------------------------------------------------------------------
(* Leases.                                                                 *)

HasExternalWork(t) ==
  owner[KeyOf[t]] = t /\ execution[KeyOf[t]] \in NONTERMINAL_COMPUTE

Expired(t) == lease[t] = "expired" /\ status[t] \in {"READY", "RUNNING"}

Abandoned(t) == Expired(t) /\ status[t] = "RUNNING" /\ ~HasExternalWork(t)

\* Mutant of AfterAbandon: the attempt that is over is not counted.
MutAfterAbandon(t) == IF attempts[t] <= MaxAttempts THEN "READY" ELSE "FAILED"

\* FAILED, and READY again in the same transaction while attempts are left.
AfterAbandon(t) == IF attempts[t] < MaxAttempts THEN "READY" ELSE "FAILED"

RecoverExpiredLeases ==
  /\ pc = "leases"
  /\ pc' = Follows[pc]
  /\ lease' = [t \in Tasks |-> IF Expired(t) THEN "none" ELSE lease[t]]
  /\ status' = [t \in Tasks |-> IF Abandoned(t) THEN AfterAbandon(t) ELSE status[t]]
  /\ UNCHANGED <<pvars, attempts, jobs, artifacts, todo, ready, cur, files>>
-----------------------------------------------------------------------------
(* reconcile_created.                                                      *)

\* Mutant of BeginReconcileCreated: only jobs due for a poll, as no new job is.
MutBeginReconcileCreated ==
  Select("submit", {k \in Keys : execution[k] = "CREATED" /\ observation[k] # "FRESH"})

BeginReconcileCreated == Select("submit", {k \in Keys : execution[k] = "CREATED"})

ReconcileSubmission(k) ==
  /\ pc = "submitting"
  /\ k \in todo
  /\ AnswerKnown(k) \/ PrepareAndReserve(k)
  /\ todo' = todo \ {k}
  /\ UNCHANGED <<board, jobs, artifacts, pc, ready, cur, files>>

Submit ==
  /\ Launch \/ RecordLaunch
  /\ UNCHANGED <<board, jobs, artifacts, tick>>

MarkSubmitted ==
  /\ call.at = "returned"
  /\ Return
  /\ execution' = [execution EXCEPT ![call.key] = IF @ = "CREATED" THEN "SUBMITTED" ELSE @]
  /\ UNCHANGED <<board, owner, exitCode, observation, artifacts, tick>>
-----------------------------------------------------------------------------
(* Readiness and verification, one transaction each.                       *)

\* Mutant of DependenciesMet: it is enough that the dependencies have ended.
MutDependenciesMet(t) == \A d \in Deps[t] : status[d] \in {"SUCCEEDED", "FAILED"}

DependenciesMet(t) == \A d \in Deps[t] : status[d] = "SUCCEEDED"

ReconcileReadiness ==
  /\ pc = "ready"
  /\ pc' = Follows[pc]
  /\ status' = [t \in Tasks |->
       IF status[t] = "PENDING" /\ DependenciesMet(t) THEN "READY" ELSE status[t]]
  /\ UNCHANGED <<pvars, attempts, lease, jobs, artifacts, todo, ready, cur, files>>

\* Mutant of Passes: the metrics validators look at no file.
MutPasses(t) ==
  LET k == KeyOf[t] IN
  /\ owner[k] = t /\ exitCode[k] = "good" /\ execution[k] = "SUCCEEDED"
  /\ \A n \in Required : \E c \in Contents : <<n, c>> \in rows[k]

\* validate_compute_task: every stored version of a checked file is opened.
Passes(t) ==
  LET k == KeyOf[t] IN
  /\ owner[k] = t
  /\ exitCode[k] = "good"
  /\ execution[k] = "SUCCEEDED"
  /\ \A n \in Required : \E c \in Contents : <<n, c>> \in rows[k]
  /\ Checked # {} => \E n \in Checked, c \in Contents : <<n, c>> \in rows[k]
  /\ \A n \in Checked : <<n, "bad">> \notin rows[k]

\* The metrics validators cannot decode a stored version of a checked file.
Undecodable(t) ==
  LET k == KeyOf[t] IN owner[k] = t /\ \E n \in Checked : <<n, "garbled">> \in rows[k]

\* Mutant of VerifyCompletedWork: evidence is marked before the reasons are in.
MutVerifyCompletedWork ==
  LET verifying == {t \in Tasks : status[t] = "VERIFYING"} IN
  /\ pc = "verify"
  /\ ~ \E t \in verifying : Undecodable(t)
  /\ pc' = Follows[pc]
  /\ status' = [t \in Tasks |->
       IF t \notin verifying THEN status[t] ELSE IF Passes(t) THEN "SUCCEEDED" ELSE "FAILED"]
  /\ lease' = [t \in Tasks |-> IF t \in verifying THEN "none" ELSE lease[t]]
  /\ evidence' = [k \in Keys |-> IF owner[k] \in verifying
       THEN {r \in rows[k] : r[1] \in Evidence} ELSE evidence[k]]
  /\ UNCHANGED <<pvars, attempts, jobs, rows, todo, ready, cur, files>>

VerifyCompletedWork ==
  LET verifying == {t \in Tasks : status[t] = "VERIFYING"} IN
  /\ pc = "verify"
  /\ ~ \E t \in verifying : Undecodable(t)
  /\ pc' = Follows[pc]
  /\ status' = [t \in Tasks |->
       IF t \notin verifying THEN status[t] ELSE IF Passes(t) THEN "SUCCEEDED" ELSE "FAILED"]
  /\ lease' = [t \in Tasks |-> IF t \in verifying THEN "none" ELSE lease[t]]
  /\ evidence' = [k \in Keys |->
       IF owner[k] \in verifying /\ KeyOf[owner[k]] = k /\ Passes(owner[k])
         THEN {r \in rows[k] : r[1] \in Evidence} ELSE evidence[k]]
  /\ UNCHANGED <<pvars, attempts, jobs, rows, todo, ready, cur, files>>
-----------------------------------------------------------------------------
(* dispatch_ready.                                                         *)

BeginDispatch ==
  /\ pc = "dispatch"
  /\ pc' = Follows[pc]
  /\ ready' = {t \in Tasks : status[t] = "READY"}
  /\ UNCHANGED <<pvars, board, jobs, artifacts, todo, cur, files>>

IsNext(t) == pc = "dispatching" /\ t \in ready /\ \A u \in ready : Rank[t] <= Rank[u]

\* One transaction.  A job row of the same submission_key is reused, whichever
\* task it belongs to.
StartAttempt(t) ==
  LET k == KeyOf[t]
      new == owner[k] = NoTask IN
  /\ owner' = [owner EXCEPT ![k] = IF new THEN t ELSE @]
  /\ execution' = [execution EXCEPT ![k] = IF new THEN "CREATED" ELSE @]
  /\ status' = [status EXCEPT ![t] = "RUNNING"]
  /\ attempts' = [attempts EXCEPT ![t] = @ + 1]
  /\ lease' = [lease EXCEPT ![t] = "held"]

\* Routing and prepare come before the transaction.
Dispatch(t) ==
  /\ IsNext(t)
  /\ ready' = ready \ {t}
  /\ IF status[t] = "READY"
       THEN t \notin Infeasible /\ DiscoverResources /\ StartAttempt(t)
       ELSE UNCHANGED <<pvars, board, owner, execution>>
  /\ UNCHANGED <<exitCode, observation, artifacts, pc, todo, cur, files>>

EndDispatch ==
  /\ pc = "dispatching"
  /\ ready = {}
  /\ pc' = Follows[pc]
  /\ UNCHANGED <<pvars, board, jobs, artifacts, todo, ready, cur, files>>
-----------------------------------------------------------------------------
(* The end and the restart of the controller process.                      *)

Forget == pc' = "down" /\ todo' = {} /\ ready' = {} /\ cur' = NoKey /\ files' = {}

\* The router finds no feasible provider; nothing catches its RuntimeError.
DispatchRaises(t) ==
  /\ IsNext(t)
  /\ t \in Infeasible
  /\ status[t] = "READY"
  /\ ControllerEnds
  /\ Forget
  /\ UNCHANGED <<board, jobs, artifacts>>

\* A listed file is gone, or is rewritten between its hash and its copy: neither
\* FileNotFoundError nor IOError is caught, and the job stays COLLECTING.
IngestRaises(n) ==
  /\ IsNextFile(n)
  /\ disk[cur][n] = "none" \/ MayChange(cur, n)
  /\ ControllerEnds
  /\ Forget
  /\ UNCHANGED <<board, jobs, artifacts>>

\* UnicodeDecodeError is no JSONDecodeError: the transaction, with the verdicts of
\* the other tasks in it, is rolled back.
VerifyRaises ==
  /\ pc = "verify"
  /\ \E t \in Tasks : status[t] = "VERIFYING" /\ Undecodable(t)
  /\ ControllerEnds
  /\ Forget
  /\ UNCHANGED <<board, jobs, artifacts>>

\* run --once and run --until-idle return after a tick.
LastTick ==
  /\ "run_once" \in Faults
  /\ pc = "dispatching" /\ ready = {}
  /\ ControllerEnds
  /\ Forget
  /\ UNCHANGED <<board, jobs, artifacts>>

Crash ==
  /\ pc # "down"
  /\ ControllerCrash \/ SubmitRaises
  /\ Forget
  /\ UNCHANGED <<board, jobs, artifacts>>

Restart ==
  /\ pc = "down"
  /\ pc' = "collect1"
  /\ UNCHANGED <<pvars, board, jobs, artifacts, todo, ready, cur, files>>

Workload(k) ==
  /\ Processes(k)
  /\ UNCHANGED <<board, jobs, artifacts, tick>>
-----------------------------------------------------------------------------
TickStep ==
  \/ BeginCollect \/ FinishCollect \/ EndLoop
  \/ \E k \in Keys : Collect(k) \/ Poll(k) \/ ReconcileSubmission(k)
  \/ \E n \in Names : IngestFile(n) \/ IngestRaises(n)
  \/ \E due \in SUBSET Keys : BeginPoll(due)
  \/ ProbeProcess \/ RecordObservation \/ RecoverExpiredLeases
  \/ BeginReconcileCreated \/ Submit \/ MarkSubmitted
  \/ ReconcileReadiness \/ VerifyCompletedWork \/ VerifyRaises
  \/ BeginDispatch \/ EndDispatch
  \/ \E t \in Tasks : Dispatch(t) \/ DispatchRaises(t)

Next ==
  \/ TickStep \/ LastTick \/ Crash \/ Restart
  \/ \E k \in Keys : Workload(k)
  \/ \E t \in Tasks : CreateTask(t) \/ LeaseExpires(t)

Spec == Init /\ [][Next]_vars

(***************************************************************************)
(* The controller is one process that keeps running or is restarted; a     *)
(* workload ends, and so does what survives it; leases and poll intervals  *)
(* run out, so a job that goes on being pollable is selected in some later *)
(* tick.                                                                   *)
(***************************************************************************)
Fairness ==
  /\ WF_vars(TickStep)
  /\ WF_vars(Restart)
  /\ \A t \in Tasks : WF_vars(LeaseExpires(t))
  /\ \A k \in Keys :
       /\ WF_vars(RunnerRecords(k) /\ UNCHANGED <<board, jobs, artifacts, tick>>)
       /\ WF_vars(SurvivorEnds(k) /\ UNCHANGED <<board, jobs, artifacts, tick>>)
       /\ SF_vars(\E due \in SUBSET Keys : k \in due /\ BeginPoll(due))

FairSpec == Spec /\ Fairness
-----------------------------------------------------------------------------
(* Safety.                                                                 *)

Own(t) == owner[KeyOf[t]] = t

SharesKey(t) == \E u \in Tasks \ {t} : KeyOf[u] = KeyOf[t]

Ended(k) == execution[k] \in TerminalCompute

(* A task leaves PENDING only when all its dependencies have SUCCEEDED, and*)
(* nothing that happens later (retries, crashes) takes that away from it.  *)
DependenciesRespected ==
  \A t \in Tasks : status[t] \notin {"ABSENT", "PENDING"} =>
    \A d \in Deps[t] : status[d] = "SUCCEEDED"

(* A RUNNING task with a submission key of its own has a compute job that  *)
(* has not ended, at every point where another transaction or a crash can  *)
(* come in between.  So an expired lease never fails such a task.          *)
RunningHasLiveJob ==
  \A t \in Tasks : status[t] = "RUNNING" /\ ~SharesKey(t) =>
    Own(t) /\ execution[KeyOf[t]] \notin TerminalCompute \cup {"ABSENT"}

(* A job row belongs to a task of its submission key, and while no other   *)
(* task has that key, the task it belongs to is past READY: the row is     *)
(* made with the dispatch and never met again by another one.              *)
JobsFollowDispatch ==
  /\ \A k \in Keys :
       IF owner[k] = NoTask THEN execution[k] = "ABSENT"
       ELSE KeyOf[owner[k]] = k /\ execution[k] # "ABSENT"
  /\ \A t \in Tasks : Own(t) /\ ~SharesKey(t) =>
       status[t] \notin {"ABSENT", "PENDING", "READY"}

(* recover_expired_leases takes no task of this kind from RUNNING: "Expired*)
(* Task leases recover without duplicating known external work".           *)
LeaseSparesLiveWork ==
  [][\A t \in Tasks : status[t] = "RUNNING" /\ ~SharesKey(t) =>
       status'[t] \in {"RUNNING", "VERIFYING"}]_vars

(* The database believes a job is submitted only when a submission record  *)
(* names the process that runs it, whatever crashed in between.            *)
SubmittedIsLaunched ==
  \A k \in Keys : execution[k] \notin {"ABSENT", "CREATED"} =>
    record[k] = "LAUNCHED" /\ launches[k] >= 1

(* Collection starts only when the runner has nothing more to record: its  *)
(* exit.json is in place, or it is dead.  So the verdict of a key launched *)
(* once never misses an exit.json that comes later, although poll looks at *)
(* the file and at the process at two times, and although the workload of  *)
(* a killed runner may go on changing its outputs.                         *)
CollectAfterExit ==
  \A k \in Keys : launches[k] = 1 /\ execution[k] \in {"COLLECTING"} \cup TerminalCompute =>
    ~busy[k]

(* When a job has ended on the exit.json of its only launch, its artifact  *)
(* rows are the files of the workdir, each in the one version it has,      *)
(* however often the collection was cut off and repeated, by crashes or by *)
(* an ingestion that raised.  It needs a command that leaves no process    *)
(* behind; and of a job that ended without an exit.json it does not hold:  *)
(* its runner may have been killed alone.                                  *)
CollectionExact ==
  "leftovers" \notin Faults =>
    \A k \in Keys : launches[k] = 1 /\ Ended(k) /\ exitCode[k] # "none" =>
      rows[k] = {<<n, disk[k][n]>> : n \in Candidates(k)}

(* A SUCCEEDED task owns a job that ended in success and left every        *)
(* required artifact; every stored version of its metrics is good, and the *)
(* exit.json it keeps says 0 unless a second launch wrote another one: the *)
(* validators ask that exit.json be stored, not what it says.              *)
SuccessIsEarned ==
  \A t \in Tasks : status[t] = "SUCCEEDED" =>
    LET k == KeyOf[t] IN
    /\ Own(t) /\ execution[k] = "SUCCEEDED"
    /\ launches[k] = 1 => <<ExitFile, "good">> \in rows[k]
    /\ \A n \in Required : \E c \in Contents : <<n, c>> \in rows[k]
    /\ \A n \in Checked, c \in Contents : <<n, c>> \in rows[k] => c = "good"

(* Rows are marked as evidence only for a task that SUCCEEDED.             *)
EvidenceOnlyFromSuccess ==
  \A k \in Keys : evidence[k] # {} =>
    evidence[k] \subseteq rows[k] /\ status[owner[k]] = "SUCCEEDED"

(* max_attempts bounds the dispatches of a task, and one that waits for a  *)
(* dispatch still has an attempt left.                                     *)
AttemptsBounded ==
  \A t \in Tasks :
    /\ attempts[t] <= MaxAttempts
    /\ status[t] \in {"ABSENT", "PENDING", "READY"} => attempts[t] < MaxAttempts

(* No step asks TransitionService for a move it would refuse: such a move  *)
(* raises InvalidTransition, and nothing above it catches that.  A lease   *)
(* recovery makes two moves in one transaction, RUNNING -> FAILED -> READY.*)
LegalMoves ==
  [][/\ \A t \in Tasks : status[t] \notin {"ABSENT", status'[t]} =>
          \/ status'[t] \in TASK_TRANSITIONS[status[t]]
          \/ /\ pc = "leases"
             /\ "FAILED" \in TASK_TRANSITIONS[status[t]]
             /\ status'[t] \in TASK_TRANSITIONS["FAILED"]
     /\ \A k \in Keys : execution[k] \notin {"ABSENT", execution'[k]} =>
          execution'[k] \in COMPUTE_TRANSITIONS[execution[k]]]_vars

(* What a workload recorded in exit.json is what its job reports.  It holds*)
(* while one controller lives on (its ended child is a zombie, which poll  *)
(* takes for alive) and fails after a restart: poll looks for exit.json    *)
(* before it looks for the process.                                        *)
ExitIsBelieved ==
  \A k \in Keys : launches[k] = 1 /\ Ended(k) /\ disk[k][ExitFile] = "good" =>
    execution[k] = "SUCCEEDED"

(* What the client sees of its tasks: the board, on which only a task that *)
(* shares its submission key can lose an attempt.  Ticks, crashes, leases  *)
(* and jobs show in it as the board's own steps or not at all.             *)
Board == INSTANCE TaskBoard WITH Requeueable <- {t \in Tasks : SharesKey(t)}

ImplementsBoard == Board!BoardSpec

(* A task with a submission key of its own is dispatched exactly once.     *)
AttemptOnce == Board!AttemptOnce
-----------------------------------------------------------------------------
(* Liveness.                                                               *)

Active == {"READY", "RUNNING", "VERIFYING"}

(* A task that some offer suits gets a verdict once it is READY, RUNNING or *)
(* being verified: every tick ends, and ends by dispatching all such tasks *)
(* (README, "Controller tick order").                                      *)
ActiveSettles ==
  \A t \in Tasks \ Infeasible : status[t] \in Active ~> status[t] \in {"SUCCEEDED", "FAILED"}

(* A collection that has begun comes to its end, although an output that   *)
(* was listed may be gone, or be rewritten, when ingest_file opens it, and *)
(* end the controller: a later tick lists the outputs anew.                *)
CollectionEnds ==
  \A k \in Keys : execution[k] = "COLLECTING" ~> Ended(k)

(* Every task does, as README has it of run --until-idle: "run until all   *)
(* current work is terminal".                                              *)
AllWorkSettles ==
  \A t \in Tasks :
    status[t] # "ABSENT" ~> status[t] \in {"SUCCEEDED", "FAILED", "CANCELLED", "SKIPPED"}

=============================================================================
