-------------------------- MODULE LocalProviderProofs --------------------------
(***************************************************************************)
(* Proofs about LocalProvider, for any set of keys and files and any       *)
(* number of crashes.                                                      *)
(***************************************************************************)
EXTENDS LocalProvider, TLAPS

(* The processes of a key leave their own tables and the workdirs typed.   *)
LEMMA ProcessesType ==
  ASSUME ProviderTypeOK, NEW k \in Keys, Processes(k) \/ Cancel(k)
  PROVE  ProviderTypeOK'
<1> USE DEF ProviderTypeOK, RunnerLife, Running, workloads
<1>1. CASE WorkloadWrites(k)
  <2>1. PICK n \in Names \ {ExitFile}, c \in Contents \cup {"none"} :
          disk' = [disk EXCEPT ![k][n] = c]
    BY <1>1 DEF WorkloadWrites
  <2>2. disk' \in [Keys -> [Names -> Contents \cup {"none"}]]
    BY <2>1
  <2>3. \A j \in Keys : disk'[j][ExitFile] = disk[j][ExitFile]
    BY <2>1, NamesAssumption
  <2> QED BY <1>1, <2>2, <2>3 DEF WorkloadWrites
<1>2. CASE RunnerRecords(k)
  <2>1. PICK code \in ExitCodes : disk' = [disk EXCEPT ![k][ExitFile] = code]
    BY <1>2 DEF RunnerRecords
  <2>2. code \in Contents
    BY CodesAssumption DEF Contents
  <2>3. disk' \in [Keys -> [Names -> Contents \cup {"none"}]]
    BY <2>1, <2>2, NamesAssumption
  <2>4. \A j \in Keys : disk'[j][ExitFile] \in ExitCodes \cup {"none"}
    BY <2>1, NamesAssumption
  <2>5. busy' = busy \/ busy' = [busy EXCEPT ![k] = FALSE]
    BY <1>2, Zenon DEF RunnerRecords
  <2>6. busy' \in [Keys -> BOOLEAN]
    BY <2>5
  <2>7. strays' \in [Keys -> Nat]
    BY <1>2 DEF RunnerRecords
  <2>8. loose' \in [Keys -> BOOLEAN]
    BY <1>2 DEF RunnerRecords, Survives
  <2> QED BY <1>2, <2>3, <2>4, <2>6, <2>7, <2>8 DEF RunnerRecords
<1>3. CASE RunnerEnds(k)
  BY <1>3 DEF RunnerEnds, Exited
<1>4. CASE SurvivorEnds(k)
  BY <1>4 DEF SurvivorEnds
<1>5. CASE RunnerDies(k) \/ Cancel(k)
  <2>1. loose' = loose \/ loose' = [loose EXCEPT ![k] = TRUE]
    BY <1>5, Zenon DEF RunnerDies, Cancel, Killed, Survives
  <2>2. busy' = busy \/ busy' = [busy EXCEPT ![k] = FALSE]
    BY <1>5, Zenon DEF RunnerDies, Cancel, Killed
  <2>3. loose' \in [Keys -> BOOLEAN] /\ busy' \in [Keys -> BOOLEAN]
    BY <2>1, <2>2
  <2>4. runner' = runner \/ runner' = Exited(k)
    BY <1>5 DEF RunnerDies, Cancel, Killed
  <2>5. runner' \in [Keys -> RunnerLife]
    BY <2>4 DEF Exited
  <2>6. strays' = strays \/ (strays[k] > 0 /\ strays' = [strays EXCEPT ![k] = @ - 1])
    BY <1>5, Zenon DEF RunnerDies, Cancel, Killed
  <2>7. UNCHANGED <<record, launches, disk, call, crashes>>
    BY <1>5 DEF RunnerDies, Cancel
  <2> QED BY <2>3, <2>5, <2>6, <2>7
<1> QED BY <1>1, <1>2, <1>3, <1>4, <1>5 DEF Processes

LEMMA ReapedType ==
  ASSUME ProviderTypeOK
  PROVE  Reaped \in [Keys -> RunnerLife]
BY DEF ProviderTypeOK, Reaped, RunnerLife, Running

LEMMA AdoptedType ==
  ASSUME ProviderTypeOK
  PROVE  Adopted \in [Keys -> RunnerLife]
BY DEF ProviderTypeOK, Adopted, RunnerLife, Running

(* Every step of the provider or of a runner keeps the types.              *)
LEMMA ProviderTypeStep ==
  ASSUME ProviderTypeOK, [ProviderNext]_pvars
  PROVE  ProviderTypeOK'
<1> USE DEF ProviderTypeOK, At, workloads
<1>1. ASSUME NEW k \in Keys, AnswerKnown(k) PROVE ProviderTypeOK'
  BY <1>1 DEF AnswerKnown, Sightings, Idle
<1>2. ASSUME NEW k \in Keys, PrepareAndReserve(k) PROVE ProviderTypeOK'
  BY <1>2, ReapedType DEF PrepareAndReserve, Sightings, Idle
<1>3. ASSUME NEW k \in Keys, PollExitFile(k) PROVE ProviderTypeOK'
  <2>1. disk[k][ExitFile] \in ExitCodes \cup {"none"}
    OBVIOUS
  <2> QED BY <1>3, <2>1 DEF PollExitFile, Sightings, Idle
<1>4. ASSUME NEW k \in Keys, PollRaises(k) PROVE ProviderTypeOK'
  BY <1>4 DEF PollRaises, Sightings, Idle
<1>5. ASSUME NEW k \in Keys, Processes(k) \/ Cancel(k) PROVE ProviderTypeOK'
  BY <1>5, ProcessesType
<1>7. CASE Launch
  <2>1. call.key \in Keys
    BY <1>7, KeysAssumption DEF Launch, Idle
  <2> QED BY <1>7, <2>1, ReapedType DEF Launch, Sightings, Idle, RunnerLife, Running
<1>8. CASE RecordLaunch
  <2>1. call.key \in Keys
    BY <1>8 DEF RecordLaunch, Idle
  <2> QED BY <1>8, <2>1 DEF RecordLaunch, Sightings, Idle, RunnerLife, Running
<1>9. CASE PollProcess
  <2>1. call.key \in Keys
    BY <1>9 DEF PollProcess, Idle
  <2> QED BY <1>9, <2>1 DEF PollProcess, Sightings, Idle
<1>10. CASE Return
  BY <1>10 DEF Return
<1>11. CASE ControllerCrash \/ SubmitRaises
  BY <1>11, AdoptedType DEF ControllerCrash, SubmitRaises
<1>12. CASE ControllerEnds
  BY <1>12, AdoptedType DEF ControllerEnds
<1>13. CASE DiscoverResources
  BY <1>13, ReapedType DEF DiscoverResources
<1>14. CASE UNCHANGED pvars
  BY <1>14 DEF pvars
<1> QED
  BY <1>1, <1>2, <1>3, <1>4, <1>5, <1>7, <1>8, <1>9, <1>10, <1>11, <1>12, <1>13, <1>14
  DEF ProviderNext

LEMMA ProviderTypeInit ==
  ProviderInit => ProviderTypeOK
BY NamesAssumption DEF ProviderInit, ProviderTypeOK, RunnerLife

(* The submission records, the process table and the call in flight are    *)
(* always what their declarations say (provider.py, submit and poll).      *)
THEOREM ProviderTypeCorrect == ProviderSpec => []ProviderTypeOK
<1>1. ProviderTypeOK /\ [ProviderNext]_pvars => ProviderTypeOK'
  BY ProviderTypeStep
<1> QED BY <1>1, ProviderTypeInit, PTL DEF ProviderSpec
-----------------------------------------------------------------------------
(* Launches.                                                               *)

(* No process of a key touches a record, a launch or the call in flight.   *)
LEMMA ProcessesFrame ==
  ASSUME NEW k \in Keys, Processes(k) \/ Cancel(k)
  PROVE  UNCHANGED <<record, launches, call, crashes>>
BY DEF Processes, WorkloadWrites, RunnerRecords, RunnerEnds, SurvivorEnds, RunnerDies, Cancel

(* Steps that neither launch nor touch a record or a call keep the account.*)
LEMMA AccountFrame ==
  ASSUME LaunchesAccounted, UNCHANGED <<record, launches, call, crashes>>
  PROVE  LaunchesAccounted'
BY DEF LaunchesAccounted, Accounted

(* Only Launch adds a launch, and it does so with the record RESERVED and  *)
(* the call about to record it; a crash that forgets that call pays for it.*)
LEMMA LaunchesAccountedStep ==
  ASSUME ProviderTypeOK, LaunchesAccounted, [ProviderNext]_pvars
  PROVE  LaunchesAccounted'
<1> USE DEF ProviderTypeOK, LaunchesAccounted, Accounted, At
<1>1. ASSUME NEW k \in Keys, AnswerKnown(k) PROVE LaunchesAccounted'
  BY <1>1 DEF AnswerKnown, Idle
<1>2. ASSUME NEW k \in Keys, PrepareAndReserve(k) PROVE LaunchesAccounted'
  BY <1>2 DEF PrepareAndReserve, Known, Idle
<1>3. ASSUME NEW k \in Keys, PollExitFile(k) PROVE LaunchesAccounted'
  BY <1>3 DEF PollExitFile, Idle
<1>4. ASSUME NEW k \in Keys, PollRaises(k) PROVE LaunchesAccounted'
  BY <1>4 DEF PollRaises, Idle
<1>5. ASSUME NEW k \in Keys, Processes(k) \/ Cancel(k) PROVE LaunchesAccounted'
  BY <1>5, AccountFrame, ProcessesFrame
<1>6. CASE Launch
  <2>1. call.key \in Keys /\ record[call.key] = "RESERVED"
    BY <1>6 DEF Launch, Idle
  <2>2. launches[call.key] <= crashes
    BY <1>6, <2>1 DEF Launch
  <2> QED BY <1>6, <2>1, <2>2 DEF Launch
<1>7. CASE RecordLaunch
  BY <1>7 DEF RecordLaunch, Idle
<1>8. CASE PollProcess
  BY <1>8 DEF PollProcess
<1>9. CASE Return
  BY <1>9 DEF Return, Idle
<1>10. CASE ControllerCrash \/ SubmitRaises
  BY <1>10 DEF ControllerCrash, SubmitRaises, Idle
<1>11. CASE ControllerEnds \/ DiscoverResources
  BY <1>11, AccountFrame DEF ControllerEnds, DiscoverResources
<1>12. CASE UNCHANGED pvars
  BY <1>12, AccountFrame DEF pvars
<1> QED
  BY <1>1, <1>2, <1>3, <1>4, <1>5, <1>6, <1>7, <1>8, <1>9, <1>10, <1>11, <1>12
  DEF ProviderNext

LEMMA LaunchesAccountedInit ==
  ProviderInit => LaunchesAccounted
BY DEF ProviderInit, LaunchesAccounted, Accounted, Idle

(* Each launch beyond those whose submit did not return is the one its     *)
(* submission record, or the call about to write it, answers for.          *)
THEOREM LaunchAccountCorrect == ProviderSpec => []LaunchesAccounted
<1>1. ProviderTypeOK /\ LaunchesAccounted /\ [ProviderNext]_pvars => LaunchesAccounted'
  BY LaunchesAccountedStep
<1> QED BY <1>1, LaunchesAccountedInit, ProviderTypeCorrect, PTL DEF ProviderSpec

LEMMA AccountGivesBound ==
  ASSUME ProviderTypeOK, LaunchesAccounted
  PROVE  LaunchBound
<1>1. SUFFICES ASSUME NEW k \in Keys PROVE launches[k] <= crashes + 1
  BY DEF LaunchBound
<1>2. launches[k] \in Nat /\ crashes \in Nat
  BY DEF ProviderTypeOK
<1>3. CASE Accounted(k)
  BY <1>3 DEF LaunchesAccounted
<1>4. CASE ~Accounted(k)
  <2>1. launches[k] <= crashes + 0
    BY <1>4 DEF LaunchesAccounted
  <2> QED BY <1>2, <2>1
<1> QED BY <1>3, <1>4

(* A key is launched at most once more than controllers died in mid-work.  *)
THEOREM LaunchBoundCorrect == ProviderSpec => []LaunchBound
BY LaunchAccountCorrect, ProviderTypeCorrect, AccountGivesBound, PTL

(* No step takes a LAUNCHED record back, or launches its key again.        *)
LEMMA LaunchedIsFinalStep ==
  ASSUME ProviderTypeOK, LaunchesAccounted, [ProviderNext]_pvars,
         NEW k \in Keys, record[k] = "LAUNCHED"
  PROVE  record'[k] = "LAUNCHED" /\ launches'[k] = launches[k]
<1> USE DEF ProviderTypeOK
<1>1. ASSUME NEW j \in Keys, PrepareAndReserve(j)
      PROVE  record'[k] = "LAUNCHED" /\ launches'[k] = launches[k]
  BY <1>1 DEF PrepareAndReserve, Known
<1>2. CASE Launch
  BY <1>2 DEF Launch, LaunchesAccounted
<1>3. CASE RecordLaunch
  BY <1>3 DEF RecordLaunch
<1>4. CASE UNCHANGED <<record, launches>>
  BY <1>4
<1>5. ASSUME NEW j \in Keys, Processes(j) \/ Cancel(j)
      PROVE  UNCHANGED <<record, launches>>
  BY <1>5, ProcessesFrame
<1> QED
  BY <1>1, <1>2, <1>3, <1>4, <1>5
  DEF ProviderNext, AnswerKnown, PollExitFile, PollRaises, PollProcess, Return,
      ControllerCrash, ControllerEnds, SubmitRaises, DiscoverResources, pvars

(* A key whose launch is on record is never launched again: submit and     *)
(* reconcile_submission are idempotent from that point on.                 *)
THEOREM LaunchedIsFinalCorrect == ProviderSpec => LaunchedIsFinal
<1>1. ProviderTypeOK /\ LaunchesAccounted /\ [ProviderNext]_pvars =>
        [\A k \in Keys : record[k] = "LAUNCHED" =>
           record'[k] = "LAUNCHED" /\ launches'[k] = launches[k]]_pvars
  BY LaunchedIsFinalStep
<1> QED BY <1>1, ProviderTypeCorrect, LaunchAccountCorrect, PTL DEF ProviderSpec, LaunchedIsFinal
-----------------------------------------------------------------------------
(* Answers.                                                                *)

LEMMA AnswersAreTrueInit ==
  ProviderInit => AnswersAreTrue
BY DEF ProviderInit, AnswersAreTrue, Idle

LEMMA AnswersAreTrueStep ==
  ASSUME ProviderTypeOK, AnswersAreTrue, [ProviderNext]_pvars
  PROVE  AnswersAreTrue'
<1> USE DEF ProviderTypeOK, AnswersAreTrue, At
<1>1. ASSUME NEW k \in Keys, AnswerKnown(k) PROVE AnswersAreTrue'
  BY <1>1 DEF AnswerKnown, Known
<1>2. ASSUME NEW k \in Keys, PrepareAndReserve(k) PROVE AnswersAreTrue'
  BY <1>2 DEF PrepareAndReserve, Known
<1>3. ASSUME NEW k \in Keys, PollExitFile(k) \/ PollRaises(k) PROVE AnswersAreTrue'
  BY <1>3 DEF PollExitFile, PollRaises
<1>4. CASE Launch
  <2>1. call.key \in Keys
    BY <1>4 DEF Launch, Idle
  <2> QED BY <1>4, <2>1 DEF Launch
<1>5. CASE RecordLaunch
  <2>1. call.key \in Keys
    BY <1>5 DEF RecordLaunch, Idle
  <2> QED BY <1>5, <2>1 DEF RecordLaunch
<1>6. CASE PollProcess
  BY <1>6 DEF PollProcess
<1>7. CASE Return \/ ControllerCrash \/ SubmitRaises
  BY <1>7 DEF Return, ControllerCrash, SubmitRaises, Idle
<1>8. CASE UNCHANGED <<record, launches, call>>
  BY <1>8
<1>9. ASSUME NEW k \in Keys, Processes(k) \/ Cancel(k)
      PROVE  UNCHANGED <<record, launches, call>>
  BY <1>9, ProcessesFrame
<1> QED
  BY <1>1, <1>2, <1>3, <1>4, <1>5, <1>6, <1>7, <1>8, <1>9
  DEF ProviderNext, ControllerEnds, DiscoverResources, pvars

(* A key that reconcile_submission or submit answers for has been launched.*)
THEOREM AnswersCorrect == ProviderSpec => []AnswersAreTrue
<1>1. ProviderTypeOK /\ AnswersAreTrue /\ [ProviderNext]_pvars => AnswersAreTrue'
  BY AnswersAreTrueStep
<1> QED BY <1>1, AnswersAreTrueInit, ProviderTypeCorrect, PTL DEF ProviderSpec
-----------------------------------------------------------------------------
(* The processes of a key.                                                 *)

(* A key that was never launched has no process; of the launches of a key  *)
(* the last one is no stray, and it runs while it has exit.json to write.  *)
ProcessesCounted ==
  \A k \in Keys :
    /\ launches[k] = 0 => strays[k] = 0 /\ ~busy[k] /\ ~loose[k]
    /\ launches[k] > 0 => strays[k] < launches[k]
    /\ busy[k] => runner[k] \in Running

(* Nobody but the launch itself starts a runner or ends its wait.          *)
LEMMA RunnersFrame ==
  ASSUME ProviderTypeOK, [ProviderNext]_pvars, ~Launch,
         ~ \E k \in Keys : Processes(k) \/ Cancel(k)
  PROVE  /\ UNCHANGED <<workloads, launches, disk>>
         /\ \A k \in Keys : runner[k] \in Running => runner'[k] \in Running
<1> USE DEF ProviderTypeOK, Running
<1>1. CASE RecordLaunch
  <2>1. call.key \in Keys
    BY <1>1 DEF RecordLaunch, Idle
  <2> QED BY <1>1, <2>1 DEF RecordLaunch
<1>2. CASE DiscoverResources \/ \E k \in Keys : PrepareAndReserve(k)
  BY <1>2 DEF DiscoverResources, PrepareAndReserve, Reaped
<1>3. CASE ControllerCrash \/ ControllerEnds \/ SubmitRaises
  BY <1>3 DEF ControllerCrash, ControllerEnds, SubmitRaises, Adopted
<1>4. CASE UNCHANGED <<workloads, launches, disk, runner>>
  BY <1>4
<1> QED
  BY <1>1, <1>2, <1>3, <1>4
  DEF ProviderNext, AnswerKnown, PollExitFile, PollRaises, PollProcess, Return, pvars

(* What a launch does to the processes of its key, and of the others.      *)
LEMMA LaunchEffect ==
  ASSUME ProviderTypeOK, Launch
  PROVE  \E k \in Keys :
           /\ call.key = k
           /\ launches' = [launches EXCEPT ![k] = @ + 1]
           /\ strays' = [strays EXCEPT ![k] = IF busy[k] THEN @ + 1 ELSE @]
           /\ busy' = [busy EXCEPT ![k] = TRUE]
           /\ runner'[k] \in Running
           /\ \A j \in Keys \ {k} : runner[j] \in Running => runner'[j] \in Running
           /\ UNCHANGED <<loose, disk>>
<1>1. PICK k \in Keys : k = call.key
  BY DEF ProviderTypeOK, Launch, Idle
<1>2. runner' = [Reaped EXCEPT ![k] = "child"] /\ Reaped \in [Keys -> RunnerLife]
  BY <1>1, ReapedType DEF Launch
<1>3. \A j \in Keys \ {k} : runner[j] \in Running => runner'[j] \in Running
  BY <1>2 DEF Reaped, Running, ProviderTypeOK
<1>4. runner'[k] \in Running
  BY <1>2 DEF Running
<1> QED BY <1>1, <1>3, <1>4 DEF Launch

(* What the processes of a key, or a cancellation, do to them.             *)
LEMMA ProcessesEffect ==
  ASSUME ProviderTypeOK, NEW k \in Keys, Processes(k) \/ Cancel(k)
  PROVE  /\ launches' = launches
         /\ strays' = strays \/ (strays[k] > 0 /\ strays' = [strays EXCEPT ![k] = @ - 1])
         /\ busy' = busy \/ busy' = [busy EXCEPT ![k] = FALSE]
         /\ runner' = runner \/ (~busy'[k] /\ runner' = Exited(k))
         /\ \/ loose' = loose
            \/ loose' = [loose EXCEPT ![k] = FALSE]
            \/ /\ busy[k] \/ strays[k] > 0
               /\ loose' = [loose EXCEPT ![k] = TRUE]
<1> USE DEF ProviderTypeOK
<1>1. CASE WorkloadWrites(k)
  BY <1>1, Zenon DEF WorkloadWrites, workloads
<1>2. CASE RunnerRecords(k)
  BY <1>2 DEF RunnerRecords, Survives
<1>3. CASE RunnerEnds(k)
  BY <1>3, Zenon DEF RunnerEnds, workloads
<1>4. CASE SurvivorEnds(k)
  BY <1>4 DEF SurvivorEnds
<1>5. CASE RunnerDies(k) \/ Cancel(k)
  <2>1. CASE Killed(k)
    <3>1. busy[k] /\ busy' = [busy EXCEPT ![k] = FALSE]
      BY <2>1, Zenon DEF Killed
    <3>2. ~busy'[k]
      BY <3>1
    <3>3. launches' = launches
      BY <1>5 DEF RunnerDies, Cancel
    <3> QED BY <2>1, <3>1, <3>2, <3>3 DEF Killed, Survives
  <2>2. CASE ~Killed(k)
    BY <1>5, <2>2 DEF RunnerDies, Cancel, Survives
  <2> QED BY <2>1, <2>2
<1> QED BY <1>1, <1>2, <1>3, <1>4, <1>5 DEF Processes

LEMMA ProcessesCountedStep ==
  ASSUME ProviderTypeOK, ProcessesCounted, [ProviderNext]_pvars
  PROVE  ProcessesCounted'
<1> USE DEF ProviderTypeOK, ProcessesCounted
<1>1. ASSUME NEW k \in Keys, Processes(k) \/ Cancel(k) PROVE ProcessesCounted'
  <2>1. \A j \in Keys \ {k} :
          /\ launches'[j] = launches[j] /\ strays'[j] = strays[j] /\ busy'[j] = busy[j]
          /\ loose'[j] = loose[j] /\ runner'[j] = runner[j]
    BY <1>1, ProcessesEffect DEF Exited
  <2>2. launches'[k] = launches[k] /\ strays'[k] \in Nat /\ strays'[k] <= strays[k]
    BY <1>1, ProcessesEffect
  <2>3. busy'[k] => busy[k] /\ runner'[k] = runner[k]
    BY <1>1, ProcessesEffect
  <2>4. loose'[k] => loose[k] \/ busy[k] \/ strays[k] > 0
    BY <1>1, ProcessesEffect
  <2> QED BY <2>1, <2>2, <2>3, <2>4
<1>2. CASE Launch
  <2>1. PICK k \in Keys :
           /\ launches' = [launches EXCEPT ![k] = @ + 1]
           /\ strays' = [strays EXCEPT ![k] = IF busy[k] THEN @ + 1 ELSE @]
           /\ busy' = [busy EXCEPT ![k] = TRUE]
           /\ runner'[k] \in Running
           /\ \A j \in Keys \ {k} : runner[j] \in Running => runner'[j] \in Running
           /\ UNCHANGED <<loose, disk>>
    BY <1>2, LaunchEffect
  <2> QED BY <2>1
<1>3. CASE ~Launch /\ ~ \E k \in Keys : Processes(k) \/ Cancel(k)
  BY <1>3, RunnersFrame DEF workloads
<1> QED BY <1>1, <1>2, <1>3

LEMMA ProcessesCountedAlways == ProviderSpec => []ProcessesCounted
<1>1. ProviderInit => ProcessesCounted
  BY DEF ProviderInit, ProcessesCounted, Running
<1>2. ProviderTypeOK /\ ProcessesCounted /\ [ProviderNext]_pvars => ProcessesCounted'
  BY ProcessesCountedStep
<1> QED BY <1>1, <1>2, ProviderTypeCorrect, PTL DEF ProviderSpec

(* The exit.json of a key launched once is the last word of its runner: by *)
(* then the runner has nothing to write, and where commands leave no       *)
(* process behind, nobody has.                                             *)
ExitIsLast ==
  \A k \in Keys :
    /\ disk[k][ExitFile] # "none" => launches[k] >= 1 /\ (launches[k] = 1 => ~busy[k])
    /\ launches[k] = 1 /\ "leftovers" \notin Faults /\ (busy[k] \/ disk[k][ExitFile] # "none")
         => ~loose[k]

(* What one key's processes do to its files, and what they leave running.  *)
LEMMA FilesEffect ==
  ASSUME ProviderTypeOK, NEW k \in Keys, Processes(k) \/ Cancel(k)
  PROVE  /\ \A j \in Keys \ {k} : disk'[j] = disk[j]
         /\ disk'[k] = disk[k] \/ busy[k] \/ strays[k] > 0 \/ loose[k]
         /\ \/ disk'[k][ExitFile] = disk[k][ExitFile]
            \/ busy[k] /\ ~busy'[k] /\ ("leftovers" \notin Faults => loose' = loose)
            \/ strays[k] > 0
         /\ loose'[k] => loose[k] \/ strays[k] > 0 \/ (busy[k] /\ ~busy'[k])
         /\ busy[k] /\ ~busy'[k] /\ loose'[k] /\ ~loose[k] =>
              "leftovers" \in Faults \/ disk' = disk
<1> USE DEF ProviderTypeOK
<1>1. CASE WorkloadWrites(k)
  <2>1. PICK n \in Names \ {ExitFile}, c \in Contents \cup {"none"} :
          MayChange(k, n) /\ disk' = [disk EXCEPT ![k][n] = c]
    BY <1>1 DEF WorkloadWrites
  <2>2. disk'[k][ExitFile] = disk[k][ExitFile] /\ \A j \in Keys \ {k} : disk'[j] = disk[j]
    BY <2>1, NamesAssumption
  <2> QED BY <1>1, <2>1, <2>2 DEF WorkloadWrites, MayChange, workloads
<1>2. CASE RunnerRecords(k)
  BY <1>2 DEF RunnerRecords, Survives
<1>3. CASE RunnerEnds(k)
  BY <1>3, Zenon DEF RunnerEnds, workloads
<1>4. CASE SurvivorEnds(k)
  BY <1>4 DEF SurvivorEnds
<1>5. CASE RunnerDies(k) \/ Cancel(k)
  BY <1>5 DEF RunnerDies, Cancel, Killed, Survives
<1> QED BY <1>1, <1>2, <1>3, <1>4, <1>5 DEF Processes

LEMMA ExitIsLastStep ==
  ASSUME ProviderTypeOK, ProcessesCounted, ExitIsLast, [ProviderNext]_pvars
  PROVE  ExitIsLast'
<1> USE DEF ProviderTypeOK, ExitIsLast
<1>1. ASSUME NEW k \in Keys, Processes(k) \/ Cancel(k) PROVE ExitIsLast'
  <2>1. \A j \in Keys \ {k} :
          launches'[j] = launches[j] /\ busy'[j] = busy[j] /\ loose'[j] = loose[j]
    BY <1>1, ProcessesEffect
  <2>2. \A j \in Keys \ {k} : disk'[j] = disk[j]
    BY <1>1, FilesEffect
  <2>3. launches'[k] = launches[k] /\ (busy'[k] => busy[k])
    BY <1>1, ProcessesEffect
  <2>4. launches[k] = 0 => ~busy[k] /\ strays[k] = 0
    BY DEF ProcessesCounted
  <2>5. launches[k] = 1 => strays[k] = 0
    BY DEF ProcessesCounted
  <2>6. disk'[k][ExitFile] # "none" => launches[k] >= 1 /\ (launches[k] = 1 => ~busy'[k])
    BY <1>1, <2>3, <2>4, <2>5, FilesEffect
  <2>7. launches[k] = 1 /\ "leftovers" \notin Faults /\ (busy'[k] \/ disk'[k][ExitFile] # "none")
          => ~loose'[k]
    BY <1>1, <2>3, <2>5, FilesEffect
  <2> QED BY <2>1, <2>2, <2>3, <2>6, <2>7
<1>2. CASE Launch
  <2>1. PICK k \in Keys :
           /\ launches' = [launches EXCEPT ![k] = @ + 1]
           /\ busy' = [busy EXCEPT ![k] = TRUE]
           /\ UNCHANGED <<loose, disk>>
    BY <1>2, LaunchEffect
  <2>2. launches[k] = 0 => disk[k][ExitFile] = "none" /\ ~loose[k]
    BY DEF ProcessesCounted
  <2> QED BY <2>1, <2>2
<1>3. CASE ~Launch /\ ~ \E k \in Keys : Processes(k) \/ Cancel(k)
  BY <1>3, RunnersFrame DEF workloads
<1> QED BY <1>1, <1>2, <1>3

LEMMA ExitIsLastAlways == ProviderSpec => []ExitIsLast
<1>1. ProviderInit => ExitIsLast
  <2> SUFFICES ASSUME ProviderInit PROVE ExitIsLast
    OBVIOUS
  <2>1. \A k \in Keys : launches[k] = 0
    BY Zenon DEF ProviderInit
  <2>2. \A k \in Keys : disk[k][ExitFile] = "none"
    BY NamesAssumption, Zenon DEF ProviderInit
  <2>3. 0 # 1
    OBVIOUS
  <2>4. \A k \in Keys : launches[k] # 1
    BY <2>1, <2>3, Zenon
  <2> QED BY <2>2, <2>4, Zenon DEF ExitIsLast
<1>2. ProviderTypeOK /\ ProcessesCounted /\ ExitIsLast /\ [ProviderNext]_pvars => ExitIsLast'
  BY ExitIsLastStep
<1> QED BY <1>1, <1>2, ProviderTypeCorrect, ProcessesCountedAlways, PTL DEF ProviderSpec

(* Once the only runner of a key waits no more, its exit.json is final,    *)
(* and so is the whole workdir when no process of the command is left.     *)
LEMMA FilesRest ==
  ASSUME ProviderTypeOK, ProcessesCounted, [ProviderNext]_pvars,
         NEW k \in Keys, launches[k] = 1, launches'[k] = 1, ~busy[k]
  PROVE  /\ ~busy'[k]
         /\ disk'[k][ExitFile] = disk[k][ExitFile]
         /\ ~loose[k] => ~loose'[k] /\ disk'[k] = disk[k]
<1>1. strays[k] = 0
  BY DEF ProcessesCounted, ProviderTypeOK
<1>2. ASSUME NEW j \in Keys, Processes(j) \/ Cancel(j)
      PROVE  /\ ~busy'[k]
             /\ disk'[k][ExitFile] = disk[k][ExitFile]
             /\ ~loose[k] => ~loose'[k] /\ disk'[k] = disk[k]
  <2>1. CASE j = k
    BY <1>1, <1>2, <2>1, ProcessesEffect, FilesEffect DEF ProviderTypeOK
  <2>2. CASE j # k
    BY <1>2, <2>2, ProcessesEffect, FilesEffect DEF ProviderTypeOK
  <2> QED BY <2>1, <2>2
<1>3. CASE Launch
  <2>1. PICK i \in Keys :
           /\ launches' = [launches EXCEPT ![i] = @ + 1]
           /\ busy' = [busy EXCEPT ![i] = TRUE]
           /\ UNCHANGED <<loose, disk>>
    BY <1>3, LaunchEffect
  <2> QED BY <2>1 DEF ProviderTypeOK
<1>4. CASE ~Launch /\ ~ \E j \in Keys : Processes(j) \/ Cancel(j)
  BY <1>4, RunnersFrame DEF workloads
<1> QED BY <1>2, <1>3, <1>4

=============================================================================
