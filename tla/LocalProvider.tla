---------------------------- MODULE LocalProvider ----------------------------
(***************************************************************************)
(* LocalProvider and the detached research-runner processes it launches.   *)
(*                                                                         *)
(* The caller is one controller process, so at most one provider call is   *)
(* in flight; `call' is the position inside it, which a crash forgets.     *)
(* Submission records and the files of a job's workdir are durable.  A job *)
(* is named by its submission key.  A step ends where another process or a *)
(* crash can tell the difference: before and after Popen, after each       *)
(* os.replace, between the exit.json test of poll and its kill(pid, 0).    *)
(*                                                                         *)
(* A runner waits for its command, replaces exit.json, and only then ends. *)
(* The command is arbitrary: while any process of it runs, it may write,   *)
(* rewrite and remove outputs, and it outlives a runner that is killed.    *)
(* It is taken to leave alone the runner's own exit.json.                  *)
(***************************************************************************)
EXTENDS Naturals

CONSTANTS
  Keys,        \* submission keys
  NoKey,
  Names,       \* files of a workdir the collector may pick up
  ExitFile,    \* the runner's exit.json, one of Names
  ExitCodes,   \* what commands may exit with, a subset of {"good", "bad"}
  Faults,      \* what the environment may do, a subset of FaultKinds
  MaxCrashes   \* bound on `crashes'

\* "leftovers": a command leaves a process of its own behind when it ends.
FaultKinds == {"runner_death", "leftovers", "poll_error", "submit_error", "run_once"}

ASSUME KeysAssumption == NoKey \notin Keys
ASSUME NamesAssumption == ExitFile \in Names
ASSUME CodesAssumption == ExitCodes \subseteq {"good", "bad"}
ASSUME FaultsAssumption == Faults \subseteq FaultKinds
ASSUME CrashAssumption == MaxCrashes \in Nat

VARIABLES
  record,      \* submission record of a key: its status, "NONE" when no file exists
  runner,      \* life of the runner process launched last for a key
  busy,        \* that runner has its exit.json still to write
  loose,       \* a process of a workload of the key runs that no runner waits for
  strays,      \* older runners of a key with an exit.json to write; no record names them
  launches,    \* Popen calls made for a key
  disk,        \* content of the files in the key's workdir
  call,        \* position inside the provider call in flight
  crashes      \* deaths of the controller in mid-work: killed, or by an exception of submit

workloads == <<busy, loose, strays>>
pvars == <<record, runner, workloads, launches, disk, call, crashes>>

(***************************************************************************)
(* In exit.json "good" is exit code 0 and "bad" any other.  Of an output,  *)
(* "bad" is content that the metrics validators reject, and "garbled" is   *)
(* content that they cannot even decode.                                   *)
(***************************************************************************)
Contents == {"good", "bad", "garbled"}

Running == {"child", "orphan"}    \* "child": its parent, this controller, is alive

\* A child that ended stays a zombie until the controller spawns a process.
RunnerLife == Running \cup {"none", "zombie", "gone"}

Sightings == ExitCodes \cup {"alive", "missing", "error"}

Idle == [at |-> "idle", key |-> NoKey, saw |-> "none"]

At(point, k, saw) == [at |-> point, key |-> k, saw |-> saw]

ProviderTypeOK ==
  /\ record \in [Keys -> {"NONE", "RESERVED", "LAUNCHED"}]
  /\ runner \in [Keys -> RunnerLife]
  /\ busy \in [Keys -> BOOLEAN]
  /\ loose \in [Keys -> BOOLEAN]
  /\ strays \in [Keys -> Nat]
  /\ launches \in [Keys -> Nat]
  /\ disk \in [Keys -> [Names -> Contents \cup {"none"}]]
  /\ \A k \in Keys : disk[k][ExitFile] \in ExitCodes \cup {"none"}
  /\ \/ call = Idle
     \/ call \in [at : {"launch", "record", "returned", "probe"}, key : Keys, saw : {"none"}]
     \/ call \in [at : {"observed"}, key : Keys, saw : Sightings]
  /\ crashes \in Nat

ProviderInit ==
  /\ record = [k \in Keys |-> "NONE"]
  /\ runner = [k \in Keys |-> "none"]
  /\ busy = [k \in Keys |-> FALSE]
  /\ loose = [k \in Keys |-> FALSE]
  /\ strays = [k \in Keys |-> 0]
  /\ launches = [k \in Keys |-> 0]
  /\ disk = [k \in Keys |-> [n \in Names |-> "none"]]
  /\ call = Idle
  /\ crashes = 0
-----------------------------------------------------------------------------
(* Submission.                                                             *)

(* Mutants of Known: the record is ignored; its external id is believed    *)
(* although the launch was only reserved.                                  *)
MutNeverKnown(k) == FALSE
MutReservedKnown(k) == record[k] # "NONE"

Known(k) == record[k] = "LAUNCHED"

\* Spawning any process reaps the zombies of the controller.
Reaped == [k \in Keys |-> IF runner[k] = "zombie" THEN "gone" ELSE runner[k]]

\* Resource discovery spawns nvidia-smi, or tries to.
DiscoverResources ==
  /\ call = Idle
  /\ runner' = Reaped
  /\ UNCHANGED <<record, workloads, launches, disk, call, crashes>>

\* reconcile_submission, or submit, finds the launch in the record.
AnswerKnown(k) ==
  /\ call = Idle
  /\ Known(k)
  /\ call' = At("returned", k, "none")
  /\ UNCHANGED <<record, runner, workloads, launches, disk, crashes>>

\* prepare, which discovers resources, then submit up to the reservation.
PrepareAndReserve(k) ==
  /\ call = Idle
  /\ ~Known(k)
  /\ runner' = Reaped
  /\ record' = [record EXCEPT ![k] = "RESERVED"]
  /\ call' = At("launch", k, "none")
  /\ UNCHANGED <<workloads, launches, disk, crashes>>

\* Popen.  A runner of an earlier, unrecorded launch is now out of sight.
Launch ==
  LET k == call.key IN
  /\ call.at = "launch"
  /\ launches' = [launches EXCEPT ![k] = @ + 1]
  /\ strays' = [strays EXCEPT ![k] = IF busy[k] THEN @ + 1 ELSE @]
  /\ runner' = [Reaped EXCEPT ![k] = "child"]
  /\ busy' = [busy EXCEPT ![k] = TRUE]
  /\ call' = At("record", k, "none")
  /\ UNCHANGED <<record, loose, disk, crashes>>

\* Dropping the Popen object reaps a runner that has already ended.
RecordLaunch ==
  LET k == call.key IN
  /\ call.at = "record"
  /\ record' = [record EXCEPT ![k] = "LAUNCHED"]
  /\ runner' = [runner EXCEPT ![k] = IF @ = "zombie" THEN "gone" ELSE @]
  /\ call' = At("returned", k, "none")
  /\ UNCHANGED <<workloads, launches, disk, crashes>>
-----------------------------------------------------------------------------
(* Polling and collecting.                                                 *)

\* Mutant of Alive: only the processes this controller started are seen.
MutAlive(k) == Known(k) /\ runner[k] \in {"child", "zombie"}

\* Mutant of Alive: an ended child counts as missing.
MutNoZombie(k) == Known(k) /\ runner[k] \in Running

\* kill(pid, 0) succeeds on a zombie; without a recorded pid nothing is alive.
Alive(k) == Known(k) /\ runner[k] \in Running \cup {"zombie"}

\* Mutant of PollExitFile: exit.json is read untested, and absence is no code.
MutPollExitFile(k) ==
  /\ call = Idle
  /\ call' = At("observed", k, disk[k][ExitFile])
  /\ UNCHANGED <<record, runner, workloads, launches, disk, crashes>>

PollExitFile(k) ==
  LET found == disk[k][ExitFile] IN
  /\ call = Idle
  /\ call' = IF found # "none" THEN At("observed", k, found) ELSE At("probe", k, "none")
  /\ UNCHANGED <<record, runner, workloads, launches, disk, crashes>>

PollProcess ==
  LET k == call.key IN
  /\ call.at = "probe"
  /\ call' = At("observed", k, IF Alive(k) THEN "alive" ELSE "missing")
  /\ UNCHANGED <<record, runner, workloads, launches, disk, crashes>>

\* Reading the workdir or the record raises.
PollRaises(k) ==
  /\ "poll_error" \in Faults
  /\ call = Idle
  /\ call' = At("observed", k, "error")
  /\ UNCHANGED <<record, runner, workloads, launches, disk, crashes>>

\* Mutant of Candidates: the prepared outputs are listed unseen.
MutCandidates(k) == Names

\* What collect lists: the files that exist now.
Candidates(k) == {n \in Names : disk[k][n] # "none"}

\* The caller takes the result of the call.
Return ==
  /\ call.at \in {"returned", "observed"}
  /\ call' = Idle
  /\ UNCHANGED <<record, runner, workloads, launches, disk, crashes>>
-----------------------------------------------------------------------------
(* The runner processes and their workloads.                               *)

\* Some process may change the file n of k's workdir.
MayChange(k, n) == busy[k] \/ strays[k] > 0 \/ (n # ExitFile /\ loose[k])

\* A workload writes, rewrites or removes an output.
WorkloadWrites(k) ==
  /\ \E n \in Names \ {ExitFile}, c \in Contents \cup {"none"} :
       MayChange(k, n) /\ disk' = [disk EXCEPT ![k][n] = c]
  /\ UNCHANGED <<record, runner, workloads, launches, call, crashes>>

\* A process of the workload may go on when its runner stops waiting for it.
Survives(k) == UNCHANGED loose \/ loose' = [loose EXCEPT ![k] = TRUE]

\* A runner's command has ended, and exit.json is replaced.  The runner launched
\* last goes on; what becomes of an older one, nobody can see.
RunnerRecords(k) ==
  /\ \/ /\ busy[k]
        /\ busy' = [busy EXCEPT ![k] = FALSE]
        /\ UNCHANGED strays
     \/ /\ strays[k] > 0
        /\ strays' = [strays EXCEPT ![k] = @ - 1]
        /\ UNCHANGED busy
  /\ \E code \in ExitCodes : disk' = [disk EXCEPT ![k][ExitFile] = code]
  /\ UNCHANGED loose \/ ("leftovers" \in Faults /\ Survives(k))
  /\ UNCHANGED <<record, runner, launches, call, crashes>>

\* The process launched last is no more, but for its zombie if it was a child.
Exited(k) == [runner EXCEPT ![k] = IF @ = "child" THEN "zombie" ELSE "gone"]

\* The runner launched last exits, its exit.json long in place.
RunnerEnds(k) ==
  /\ runner[k] \in Running
  /\ ~busy[k]
  /\ runner' = Exited(k)
  /\ UNCHANGED <<record, workloads, launches, disk, call, crashes>>

\* A survivor ends, the last one of its key.
SurvivorEnds(k) ==
  /\ loose[k]
  /\ loose' = [loose EXCEPT ![k] = FALSE]
  /\ UNCHANGED <<record, runner, busy, strays, launches, disk, call, crashes>>

\* The runner is ended by a signal while it waits: no exit.json, and a command
\* that may go on.
Killed(k) ==
  /\ busy[k]
  /\ busy' = [busy EXCEPT ![k] = FALSE]
  /\ runner' = Exited(k)
  /\ Survives(k)
  /\ UNCHANGED strays

RunnerDies(k) ==
  /\ "runner_death" \in Faults
  /\ \/ Killed(k)
     \/ /\ strays[k] > 0
        /\ strays' = [strays EXCEPT ![k] = @ - 1]
        /\ Survives(k)
        /\ UNCHANGED <<runner, busy>>
  /\ UNCHANGED <<record, launches, disk, call, crashes>>

\* cancel: SIGTERM to the process group of the recorded pid, which is not that of
\* a stray.  A workload may take its time to end, or ignore the signal.
Cancel(k) ==
  /\ call = Idle
  /\ Known(k)
  /\ Killed(k)
  /\ UNCHANGED <<record, launches, disk, call, crashes>>

Processes(k) ==
  \/ WorkloadWrites(k) \/ RunnerRecords(k) \/ RunnerEnds(k)
  \/ SurvivorEnds(k) \/ RunnerDies(k)
-----------------------------------------------------------------------------
(* The end of the controller process: its children are adopted by init.    *)

Adopted ==
  [k \in Keys |-> IF runner[k] = "child" THEN "orphan"
                  ELSE IF runner[k] = "zombie" THEN "gone" ELSE runner[k]]

ControllerCrash ==
  /\ crashes < MaxCrashes
  /\ crashes' = crashes + 1
  /\ runner' = Adopted
  /\ call' = Idle
  /\ UNCHANGED <<record, workloads, launches, disk>>

\* The process ends between two provider calls: run --once, or an exception.
ControllerEnds ==
  /\ call = Idle
  /\ runner' = Adopted
  /\ UNCHANGED <<record, workloads, launches, disk, call, crashes>>

\* Popen, or the write of the LAUNCHED record after it, raises OSError: nothing
\* above submit catches it, and the reservation stays.
SubmitRaises ==
  /\ "submit_error" \in Faults
  /\ call.at \in {"launch", "record"}
  /\ ControllerCrash

ProviderNext ==
  \/ \E k \in Keys : \/ AnswerKnown(k) \/ PrepareAndReserve(k)
                     \/ PollExitFile(k) \/ PollRaises(k)
                     \/ Cancel(k) \/ Processes(k)
  \/ DiscoverResources \/ Launch \/ RecordLaunch \/ PollProcess \/ Return
  \/ ControllerCrash \/ ControllerEnds \/ SubmitRaises

ProviderSpec == ProviderInit /\ [][ProviderNext]_pvars
-----------------------------------------------------------------------------
(* Properties of the provider alone, whatever its caller asks.             *)

(* Every launch of a key beyond the first has cost the death of a controller*)
(* in mid-work: it was killed, or an OSError came out of submit after Popen *)
(* (provider.py:242-245).  No sequence of submit and reconcile_submission  *)
(* calls that return makes LocalProvider.submit start a second process.    *)
LaunchBound == \A k \in Keys : launches[k] <= crashes + 1

(* Why LaunchBound holds: submit goes from RESERVED to LAUNCHED in one     *)
(* call, so the launches no record answers for are those of calls that did *)
(* not return, and the one about to be recorded.                           *)
Accounted(k) == record[k] = "LAUNCHED" \/ (call.at = "record" /\ call.key = k)

LaunchesAccounted ==
  /\ \A k \in Keys : launches[k] <= crashes + IF Accounted(k) THEN 1 ELSE 0
  /\ call.at \in {"launch", "record"} => record[call.key] = "RESERVED"

(* What the provider tells its caller is true: a key is answered for only  *)
(* when its record says LAUNCHED, and then a process was launched.         *)
AnswersAreTrue ==
  /\ \A k \in Keys : record[k] = "LAUNCHED" => launches[k] >= 1
  /\ call.at = "record" => launches[call.key] >= 1
  /\ call.at = "returned" => record[call.key] = "LAUNCHED"

(* Once a submission record says LAUNCHED it keeps saying so, and no later *)
(* submit of that key starts a process.                                    *)
LaunchedIsFinal ==
  [][\A k \in Keys : record[k] = "LAUNCHED" =>
       record'[k] = "LAUNCHED" /\ launches'[k] = launches[k]]_pvars

(* No duplicate at all, as IMPLEMENTATION_STATUS.md has it: "Controller    *)
(* restart does not duplicate a Task execution".  It fails when the        *)
(* controller dies after Popen and before the LAUNCHED record.             *)
SingleLaunch == \A k \in Keys : launches[k] <= 1

=============================================================================
