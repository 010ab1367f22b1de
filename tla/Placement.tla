------------------------------- MODULE Placement -------------------------------
(***************************************************************************)
(* Where a task runs: the offers of LocalProvider, the router's choice, and*)
(* the three times the GPUs are listed before a process starts (to route,  *)
(* to prepare the dispatch, to prepare the submission), with an inventory  *)
(* that need not be the same in any two of them.                           *)
(***************************************************************************)
EXTENDS Integers, Sequences

CONSTANTS
  Tasks,
  Gpus,              \* their nvidia-smi indices
  MemoryMb,          \* memory of each, in MiB
  GpuCount, MinMemory, Capabilities,  \* requirements; memory in thousandths of a GB
  AllowedProviders,  \* provider ids, in the order of preference
  Registered, Local, \* provider ids known to the registry; that of LocalProvider
  Cpu,               \* the class "local_cpu"; a GPU stands for its own class
  None,              \* no class, no task; also: an environment that pins no GPU
  MaxCrashes         \* bound

ASSUME PlacementAssumption ==
  /\ Gpus \subseteq Nat /\ MemoryMb \in [Gpus -> Nat]
  /\ GpuCount \in [Tasks -> Nat] /\ MinMemory \in [Tasks -> Nat]
  /\ AllowedProviders \in [Tasks -> Seq(STRING)] /\ Registered = {Local}
  /\ Cpu \notin Gpus /\ None \notin Gpus \cup {Cpu} \cup Tasks
  /\ MaxCrashes \in Nat

VARIABLES
  inventory,   \* what nvidia-smi lists now; nothing when it fails
  writable,    \* the provider's root is
  class,       \* resource_class of the compute_jobs row of a task
  launched,    \* CUDA_VISIBLE_DEVICES of each process started for it
  recorded,    \* the launch is on record
  lapsed,      \* its GPU has been missing from the inventory since the row
  at,          \* position of the controller: step, task, class, environment
  crashes

placementVars == <<inventory, writable, class, launched, recorded, lapsed, at, crashes>>

Idle == [step |-> "idle", task |-> None, class |-> None, env |-> None]

Position(step, t, c, env) == [step |-> step, task |-> t, class |-> c, env |-> env]

PlacementInit ==
  /\ inventory \in SUBSET Gpus
  /\ writable \in BOOLEAN
  /\ class = [t \in Tasks |-> None]
  /\ launched = [t \in Tasks |-> {}]
  /\ recorded = [t \in Tasks |-> FALSE]
  /\ lapsed = [t \in Tasks |-> FALSE]
  /\ at = Idle
  /\ crashes = 0
-----------------------------------------------------------------------------
(* Offers and the choice between them.                                     *)

Offers == {Cpu} \cup inventory

CapabilitiesOf(c) ==
  IF c = Cpu THEN {"cpu", "local_process"} ELSE {"cpu", "cuda", "local_process"}

GpuPerNode(c) == IF c = Cpu THEN 0 ELSE 1

\* round(memory_mb / 1024, 3), in thousandths: to the nearest, a tie to the even one.
MemoryOf(c) ==
  IF c = Cpu THEN 0 ELSE
  LET thousandths == (1000 * MemoryMb[c]) \div 1024
      rest == (1000 * MemoryMb[c]) % 1024
  IN IF rest > 512 \/ (rest = 512 /\ thousandths % 2 = 1) THEN thousandths + 1 ELSE thousandths

\* Mutant of Suits: a GPU has to be larger than what is asked for.
MutSuits(t, c) ==
  \/ GpuCount[t] = 0 /\ GpuPerNode(c) = 0
  \/ GpuCount[t] > 0 /\ GpuPerNode(c) >= GpuCount[t] /\ MemoryOf(c) > MinMemory[t]

\* The condition that can_run and the router share.
Suits(t, c) ==
  \/ GpuCount[t] = 0 /\ GpuPerNode(c) = 0
  \/ GpuCount[t] > 0 /\ GpuPerNode(c) >= GpuCount[t] /\ MemoryOf(c) >= MinMemory[t]

CanRun(t) == \E c \in Offers : Capabilities[t] \subseteq CapabilitiesOf(c) /\ Suits(t, c)

\* The router takes the first offer that suits, whatever its capabilities.
Chosen(t) ==
  LET fits == {c \in Offers : Suits(t, c)} IN
  IF Cpu \in fits THEN Cpu ELSE CHOOSE g \in fits : \A h \in fits : g <= h

\* The loop over allowed_providers reaches LocalProvider: nothing unknown to the
\* registry, whose LookupError would end it, comes first.
Reached(t) ==
  \E i \in DOMAIN AllowedProviders[t] :
    /\ AllowedProviders[t][i] = Local
    /\ \A j \in 1 .. i : AllowedProviders[t][j] \in Registered

\* Mutant of Route: an offer is looked for without can_run.
MutRoute(t) ==
  IF Reached(t) /\ writable /\ \E c \in Offers : Suits(t, c) THEN Chosen(t) ELSE None

Route(t) == IF Reached(t) /\ writable /\ CanRun(t) THEN Chosen(t) ELSE None
-----------------------------------------------------------------------------
(* Dispatch and submission of one task.                                    *)

GoTo(position) == at' = position /\ UNCHANGED <<inventory, writable, crashes>>

\* Mutant of Pin: the GPU that suits best by now.
MutPin(c) == IF c \in Gpus /\ inventory # {} THEN CHOOSE g \in inventory : TRUE ELSE None

\* Mutant of Pin: whatever the class is.
MutPinClass(c) == c

\* prepare pins the GPU whose class it is given, if it is among the offers.
Pin(c) == IF c \in inventory THEN c ELSE None

\* Without a route the router's RuntimeError ends the process: nothing is kept.
RouteTask(t) ==
  /\ at = Idle
  /\ class[t] = None
  /\ Route(t) # None
  /\ GoTo(Position("routed", t, Route(t), None))
  /\ UNCHANGED <<class, launched, recorded, lapsed>>

\* The environment goes to prepared.json; submission prepares another one.
PrepareDispatch ==
  /\ at.step = "routed"
  /\ GoTo(Position("prepared", at.task, at.class, Pin(at.class)))
  /\ UNCHANGED <<class, launched, recorded, lapsed>>

CreateJob ==
  /\ at.step = "prepared"
  /\ class' = [class EXCEPT ![at.task] = at.class]
  /\ lapsed' = [lapsed EXCEPT ![at.task] = at.class \notin Offers]
  /\ GoTo(Idle)
  /\ UNCHANGED <<launched, recorded>>

PrepareSubmission(t) ==
  /\ at = Idle
  /\ class[t] # None
  /\ ~recorded[t]
  /\ GoTo(Position("submit", t, class[t], Pin(class[t])))
  /\ UNCHANGED <<class, launched, recorded, lapsed>>

\* Popen with the prepared environment.
Launch ==
  /\ at.step = "submit"
  /\ launched' = [launched EXCEPT ![at.task] = @ \cup {at.env}]
  /\ GoTo([at EXCEPT !.step = "record"])
  /\ UNCHANGED <<class, recorded, lapsed>>

RecordLaunch ==
  /\ at.step = "record"
  /\ recorded' = [recorded EXCEPT ![at.task] = TRUE]
  /\ GoTo(Idle)
  /\ UNCHANGED <<class, launched, lapsed>>

Crash ==
  /\ at # Idle
  /\ crashes < MaxCrashes
  /\ crashes' = crashes + 1
  /\ at' = Idle
  /\ UNCHANGED <<inventory, writable, class, launched, recorded, lapsed>>

\* GPUs fall off the bus, come back, or nvidia-smi fails.
InventoryChanges ==
  /\ inventory' \in SUBSET Gpus
  /\ lapsed' = [t \in Tasks |-> lapsed[t] \/ class[t] \in Gpus \ inventory']
  /\ UNCHANGED <<writable, class, launched, recorded, at, crashes>>

PermissionChanges ==
  /\ writable' = ~writable
  /\ UNCHANGED <<inventory, class, launched, recorded, lapsed, at, crashes>>

PlacementNext ==
  \/ \E t \in Tasks : RouteTask(t) \/ PrepareSubmission(t)
  \/ PrepareDispatch \/ CreateJob \/ Launch \/ RecordLaunch \/ Crash
  \/ InventoryChanges \/ PermissionChanges

PlacementSpec == PlacementInit /\ [][PlacementNext]_placementVars
-----------------------------------------------------------------------------
Classes == Gpus \cup {Cpu}

PlacementTypeOK ==
  /\ inventory \in SUBSET Gpus /\ writable \in BOOLEAN
  /\ class \in [Tasks -> Classes \cup {None}]
  /\ launched \in [Tasks -> SUBSET (Gpus \cup {None})]
  /\ recorded \in [Tasks -> BOOLEAN] /\ lapsed \in [Tasks -> BOOLEAN]
  /\ \/ at = Idle
     \/ at \in [step : {"routed", "prepared", "submit", "record"}, task : Tasks,
                class : Classes, env : Gpus \cup {None}]
  /\ crashes \in Nat

(* What a specification asks of the place it runs at and the code checks,  *)
(* with no algorithm, up to a tolerance on the memory, in MiB / 1000: its  *)
(* number of GPUs, their memory and its capabilities.  ResourceRequirements*)
(* also has cpu_cores and memory_gb (protocols/compute.py:42-43).  Nothing *)
(* compares those with the machine, so nothing here says they are met.     *)
MeetsChecked(t, c, tolerance) ==
  IF c = Cpu
    THEN GpuCount[t] = 0 /\ Capabilities[t] \subseteq {"cpu", "local_process"}
    ELSE /\ GpuCount[t] = 1 /\ Capabilities[t] \subseteq {"cpu", "cuda", "local_process"}
         /\ 1024 * MinMemory[t] <= 1000 * MemoryMb[c] + tolerance

(* Every job is placed where its GPUs, their memory and its capabilities   *)
(* are what it asked for, although the router itself never looks at the    *)
(* capabilities of the offer it returns (router.py:29-39).  The memory may *)
(* fall short, by the half of a thousandth of a GB that the rounding of an *)
(* offer hides.  Its cpu_cores and memory_gb may not be there at all.      *)
PlacementsMeetChecked == \A t \in Tasks : class[t] # None => MeetsChecked(t, class[t], 512)

(* The router gives up, which ends the controller, on a task that an offer *)
(* suits in what the code checks only when LocalProvider cannot be written *)
(* to, or the task's list of providers does not reach it: LocalProvider is *)
(* not on the list, or after an id that the registry does not know, whose  *)
(* LookupError ends the search.  And it has no route for a task that no    *)
(* offer suits.                                                            *)
RouterIsExact ==
  \A t \in Tasks :
    /\ Reached(t) /\ writable /\ (\E c \in Offers : MeetsChecked(t, c, 0)) => Route(t) # None
    /\ Route(t) # None => \E c \in Offers : MeetsChecked(t, c, 512)

(* However often a submission is cut off and prepared again, and whatever  *)
(* the inventory is by then, a process is started on the GPU its job was   *)
(* placed on, or, only if that GPU has been missing since, on none.        *)
LaunchesKeepToPlacement ==
  \A t \in Tasks :
    /\ launched[t] \subseteq {class[t], None} \ {Cpu}
    /\ class[t] \in Gpus /\ None \in launched[t] => lapsed[t]
=============================================================================
