---------------------------- MODULE PlacementProofs ----------------------------
(***************************************************************************)
(* Proofs about Placement, for any tasks, GPUs and requirements, any       *)
(* history of the inventory and any number of crashes.                     *)
(***************************************************************************)
EXTENDS Placement, TLAPS, WellFoundedInduction

Below == OpToRel(<, Nat)

LEMMA LeastOfSome ==
  ASSUME NEW S \in SUBSET Nat, S # {}
  PROVE  \E n \in S : \A m \in S : n <= m
<1>1. IsWellFoundedOn(Below, Nat)
  BY NatLessThanWellFounded DEF Below
<1>2. PICK n \in S : \A m \in S : ~ (<<m, n>> \in Below)
  BY <1>1, WFMin
<1>3. ASSUME NEW m \in S, m < n PROVE <<m, n>> \in Below
  BY <1>3, Zenon DEF Below, OpToRel
<1>4. \A m \in S : ~ (m < n)
  BY <1>2, <1>3
<1>5. n \in Nat /\ \A m \in S : m \in Nat
  OBVIOUS
<1>6. QED BY <1>4, <1>5

\* Rounding an offer hides at most half a thousandth, and never shortens what suffices.
LEMMA Rounding ==
  ASSUME NEW c \in Gpus, NEW m \in Nat
  PROVE  /\ MemoryOf(c) \in Nat
         /\ m <= MemoryOf(c) => 1024 * m <= 1000 * MemoryMb[c] + 512
         /\ 1024 * m <= 1000 * MemoryMb[c] => m <= MemoryOf(c)
<1> DEFINE x == 1000 * MemoryMb[c]
           d == x \div 1024
           r == x % 1024
<1>1. x \in Nat
  BY PlacementAssumption
<1>2. d \in Nat /\ r \in 0 .. 1023 /\ x = 1024 * d + r
  <2> HIDE DEF x
  <2> QED BY <1>1 DEF d, r
<1>3. /\ MemoryOf(c) \in {d, d + 1}
      /\ MemoryOf(c) = d + 1 => r >= 512
  <2>1. c # Cpu
    BY PlacementAssumption
  <2>2. MemoryOf(c) = IF r > 512 \/ (r = 512 /\ d % 2 = 1) THEN d + 1 ELSE d
    BY <2>1, Zenon DEF MemoryOf
  <2> HIDE DEF x, d, r
  <2>3. QED BY <1>2, <2>2
<1> HIDE DEF x, d, r
<1>4. QED
  <2>1. (1024 * m <= x + 512 <=> 1024 * m <= 1000 * MemoryMb[c] + 512)
        /\ (1024 * m <= x <=> 1024 * m <= 1000 * MemoryMb[c])
    BY DEF x
  <2>2. m <= MemoryOf(c) => 1024 * m <= x + 512
    BY <1>1, <1>2, <1>3
  <2>3. 1024 * m <= x => m <= MemoryOf(c)
    BY <1>1, <1>2, <1>3
  <2>4. QED BY <1>2, <1>3, <2>1, <2>2, <2>3

LEMMA ChosenSuits ==
  ASSUME inventory \in SUBSET Gpus, NEW t \in Tasks,
         NEW c \in Offers, Suits(t, c)
  PROVE  Chosen(t) \in Offers /\ Suits(t, Chosen(t))
<1> DEFINE fits == {o \in Offers : Suits(t, o)}
<1>1. CASE Cpu \in fits
  BY <1>1 DEF Chosen
<1>2. CASE Cpu \notin fits
  <2>1. fits \in SUBSET Nat /\ fits # {}
    BY <1>2, PlacementAssumption DEF Offers
  <2>2. \E g \in fits : \A h \in fits : g <= h
    <3> HIDE DEF fits
    <3> QED BY <2>1, LeastOfSome
  <2>3. Chosen(t) = CHOOSE g \in fits : \A h \in fits : g <= h
    BY <1>2 DEF Chosen
  <2>4. Chosen(t) \in fits
    <3> HIDE DEF fits
    <3> QED BY <2>2, <2>3
  <2>5. QED BY <2>4
<1>3. QED BY <1>1, <1>2

LEMMA SuitsMeets ==
  ASSUME inventory \in SUBSET Gpus, NEW t \in Tasks, NEW c \in Offers,
         Suits(t, c), NEW o \in Offers, Suits(t, o),
         Capabilities[t] \subseteq CapabilitiesOf(o)
  PROVE  MeetsChecked(t, c, 512)
<1>1. GpuCount[t] \in Nat /\ MinMemory[t] \in Nat
  BY PlacementAssumption
<1>2. CASE c = Cpu
  <2>1. GpuCount[t] = 0
    BY <1>1, <1>2 DEF Suits, GpuPerNode
  <2>2. o = Cpu
    BY <1>1, <2>1 DEF Suits, GpuPerNode
  <2>3. QED BY <1>2, <2>1, <2>2 DEF MeetsChecked, CapabilitiesOf
<1>3. CASE c # Cpu
  <2>1. c \in Gpus
    BY <1>3 DEF Offers
  <2>2. GpuCount[t] = 1 /\ MemoryOf(c) >= MinMemory[t]
    BY <1>1, <1>3 DEF Suits, GpuPerNode
  <2>3. 1024 * MinMemory[t] <= 1000 * MemoryMb[c] + 512
    BY <1>1, <2>1, <2>2, Rounding
  <2>4. Capabilities[t] \subseteq {"cpu", "cuda", "local_process"}
    BY DEF CapabilitiesOf
  <2>5. QED BY <1>3, <2>2, <2>3, <2>4 DEF MeetsChecked
<1>4. QED BY <1>2, <1>3

LEMMA RouteMeets ==
  ASSUME inventory \in SUBSET Gpus, NEW t \in Tasks, Route(t) # None
  PROVE  Route(t) \in Offers /\ MeetsChecked(t, Route(t), 512)
<1>1. Route(t) = Chosen(t) /\ CanRun(t)
  BY DEF Route
<1>2. PICK o \in Offers : Capabilities[t] \subseteq CapabilitiesOf(o) /\ Suits(t, o)
  BY <1>1 DEF CanRun
<1>3. Chosen(t) \in Offers /\ Suits(t, Chosen(t))
  BY <1>2, ChosenSuits
<1>4. MeetsChecked(t, Chosen(t), 512)
  BY <1>2, <1>3, SuitsMeets
<1>5. QED BY <1>1, <1>3, <1>4

LEMMA RouteFound ==
  ASSUME inventory \in SUBSET Gpus, NEW t \in Tasks, Reached(t), writable,
         NEW c \in Offers, MeetsChecked(t, c, 0)
  PROVE  Route(t) # None
<1>1. GpuCount[t] \in Nat /\ MinMemory[t] \in Nat
  BY PlacementAssumption
<1>2. Capabilities[t] \subseteq CapabilitiesOf(c)
  BY DEF MeetsChecked, CapabilitiesOf
<1>3. Suits(t, c)
  <2>1. CASE c = Cpu
    BY <2>1 DEF MeetsChecked, Suits, GpuPerNode
  <2>2. CASE c # Cpu
    <3>1. c \in Gpus
      BY <2>2 DEF Offers
    <3>2. GpuCount[t] = 1 /\ 1024 * MinMemory[t] <= 1000 * MemoryMb[c] + 0
      BY <2>2 DEF MeetsChecked
    <3>3. MemoryMb[c] \in Nat
      BY <3>1, PlacementAssumption
    <3>4. MinMemory[t] <= MemoryOf(c) /\ MemoryOf(c) \in Nat
      BY <1>1, <3>1, <3>2, <3>3, Rounding
    <3>5. QED BY <1>1, <2>2, <3>2, <3>4 DEF Suits, GpuPerNode
  <2>3. QED BY <2>1, <2>2
<1>4. Chosen(t) \in Offers
  BY <1>3, ChosenSuits
<1>5. Chosen(t) # None
  BY <1>4, PlacementAssumption DEF Offers
<1>6. QED BY <1>2, <1>3, <1>5 DEF Route, CanRun
-----------------------------------------------------------------------------
\* What holds between the steps of a dispatch or a submission.
PositionOK ==
  /\ at.step \in {"routed", "prepared"} =>
       class[at.task] = None /\ MeetsChecked(at.task, at.class, 512)
  /\ at.step \in {"submit", "record"} =>
       /\ class[at.task] = at.class
       /\ at.env \in {at.class, None} \ {Cpu}
       /\ at.env = None /\ at.class \in Gpus => lapsed[at.task]

\* A GPU that is missing now is noted for the jobs placed on it.
LapsesNoted == \A t \in Tasks : class[t] \in Gpus \ inventory => lapsed[t]

UnplacedIdle == \A t \in Tasks : class[t] = None => launched[t] = {}

PlacementInv ==
  /\ PlacementTypeOK
  /\ PlacementsMeetChecked
  /\ LaunchesKeepToPlacement
  /\ PositionOK
  /\ LapsesNoted
  /\ UnplacedIdle

LEMMA InitPlacement == PlacementInit => PlacementInv
<1> SUFFICES ASSUME PlacementInit PROVE PlacementInv
  OBVIOUS
<1> USE DEF PlacementInit
<1>1. PlacementTypeOK
  BY PlacementAssumption DEF PlacementTypeOK
<1>2. PlacementsMeetChecked /\ LaunchesKeepToPlacement /\ UnplacedIdle
  BY DEF PlacementsMeetChecked, LaunchesKeepToPlacement, UnplacedIdle
<1>3. PositionOK
  BY DEF PositionOK, Idle
<1>4. LapsesNoted
  BY PlacementAssumption DEF LapsesNoted
<1>5. QED BY <1>1, <1>2, <1>3, <1>4 DEF PlacementInv

LEMMA StepPlacement == PlacementInv /\ [PlacementNext]_placementVars => PlacementInv'
<1> SUFFICES ASSUME PlacementInv, [PlacementNext]_placementVars PROVE PlacementInv'
  OBVIOUS
<1> USE DEF PlacementInv
<1>n. None \notin Classes
  BY PlacementAssumption DEF Classes
<1>a. ASSUME NEW t \in Tasks, RouteTask(t) PROVE PlacementInv'
  <2> USE <1>a DEF RouteTask, GoTo, Position
  <2>1. PICK o \in Classes : o = Route(t) /\ MeetsChecked(t, o, 512)
    BY RouteMeets DEF PlacementTypeOK, Offers, Classes
  <2>2. PlacementTypeOK'
    BY <2>1 DEF PlacementTypeOK
  <2>3. PositionOK'
    <3>1. at'.step = "routed" /\ at'.task = t /\ at'.class = o /\ class'[t] = None
      BY <2>1
    <3>2. MeetsChecked(t, o, 512)'
      BY <2>1 DEF MeetsChecked
    <3>3. QED BY <3>1, <3>2 DEF PositionOK
  <2>4. (PlacementsMeetChecked /\ LaunchesKeepToPlacement /\ LapsesNoted /\ UnplacedIdle)'
    BY DEF PlacementsMeetChecked, LaunchesKeepToPlacement, LapsesNoted, UnplacedIdle, MeetsChecked
  <2>5. QED BY <2>2, <2>3, <2>4
<1>b. ASSUME PrepareDispatch PROVE PlacementInv'
  <2> USE <1>b DEF PrepareDispatch, GoTo, Position
  <2>1. /\ at.task \in Tasks /\ at.class \in Classes
        /\ at' = [step |-> "prepared", task |-> at.task, class |-> at.class,
                  env |-> Pin(at.class)]
    BY DEF PlacementTypeOK, Idle
  <2>2. Pin(at.class) \in Gpus \cup {None}
    BY DEF Pin, PlacementTypeOK
  <2>3. PlacementTypeOK'
    BY <2>1, <2>2 DEF PlacementTypeOK
  <2>4. PositionOK'
    BY <2>1 DEF PositionOK, MeetsChecked
  <2>5. (PlacementsMeetChecked /\ LaunchesKeepToPlacement /\ LapsesNoted /\ UnplacedIdle)'
    BY DEF PlacementsMeetChecked, LaunchesKeepToPlacement, LapsesNoted, UnplacedIdle, MeetsChecked
  <2>6. QED BY <2>3, <2>4, <2>5
<1>c. ASSUME CreateJob PROVE PlacementInv'
  <2> USE <1>c DEF CreateJob, GoTo
  <2>1. /\ at.task \in Tasks /\ at.class \in Classes
        /\ class[at.task] = None /\ MeetsChecked(at.task, at.class, 512)
    BY DEF PlacementTypeOK, Idle, PositionOK
  <2>2. PlacementTypeOK'
    BY <2>1 DEF PlacementTypeOK
  <2>3. PositionOK'
    BY DEF PositionOK, Idle
  <2>4. PlacementsMeetChecked'
    BY <2>1 DEF PlacementsMeetChecked, PlacementTypeOK, MeetsChecked
  <2>5. LaunchesKeepToPlacement'
    <3>1. launched[at.task] = {}
      BY <2>1 DEF UnplacedIdle
    <3>2. QED BY <2>1, <3>1 DEF LaunchesKeepToPlacement, PlacementTypeOK
  <2>6. LapsesNoted'
    BY <2>1, PlacementAssumption DEF LapsesNoted, PlacementTypeOK, Offers
  <2>7. UnplacedIdle'
    BY <1>n, <2>1 DEF UnplacedIdle, PlacementTypeOK
  <2>8. QED BY <2>2, <2>3, <2>4, <2>5, <2>6, <2>7
<1>d. ASSUME NEW t \in Tasks, PrepareSubmission(t) PROVE PlacementInv'
  <2> USE <1>d DEF PrepareSubmission, GoTo, Position
  <2>1. class[t] \in Classes /\ inventory \in SUBSET Gpus /\ Cpu \notin Gpus /\ Cpu # None
    BY PlacementAssumption DEF PlacementTypeOK
  <2>2. /\ Pin(class[t]) \in Gpus \cup {None}
        /\ Pin(class[t]) \in {class[t], None} \ {Cpu}
        /\ Pin(class[t]) = None /\ class[t] \in Gpus => lapsed[t]
    BY <2>1, <1>n DEF Pin, LapsesNoted, Classes
  <2>3. PlacementTypeOK'
    BY <2>1, <2>2 DEF PlacementTypeOK
  <2>4. PositionOK'
    BY <2>2 DEF PositionOK
  <2>5. (PlacementsMeetChecked /\ LaunchesKeepToPlacement /\ LapsesNoted /\ UnplacedIdle)'
    BY DEF PlacementsMeetChecked, LaunchesKeepToPlacement, LapsesNoted, UnplacedIdle, MeetsChecked
  <2>6. QED BY <2>3, <2>4, <2>5
<1>e. ASSUME Launch PROVE PlacementInv'
  <2> USE <1>e DEF Launch, GoTo
  <2>1. /\ at.task \in Tasks /\ at.class \in Classes /\ at.env \in Gpus \cup {None}
        /\ class[at.task] = at.class /\ at.env \in {at.class, None} \ {Cpu}
        /\ at.env = None /\ at.class \in Gpus => lapsed[at.task]
        /\ at' = [step |-> "record", task |-> at.task, class |-> at.class, env |-> at.env]
    BY DEF PlacementTypeOK, Idle, PositionOK
  <2>2. launched' \in [Tasks -> SUBSET (Gpus \cup {None})]
    BY <2>1 DEF PlacementTypeOK
  <2>3. PlacementTypeOK'
    BY <2>1, <2>2 DEF PlacementTypeOK
  <2>4. PositionOK'
    BY <2>1 DEF PositionOK
  <2>5. LaunchesKeepToPlacement'
    BY <2>1 DEF LaunchesKeepToPlacement, PlacementTypeOK
  <2>6. UnplacedIdle'
    BY <1>n, <2>1 DEF UnplacedIdle, PlacementTypeOK
  <2>7. (PlacementsMeetChecked /\ LapsesNoted)'
    BY DEF PlacementsMeetChecked, LapsesNoted, MeetsChecked
  <2>8. QED BY <2>3, <2>4, <2>5, <2>6, <2>7
<1>f. ASSUME RecordLaunch PROVE PlacementInv'
  <2> USE <1>f DEF RecordLaunch, GoTo
  <2>1. PlacementTypeOK'
    BY DEF PlacementTypeOK
  <2>2. PositionOK'
    BY DEF PositionOK, Idle
  <2>3. (PlacementsMeetChecked /\ LaunchesKeepToPlacement /\ LapsesNoted /\ UnplacedIdle)'
    BY DEF PlacementsMeetChecked, LaunchesKeepToPlacement, LapsesNoted, UnplacedIdle, MeetsChecked
  <2>4. QED BY <2>1, <2>2, <2>3
<1>g. ASSUME Crash PROVE PlacementInv'
  <2> USE <1>g DEF Crash
  <2>1. PlacementTypeOK'
    BY DEF PlacementTypeOK
  <2>2. PositionOK'
    BY DEF PositionOK, Idle
  <2>3. (PlacementsMeetChecked /\ LaunchesKeepToPlacement /\ LapsesNoted /\ UnplacedIdle)'
    BY DEF PlacementsMeetChecked, LaunchesKeepToPlacement, LapsesNoted, UnplacedIdle, MeetsChecked
  <2>4. QED BY <2>1, <2>2, <2>3
<1>h. ASSUME InventoryChanges PROVE PlacementInv'
  <2> USE <1>h DEF InventoryChanges
  <2>1. \A t \in Tasks : lapsed'[t] = (lapsed[t] \/ class[t] \in Gpus \ inventory')
    OBVIOUS
  <2>2. lapsed' \in [Tasks -> BOOLEAN]
    OBVIOUS
  <2>3. PlacementTypeOK'
    BY <2>2 DEF PlacementTypeOK
  <2>4. PositionOK'
    <3>1. at.step \in {"submit", "record"} => at.task \in Tasks
      BY DEF PlacementTypeOK, Idle
    <3>2. (at.step \in {"routed", "prepared"} =>
             class[at.task] = None /\ MeetsChecked(at.task, at.class, 512))'
      BY DEF PositionOK, MeetsChecked
    <3>3. (at.step \in {"submit", "record"} =>
             /\ class[at.task] = at.class
             /\ at.env \in {at.class, None} \ {Cpu}
             /\ at.env = None /\ at.class \in Gpus => lapsed[at.task])'
      <4> SUFFICES ASSUME at.step \in {"submit", "record"}
                   PROVE  /\ class[at.task] = at.class
                          /\ at.env \in {at.class, None} \ {Cpu}
                          /\ at.env = None /\ at.class \in Gpus => lapsed'[at.task]
        OBVIOUS
      <4>1. lapsed[at.task] => lapsed'[at.task]
        BY <2>1, <3>1
      <4>2. QED BY <4>1 DEF PositionOK
    <3>4. QED BY <3>2, <3>3 DEF PositionOK
  <2>5. LaunchesKeepToPlacement'
    BY <2>1 DEF LaunchesKeepToPlacement
  <2>6. LapsesNoted'
    BY <2>1 DEF LapsesNoted
  <2>7. (PlacementsMeetChecked /\ UnplacedIdle)'
    BY DEF PlacementsMeetChecked, UnplacedIdle, MeetsChecked
  <2>8. QED BY <2>3, <2>4, <2>5, <2>6, <2>7
<1>i. ASSUME PermissionChanges PROVE PlacementInv'
  <2> USE <1>i DEF PermissionChanges
  <2>1. PlacementTypeOK'
    BY DEF PlacementTypeOK
  <2>2. (PlacementsMeetChecked /\ LaunchesKeepToPlacement /\ PositionOK /\ LapsesNoted /\ UnplacedIdle)'
    BY DEF PlacementsMeetChecked, LaunchesKeepToPlacement, PositionOK, LapsesNoted, UnplacedIdle,
       MeetsChecked
  <2>3. QED BY <2>1, <2>2
<1>j. CASE UNCHANGED placementVars
  BY <1>j DEF placementVars, PlacementTypeOK, PlacementsMeetChecked, LaunchesKeepToPlacement,
     PositionOK, LapsesNoted, UnplacedIdle, MeetsChecked
<1>k. QED
  BY <1>a, <1>b, <1>c, <1>d, <1>e, <1>f, <1>g, <1>h, <1>i, <1>j DEF PlacementNext

\* The inductive invariant behind the theorems below holds throughout.
THEOREM PlacementCorrect == PlacementSpec => []PlacementInv
BY InitPlacement, StepPlacement, PTL DEF PlacementSpec

\* Every placement the controller ever makes has its type.
THEOREM PlacementTypeCorrect == PlacementSpec => []PlacementTypeOK
<1>1. PlacementInv => PlacementTypeOK
  BY DEF PlacementInv
<1>2. QED BY <1>1, PlacementCorrect, PTL

\* Every job is placed where what it asks for and the code checks (GPUs, their memory,
\* capabilities; not cpu_cores and memory_gb) is there, up to the rounding of an offer.
THEOREM PlacementsCorrect == PlacementSpec => []PlacementsMeetChecked
<1>1. PlacementInv => PlacementsMeetChecked
  BY DEF PlacementInv
<1>2. QED BY <1>1, PlacementCorrect, PTL

\* Of what the code checks, the router is exact: it has a route for each task that an
\* offer suits and whose list of providers reaches a writable LocalProvider, and for no
\* task that no offer suits.
THEOREM RouterCorrect == PlacementSpec => []RouterIsExact
<1>1. ASSUME PlacementTypeOK PROVE RouterIsExact
  <2>1. inventory \in SUBSET Gpus
    BY <1>1 DEF PlacementTypeOK
  <2>2. ASSUME NEW t \in Tasks, Reached(t), writable, NEW c \in Offers, MeetsChecked(t, c, 0)
        PROVE  Route(t) # None
    BY <2>1, <2>2, RouteFound
  <2>3. ASSUME NEW t \in Tasks, Route(t) # None
        PROVE  \E c \in Offers : MeetsChecked(t, c, 512)
    BY <2>1, <2>3, RouteMeets
  <2>4. QED BY <2>2, <2>3 DEF RouterIsExact
<1>2. PlacementTypeOK => RouterIsExact
  BY <1>1
<1>3. QED BY <1>2, PlacementTypeCorrect, PTL

\* A process starts on the GPU its job was placed on, or on none once that GPU was missing.
THEOREM LaunchesCorrect == PlacementSpec => []LaunchesKeepToPlacement
<1>1. PlacementInv => LaunchesKeepToPlacement
  BY DEF PlacementInv
<1>2. QED BY <1>1, PlacementCorrect, PTL
=============================================================================
