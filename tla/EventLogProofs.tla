---------------------------- MODULE EventLogProofs ----------------------------
(***************************************************************************)
(* What holds of the audit log for any number of writers, rows and events. *)
(***************************************************************************)
EXTENDS EventLog, SequenceTheorems, WellFoundedInduction, TLAPS

(* The moves of a table stay among its statuses, none of which is a mark   *)
(* of this model.                                                          *)
LEMMA Tables ==
  ASSUME NEW r \in Rows
  PROVE  /\ DOMAIN Table(r) \subseteq Statuses
         /\ First(r) \in DOMAIN Table(r)
  BY DEF Table, First, Statuses, TaskStatus, ComputeExecutionStatus,
         TASK_TRANSITIONS, COMPUTE_TRANSITIONS, TerminalCompute

(* Setting one column of one session keeps the columns typed.              *)
LEMMA SetColumn ==
  ASSUME NEW cols \in Columns, NEW r \in Rows,
         NEW s \in DOMAIN Table(r) \cup {"ABSENT", "UNREAD"}
  PROVE  [cols EXCEPT ![r] = s] \in Columns
  <1>1. s \in Statuses  BY Tables DEF Statuses
  <1> QED  BY <1>1 DEF Columns

LEMMA TypeInit == ASSUME Init PROVE EventLogTypeOK
  <1>1. Nothing \in Columns  BY DEF Nothing, Columns, Statuses
  <1>2. [r \in Rows |-> "ABSENT"] \in Columns  BY DEF Columns, Statuses
  <1>3. db \in Stores  BY <1>2 DEF Init, Stores
  <1> QED  BY <1>1, <1>3 DEF Init, EventLogTypeOK

(* What a process sees is a store whoever holds the lock.                  *)
LEMMA ViewType ==
  ASSUME EventLogTypeOK, NEW w \in Writers
  PROVE  /\ View(w) \in Stores
         /\ View(w).status \in Columns
         /\ View(w).seq \in Nat
         /\ View(w).log \in SUBSET [seq : Nat, change : Changes]
  BY DEF EventLogTypeOK, View, Stores

LEMMA ForgetType ==
  ASSUME EventLogTypeOK, NEW w \in Writers, Forget(w)
  PROVE  /\ seen' \in [Writers -> Nat \cup {-1}]
         /\ base' \in [Writers -> Columns]
         /\ mem' \in [Writers -> Columns]
         /\ pending' \in [Writers -> Seq(Changes)]
  <1>1. Nothing \in Columns  BY DEF Nothing, Columns, Statuses
  <1> QED  BY <1>1 DEF EventLogTypeOK, Forget

LEMMA NoteType ==
  ASSUME EventLogTypeOK, NEW w \in Writers, NEW change \in Changes, Note(w, change)
  PROVE  pending' \in [Writers -> Seq(Changes)]
  <1>1. Append(pending[w], change) \in Seq(Changes)  BY DEF EventLogTypeOK
  <1> QED  BY <1>1 DEF EventLogTypeOK, Note

(* The events of a flush.                                                  *)
LEMMA NumberedType ==
  ASSUME EventLogTypeOK, NEW w \in Writers, pending[w] # <<>> => seen[w] # -1
  PROVE  /\ Numbered(w) \in SUBSET [seq : Nat, change : Changes]
         /\ pending[w] = <<>> => Numbered(w) = {}
  <1>1. pending[w] \in Seq(Changes) /\ seen[w] \in Nat \cup {-1}  BY DEF EventLogTypeOK
  <1>2. \A i \in DOMAIN pending[w] : pending[w] # <<>> /\ i \in Nat /\ pending[w][i] \in Changes
    BY <1>1
  <1> QED  BY <1>1, <1>2 DEF Numbered
-----------------------------------------------------------------------------
(* No session has a pending event without having read the project.         *)
ReadFirst == \A w \in Writers : pending[w] # <<>> => seen[w] # -1

LEMMA ReadFirstStep == ASSUME EventLogTypeOK, ReadFirst, [Next]_vars PROVE ReadFirst'
  <1> USE DEF EventLogTypeOK, ReadFirst
  <1>1. CASE UNCHANGED vars  BY <1>1 DEF vars
  <1>2. ASSUME NEW w \in Writers, LoadProject(w) PROVE ReadFirst'
    <2>1. View(w).seq \in Nat  BY ViewType
    <2> QED  BY <1>2, <2>1 DEF LoadProject
  <1>3. ASSUME NEW w \in Writers, NEW about \in JobRows \cup {Other}, NoteOther(w, about)
        PROVE  ReadFirst'
    BY <1>3 DEF NoteOther, Note
  <1>4. ASSUME NEW w \in Writers, Flush(w) PROVE ReadFirst'  BY <1>4 DEF Flush
  <1>5. ASSUME NEW w \in Writers, Forget(w) PROVE ReadFirst'  BY <1>5 DEF Forget
  <1>6. ASSUME NEW w \in Writers, NEW r \in Rows, Create(w, r) PROVE ReadFirst'
    <2>1. View(w).seq \in Nat  BY ViewType
    <2> QED  BY <1>6, <2>1 DEF Create
  <1>7. ASSUME NEW w \in Writers, NEW r \in Rows, NEW to, Transition(w, r, to) PROVE ReadFirst'
    BY <1>7 DEF Transition, Note
  <1> QED  BY <1>1, <1>2, <1>3, <1>4, <1>5, <1>6, <1>7
           DEF Next, Commit, Rollback, Load, Assign, vars

(* A flush writes columns, a number and events of the right kinds.         *)
LEMMA FlushType ==
  ASSUME EventLogTypeOK, ReadFirst, NEW w \in Writers, Flush(w)
  PROVE  EventLogTypeOK'
  <1>1. draft'.status \in Columns
    <2>1. View(w).status \in Columns /\ mem[w] \in Columns  BY ViewType DEF EventLogTypeOK
    <2> QED  BY <2>1 DEF Flush, Columns
  <1>2. draft'.seq \in Nat /\ draft'.log \in SUBSET [seq : Nat, change : Changes]
    <2>1. seen[w] \in Nat \cup {-1} /\ pending[w] \in Seq(Changes)  BY DEF EventLogTypeOK
    <2> QED  BY <2>1, ViewType, NumberedType DEF Flush, ReadFirst
  <1>3. draft' \in Stores  BY <1>1, <1>2 DEF Flush, Stores
  <1>4. seen' \in [Writers -> Nat \cup {-1}]
    BY DEF Flush, EventLogTypeOK, ReadFirst
  <1> QED  BY <1>3, <1>4 DEF EventLogTypeOK, Flush

LEMMA CreateType ==
  ASSUME EventLogTypeOK, NEW w \in Writers, NEW r \in Rows, Create(w, r)
  PROVE  EventLogTypeOK'
  <1>1. First(r) \in DOMAIN Table(r) /\ First(r) \in Statuses  BY Tables
  <1>2. draft' \in Stores
    <2>1. [View(w).status EXCEPT ![r] = First(r)] \in Columns  BY <1>1, ViewType, SetColumn
    <2> QED  BY <2>1, ViewType DEF Create, Stores
  <1>3. base' \in [Writers -> Columns] /\ mem' \in [Writers -> Columns]
    <2>1. /\ [base[w] EXCEPT ![r] = First(r)] \in Columns
          /\ [mem[w] EXCEPT ![r] = First(r)] \in Columns
      BY <1>1, SetColumn DEF EventLogTypeOK
    <2> QED  BY <2>1 DEF Create, EventLogTypeOK
  <1>4. pending' \in [Writers -> Seq(Changes)]
    <2>1. Change(r, "ABSENT", First(r)) \in Changes  BY <1>1 DEF Change, Changes, Told, Statuses
    <2> QED  BY <2>1 DEF Create, EventLogTypeOK
  <1>5. seen' \in [Writers -> Nat \cup {-1}]  BY ViewType DEF Create, EventLogTypeOK
  <1> QED  BY <1>2, <1>3, <1>4, <1>5 DEF EventLogTypeOK, Create

LEMMA TypeNext == ASSUME EventLogTypeOK, ReadFirst, [Next]_vars PROVE EventLogTypeOK'
  <1>1. CASE UNCHANGED vars  BY <1>1 DEF vars, EventLogTypeOK
  <1>2. ASSUME NEW w \in Writers, LoadProject(w) PROVE EventLogTypeOK'
    BY <1>2, ViewType DEF LoadProject, EventLogTypeOK
  <1>3. ASSUME NEW w \in Writers, NEW about \in JobRows \cup {Other}, NoteOther(w, about)
        PROVE  EventLogTypeOK'
    <2>1. Change(about, "OBSERVED", "OBSERVED") \in Changes  BY DEF Change, Changes, Told, Rows
    <2> QED  BY <1>3, <2>1, NoteType DEF NoteOther, EventLogTypeOK
  <1>4. ASSUME NEW w \in Writers, Commit(w) PROVE EventLogTypeOK'
    BY <1>4, ForgetType DEF Commit, EventLogTypeOK
  <1>5. ASSUME NEW w \in Writers, Rollback(w) PROVE EventLogTypeOK'
    BY <1>5, ForgetType DEF Rollback, EventLogTypeOK
  <1>6. ASSUME NEW w \in Writers, NEW r \in Rows, Load(w, r) PROVE EventLogTypeOK'
    <2>1. View(w).status[r] \in DOMAIN Table(r) \cup {"ABSENT", "UNREAD"}
      BY ViewType DEF Columns
    <2>2. /\ [base[w] EXCEPT ![r] = View(w).status[r]] \in Columns
          /\ [mem[w] EXCEPT ![r] = View(w).status[r]] \in Columns
      BY <2>1, SetColumn DEF EventLogTypeOK
    <2> QED  BY <1>6, <2>2 DEF Load, EventLogTypeOK
  <1>7. ASSUME NEW w \in Writers, NEW r \in Rows, NEW to \in DOMAIN Table(r), Transition(w, r, to)
        PROVE  EventLogTypeOK'
    <2>1. [mem[w] EXCEPT ![r] = to] \in Columns  BY SetColumn DEF EventLogTypeOK
    <2>2. Change(r, mem[w][r], to) \in Changes
      BY Tables DEF Change, Changes, Told, EventLogTypeOK, Columns
    <2>3. pending' \in [Writers -> Seq(Changes)]  BY <1>7, <2>2, NoteType DEF Transition
    <2> QED  BY <1>7, <2>1, <2>3 DEF Transition, EventLogTypeOK
  <1>8. ASSUME NEW w \in Writers, NEW r \in Rows, NEW to, Assign(w, r, to)
        PROVE  EventLogTypeOK'
    <2>1. [mem[w] EXCEPT ![r] = to] \in Columns  BY <1>8, SetColumn DEF Assign, EventLogTypeOK
    <2> QED  BY <1>8, <2>1 DEF Assign, EventLogTypeOK
  <1> QED  BY <1>1, <1>2, <1>3, <1>4, <1>5, <1>6, <1>7, <1>8, FlushType, CreateType DEF Next

(* Statuses, numbers and events stay of their kinds, in memory and in the  *)
(* database, whatever the processes do.                                    *)
THEOREM TypeCorrect == Spec => [](EventLogTypeOK /\ ReadFirst)
  <1>1. Init => EventLogTypeOK /\ ReadFirst  BY TypeInit DEF Init, ReadFirst
  <1>2. EventLogTypeOK /\ ReadFirst /\ [Next]_vars => EventLogTypeOK' /\ ReadFirst'
    BY TypeNext, ReadFirstStep
  <1> QED  BY <1>1, <1>2, PTL DEF Spec
-----------------------------------------------------------------------------
(* A log whose events are numbered 1 .. n, each number once.               *)
Exact(log, n) ==
  /\ {e.seq : e \in log} = 1 .. n
  /\ \A e, f \in log : e.seq = f.seq => e = f

\* The events of the changes p, numbered from k on.
From(k, p) == {[seq |-> k + i, change |-> p[i]] : i \in DOMAIN p}

(* Why a stale read is harmless: the first of the new numbers is taken if  *)
(* the counter was overtaken, and if it was not they go on from its end.   *)
LEMMA Extend ==
  ASSUME NEW log, NEW n \in Nat, Exact(log, n), NEW k \in Nat, k <= n,
         NEW p, NEW m \in Nat, m > 0, DOMAIN p = 1 .. m,
         \A e \in From(k, p), f \in log : e.seq # f.seq
  PROVE  k = n /\ Exact(log \cup From(k, p), k + m)
  <1> DEFINE new == From(k, p)
  <1> USE DEF From
  <1>1. k = n
    <2>1. SUFFICES ASSUME k < n PROVE FALSE  OBVIOUS
    <2>2. [seq |-> k + 1, change |-> p[1]] \in new  OBVIOUS
    <2>3. k + 1 \in 1 .. n  BY <2>1
    <2>4. k + 1 \in {f.seq : f \in log}  BY <2>3 DEF Exact
    <2>5. PICK f \in log : f.seq = k + 1  BY <2>4
    <2> QED  BY <2>2, <2>5
  <1>2. {e.seq : e \in new} = n + 1 .. n + m
    <2>1. \A e \in new : e.seq \in n + 1 .. n + m  BY <1>1
    <2>2. ASSUME NEW j \in n + 1 .. n + m PROVE j \in {e.seq : e \in new}
      <3>1. j - n \in DOMAIN p  OBVIOUS
      <3>2. [seq |-> k + (j - n), change |-> p[j - n]] \in new  BY <3>1
      <3> QED  BY <1>1, <3>2
    <2> QED  BY <2>1, <2>2
  <1>3. {e.seq : e \in log \cup new} = 1 .. k + m
    <2>1. {e.seq : e \in log \cup new} = {e.seq : e \in log} \cup {e.seq : e \in new}  OBVIOUS
    <2>2. (1 .. n) \cup (n + 1 .. n + m) = 1 .. n + m  OBVIOUS
    <2>3. {e.seq : e \in log} = 1 .. n  BY DEF Exact
    <2> QED  BY <1>1, <1>2, <2>1, <2>2, <2>3
  <1>4. \A e, f \in new : e.seq = f.seq => e = f  OBVIOUS
  <1> QED  BY <1>1, <1>3, <1>4 DEF Exact

(* The committed and the uncommitted log are exact, the second extends the *)
(* first, and no session believes in a number that was never given.        *)
Numbers ==
  /\ Exact(db.log, db.seq)
  /\ Exact(draft.log, draft.seq)
  /\ db.log \subseteq draft.log
  /\ db.seq <= draft.seq
  /\ \A w \in Writers : seen[w] <= View(w).seq

LEMMA FlushIsFresh ==
  ASSUME EventLogTypeOK, ReadFirst, Numbers, NEW w \in Writers, Flush(w), pending[w] # <<>>
  PROVE  /\ seen[w] = View(w).seq
         /\ Exact(View(w).log \cup Numbered(w), seen[w] + Len(pending[w]))
  <1> DEFINE V == View(w)
  <1>1. /\ V.seq \in Nat /\ seen[w] \in Nat \cup {-1} /\ pending[w] \in Seq(Changes)
        /\ db.seq \in Nat /\ draft.seq \in Nat
    BY ViewType DEF EventLogTypeOK, Stores
  <1>2. Exact(V.log, V.seq) /\ seen[w] <= V.seq  BY <1>1 DEF Numbers, View
  <1>3. seen[w] \in Nat  BY <1>1 DEF ReadFirst
  <1>4. Len(pending[w]) \in Nat /\ Len(pending[w]) > 0 /\ DOMAIN pending[w] = 1 .. Len(pending[w])
    BY <1>1
  <1>5. Numbered(w) = From(seen[w], pending[w])  BY DEF Numbered, From
  <1>6. \A e \in From(seen[w], pending[w]), f \in V.log : e.seq # f.seq
    BY <1>5 DEF Flush, Collides
  <1> HIDE DEF V
  <1>7. seen[w] = V.seq /\ Exact(V.log \cup From(seen[w], pending[w]), seen[w] + Len(pending[w]))
    BY <1>1, <1>2, <1>3, <1>4, <1>6, Extend, Zenon
  <1> QED  BY <1>5, <1>7 DEF V

LEMMA FlushNumbers ==
  ASSUME EventLogTypeOK, ReadFirst, Numbers, NEW w \in Writers, Flush(w)
  PROVE  Numbers'
  <1> DEFINE V == View(w)
  <1> Nobody \notin Writers  BY WritersAssumption DEF Writers
  <1>1. /\ V.seq \in Nat /\ seen[w] \in Nat \cup {-1} /\ pending[w] \in Seq(Changes)
        /\ db.seq \in Nat /\ draft.seq \in Nat
    BY ViewType DEF EventLogTypeOK, Stores
  <1>2. Exact(V.log, V.seq) /\ db.log \subseteq V.log /\ db.seq <= V.seq /\ seen[w] <= V.seq
    BY <1>1 DEF Numbers, View
  <1>3. /\ Exact(draft'.log, draft'.seq) /\ V.log \subseteq draft'.log
        /\ V.seq <= draft'.seq /\ seen'[w] <= draft'.seq
    <2>1. seen'[w] = IF seen[w] = -1 THEN -1 ELSE seen[w] + Len(pending[w])
      BY DEF Flush, EventLogTypeOK
    <2>2. CASE pending[w] = <<>>
      <3>1. draft'.log = V.log /\ draft'.seq = V.seq  BY <2>2, NumberedType DEF Flush
      <3>2. Len(pending[w]) = 0  BY <2>2
      <3> QED  BY <1>1, <1>2, <2>1, <3>1, <3>2
    <2>3. CASE pending[w] # <<>>
      <3>1. seen[w] \in Nat  BY <1>1, <2>3 DEF ReadFirst
      <3>2. Len(pending[w]) \in Nat /\ Len(pending[w]) > 0 /\ DOMAIN pending[w] = 1 .. Len(pending[w])
        BY <1>1, <2>3
      <3>3. seen[w] = V.seq /\ Exact(V.log \cup Numbered(w), seen[w] + Len(pending[w]))
        BY <2>3, FlushIsFresh
      <3>4. draft'.log = V.log \cup Numbered(w) /\ draft'.seq = seen[w] + Len(pending[w])
        BY <2>3 DEF Flush
      <3> QED  BY <1>1, <2>1, <3>1, <3>2, <3>3, <3>4
    <2> QED  BY <2>2, <2>3
  <1>4. \A v \in Writers : seen'[v] <= View(v)'.seq
    <2>1. View(w)' = draft'  BY DEF Flush, View
    <2>2. \A v \in Writers \ {w} : seen'[v] = seen[v] /\ View(v)' = db /\ View(v) = db
      BY DEF Flush, View, LockFree, EventLogTypeOK
    <2> QED  BY <1>3, <2>1, <2>2 DEF Numbers
  <1>5. db' = db /\ draft'.seq \in Nat
    BY FlushType DEF Flush, EventLogTypeOK, Stores
  <1> QED  BY <1>1, <1>2, <1>3, <1>4, <1>5 DEF Numbers

LEMMA NumbersStep ==
  ASSUME EventLogTypeOK, ReadFirst, Numbers, [Next]_vars
  PROVE  Numbers'
  <1> Nobody \notin Writers  BY WritersAssumption DEF Writers
  <1>0. /\ db.seq \in Nat /\ draft.seq \in Nat
        /\ \A v \in Writers : seen[v] \in Nat \cup {-1}
    BY DEF EventLogTypeOK, Stores
  <1>1. CASE UNCHANGED <<db, draft, writer, seen>>  BY <1>1 DEF Numbers, View
  <1>2. ASSUME NEW w \in Writers, LoadProject(w) PROVE Numbers'
    BY <1>2, ViewType DEF LoadProject, Numbers, View, EventLogTypeOK
  <1>3. ASSUME NEW w \in Writers, Commit(w) PROVE Numbers'
    <2>1. \A v \in Writers : View(v)' = draft
      BY <1>3, WritersAssumption DEF Commit, View
    <2>2. \A v \in Writers : View(v).seq <= draft.seq  BY <1>0 DEF View, Numbers
    <2>3. \A v \in Writers : View(v).seq \in Nat  BY ViewType
    <2>4. \A v \in Writers : seen'[v] = IF v = w THEN -1 ELSE seen[v]
      BY <1>3 DEF Commit, Forget, EventLogTypeOK
    <2>5. \A v \in Writers : seen'[v] <= draft.seq
      BY <1>0, <2>2, <2>3, <2>4 DEF Numbers
    <2> QED  BY <1>0, <1>3, <2>1, <2>5 DEF Numbers, Commit
  <1>4. ASSUME NEW w \in Writers, Rollback(w) PROVE Numbers'
    <2>1. \A v \in Writers \ {w} : View(v)' = View(v) /\ seen'[v] = seen[v]
      BY <1>4, WritersAssumption DEF Rollback, View, Forget, EventLogTypeOK
    <2>2. View(w)'.seq \in Nat /\ seen'[w] = -1
      BY <1>0, <1>4 DEF Rollback, View, Forget, EventLogTypeOK
    <2> QED  BY <1>0, <1>4, <2>1, <2>2 DEF Numbers, Rollback
  <1>5. ASSUME NEW w \in Writers, NEW r \in Rows, Create(w, r) PROVE Numbers'
    <2>1. View(w).seq \in Nat  BY ViewType
    <2>2. draft'.log = View(w).log /\ draft'.seq = View(w).seq /\ View(w)' = draft' /\ db' = db
      BY <1>5, ViewType DEF Create, View, Stores
    <2>3. \A v \in Writers \ {w} : seen'[v] = seen[v] /\ View(v)' = db /\ View(v) = db
      BY <1>5 DEF Create, View, LockFree, EventLogTypeOK
    <2>4. seen'[w] <= View(w).seq  BY <1>5, <2>1 DEF Create, Numbers, EventLogTypeOK
    <2>5. Exact(View(w).log, View(w).seq) /\ db.log \subseteq View(w).log /\ db.seq <= View(w).seq
      BY <1>0 DEF Numbers, View
    <2> QED  BY <2>2, <2>3, <2>4, <2>5 DEF Numbers
  <1> QED  BY <1>1, <1>2, <1>3, <1>4, <1>5, FlushNumbers
           DEF Next, NoteOther, Note, Load, Transition, Assign, vars

LEMMA NumbersCorrect == Spec => [](EventLogTypeOK /\ ReadFirst /\ Numbers)
  <1>1. Init => Numbers
    <2>1. Init => /\ \A w \in Writers : seen[w] = -1 /\ View(w) = db
                  /\ draft = db /\ db.log = {} /\ db.seq = 0
      BY DEF Init, View
    <2> QED  BY <2>1 DEF Numbers, Exact
  <1>2. EventLogTypeOK /\ ReadFirst /\ Numbers /\ [Next]_vars => Numbers'  BY NumbersStep
  <1> QED  BY <1>1, <1>2, TypeCorrect, PTL DEF Spec

(* The committed events are numbered 1 .. event_seq, each number once,     *)
(* however many processes append and however stale their counters are.     *)
THEOREM SequenceCorrect == Spec => []SequenceExact
  <1>1. Numbers => SequenceExact  BY DEF Numbers, Exact, SequenceExact
  <1> QED  BY <1>1, NumbersCorrect, PTL

(* Events are committed in the order of their numbers and stay as they are.*)
THEOREM CommitOrderCorrect == Spec => EventsInCommitOrder
  <1> DEFINE Order == /\ db.log \subseteq db'.log
                      /\ \A e \in db'.log \ db.log : e.seq > db.seq
  <1>1. EventLogTypeOK /\ ReadFirst /\ Numbers /\ [Next]_vars => Order \/ UNCHANGED vars
    <2> SUFFICES ASSUME EventLogTypeOK, Numbers, Next PROVE Order  BY DEF vars
    <2>1. CASE UNCHANGED db  BY <2>1
    <2>2. ASSUME NEW w \in Writers, Commit(w) PROVE Order
      <3>1. db' = draft  BY <2>2 DEF Commit
      <3>2. ASSUME NEW e \in draft.log \ db.log PROVE e.seq > db.seq
        <4>1. e.seq \in 1 .. draft.seq /\ db.seq \in Nat /\ draft.seq \in Nat
          BY DEF Numbers, Exact, EventLogTypeOK, Stores
        <4>2. e.seq \notin {f.seq : f \in db.log}  BY DEF Numbers, Exact
        <4> QED  BY <4>1, <4>2 DEF Numbers, Exact
      <3> QED  BY <3>1, <3>2 DEF Numbers
    <2> QED  BY <2>1, <2>2 DEF Next, LoadProject, NoteOther, Flush, Rollback, Load, Create,
                               Transition, Assign
  <1> QED  BY <1>1, NumbersCorrect, PTL DEF Spec, EventsInCommitOrder
-----------------------------------------------------------------------------
\* One process changes statuses through TransitionService.  Any other may
\* assign them past it.
SingleController == Services \cap Direct = {} /\ \A v, w \in Services : v = w

(* What the controller holds in memory is what it read, or has an event    *)
(* pending, and what it read of a status is still so: only itself could    *)
(* have changed it.  Another process may hold anything in memory, but its  *)
(* pending events tell of the status it read, which the guard refuses as   *)
(* an event for any other.                                                 *)
Careful ==
  /\ \A w \in Services, r \in Rows : mem[w][r] # base[w][r] => pending[w] # <<>>
  /\ \A w \in Writers \ Services, r \in Rows : \A i \in DOMAIN pending[w] :
       pending[w][i].row = r => pending[w][i].new = base[w][r]
  /\ \A w \in Services, r \in Rows : base[w][r] # "UNREAD" => base[w][r] = View(w).status[r]
  /\ \A w \in Writers, r \in Rows : base[w][r] # "ABSENT" /\ mem[w][r] # "ABSENT"
  /\ writer \in Writers \ Services =>
       \A r \in Rows : db.status[r] # "ABSENT" => draft.status[r] = db.status[r]
  /\ writer \in Writers => draft.seq > db.seq \/ pending[writer] # <<>>

(* The database as a flush by w would leave it, if the guard lets it.      *)
StatusAfter(w) ==
  [r \in Rows |-> IF w \in Services /\ mem[w][r] # base[w][r] THEN mem[w][r] ELSE View(w).status[r]]

LogAfter(w) == View(w).log \cup Numbered(w)

Trail(status, log) == \A r \in Rows : Leads(status[r], About(r, log), Table(r))

(* The trail is complete in the database, and would be after the flush of  *)
(* any session whose counter is not stale: a stale one cannot flush.       *)
Audit ==
  /\ Trail(db.status, db.log)
  /\ \A w \in Writers :
       pending[w] = <<>> \/ seen[w] = View(w).seq => Trail(StatusAfter(w), LogAfter(w))

AuditInv == EventLogTypeOK /\ ReadFirst /\ Numbers /\ Careful /\ Audit

(* Only TransitionService's tables tell where a status may go.             *)
LEMMA TargetsAreStatuses ==
  ASSUME NEW r \in Rows
  PROVE  {"ABSENT", "UNREAD", "OBSERVED"} \cap DOMAIN Table(r) = {}
  BY DEF Table, TASK_TRANSITIONS, COMPUTE_TRANSITIONS

(* What the others see while one process writes.                           *)
LEMMA Isolation ==
  ASSUME NEW w \in Writers, NEW v \in Writers \ {w}, LockFree(w)
  PROVE  View(v) = db
  BY WritersAssumption DEF View, LockFree, Writers

(* The guard lets nobody but the controller flush a changed status.        *)
LEMMA GuardHolds ==
  ASSUME AuditInv, NEW w \in Writers \ Services, Flush(w)
  PROVE  \A r \in Rows : mem[w][r] = base[w][r]
  BY DEF Flush, Audited, AuditInv, Careful

(* What a flush writes.                                                    *)
LEMMA FlushStatus ==
  ASSUME AuditInv, NEW w \in Writers, Flush(w)
  PROVE  draft'.status = StatusAfter(w)
  <1>1. CASE w \in Services  BY <1>1 DEF Flush, StatusAfter
  <1>2. CASE w \notin Services  BY <1>2, GuardHolds DEF Flush, StatusAfter
  <1> QED  BY <1>1, <1>2

LEMMA CarefulFlush ==
  ASSUME AuditInv, SingleController, NEW w \in Writers, Flush(w)
  PROVE  Careful'
  <1> Nobody \notin Writers  BY WritersAssumption DEF Writers
  <1>0. draft' \in Stores /\ draft'.seq \in Nat /\ db.seq \in Nat /\ View(w).seq \in Nat
    BY FlushType, ViewType DEF AuditInv, EventLogTypeOK, Stores
  <1>1. /\ base' = [base EXCEPT ![w] = mem[w]] /\ mem' = mem /\ db' = db /\ writer' = w
        /\ pending' = [pending EXCEPT ![w] = <<>>] /\ View(w)' = draft'
    BY DEF Flush, View
  <1>2. draft'.status = StatusAfter(w)  BY FlushStatus
  <1>3. \A r \in Rows : base'[w][r] = mem[w][r]  BY <1>1 DEF AuditInv, EventLogTypeOK
  <1>4. \A v \in Writers \ {w} : base'[v] = base[v] /\ pending'[v] = pending[v] /\ View(v)' = View(v)
    BY <1>1, Isolation DEF AuditInv, EventLogTypeOK, Flush, View
  <1>5. \A r \in Rows : w \in Services /\ mem[w][r] # "UNREAD" => mem[w][r] = StatusAfter(w)[r]
    BY DEF AuditInv, Careful, StatusAfter
  <1>6. w \notin Services => \A r \in Rows : StatusAfter(w)[r] = View(w).status[r]
    BY DEF StatusAfter
  <1>7. draft'.seq > db.seq
    <2>1. pending[w] # <<>>
      <3>1. CASE mem[w] = base[w]  BY <3>1 DEF Flush, Clean
      <3>2. CASE mem[w] # base[w]
        <4>1. \E r \in Rows : mem[w][r] # base[w][r]
          BY <3>2 DEF AuditInv, EventLogTypeOK, Columns
        <4> QED  BY <4>1, GuardHolds DEF AuditInv, Careful
      <3> QED  BY <3>1, <3>2
    <2>2. draft'.seq = seen[w] + Len(pending[w]) /\ Len(pending[w]) \in Nat /\ Len(pending[w]) > 0
      BY <2>1 DEF Flush, AuditInv, EventLogTypeOK
    <2>3. seen[w] = View(w).seq
      BY <2>1, FlushIsFresh DEF AuditInv
    <2>4. db.seq <= View(w).seq  BY <1>0 DEF AuditInv, Numbers, View
    <2> QED  BY <1>0, <2>2, <2>3, <2>4
  <1>8. writer' \in Writers \ Services =>
          \A r \in Rows : db'.status[r] # "ABSENT" => draft'.status[r] = db'.status[r]
    BY <1>1, <1>2, <1>6 DEF AuditInv, Careful, View
  <1>9. \A v \in Services, r \in Rows : mem'[v][r] # base'[v][r] => pending'[v] # <<>>
    BY <1>1, <1>3, <1>4 DEF AuditInv, Careful, Writers
  <1>10. \A v \in Writers \ Services, r \in Rows : \A i \in DOMAIN pending'[v] :
           pending'[v][i].row = r => pending'[v][i].new = base'[v][r]
    <2>1. DOMAIN pending'[w] = {}  BY <1>1 DEF AuditInv, EventLogTypeOK
    <2> QED  BY <1>4, <2>1 DEF AuditInv, Careful
  <1>11. \A v \in Services, r \in Rows : base'[v][r] # "UNREAD" => base'[v][r] = View(v)'.status[r]
    BY <1>1, <1>2, <1>3, <1>4, <1>5 DEF AuditInv, Careful, Writers
  <1>12. \A v \in Writers, r \in Rows : base'[v][r] # "ABSENT" /\ mem'[v][r] # "ABSENT"
    BY <1>1, <1>3, <1>4 DEF AuditInv, Careful
  <1> QED  BY <1>1, <1>7, <1>8, <1>9, <1>10, <1>11, <1>12 DEF Careful

LEMMA CarefulCreate ==
  ASSUME AuditInv, SingleController, NEW w \in Writers, NEW r \in Rows, Create(w, r)
  PROVE  Careful'
  <1>1. /\ First(r) # "ABSENT" /\ First(r) # "UNREAD"  BY Tables, TargetsAreStatuses
  <1>2. /\ base' = [base EXCEPT ![w] = [base[w] EXCEPT ![r] = First(r)]]
        /\ mem' = [mem EXCEPT ![w] = [mem[w] EXCEPT ![r] = First(r)]]
        /\ mem[w] = base[w] /\ pending'[w] # <<>>
        /\ db' = db /\ writer' = w /\ View(w)' = draft'
        /\ draft'.status = [View(w).status EXCEPT ![r] = First(r)]
        /\ View(w).status[r] = "ABSENT"
    BY ViewType DEF Create, Clean, View, AuditInv, EventLogTypeOK, Stores
  <1>3. \A v \in Writers \ {w} :
          base'[v] = base[v] /\ mem'[v] = mem[v] /\ pending'[v] = pending[v] /\ View(v)' = View(v)
    BY Isolation DEF AuditInv, EventLogTypeOK, Create, View, LockFree
  <1>4. /\ \A x \in Rows : /\ base'[w][x] = IF x = r THEN First(r) ELSE base[w][x]
                           /\ mem'[w][x] = base'[w][x]
                           /\ draft'.status[x] = IF x = r THEN First(r) ELSE View(w).status[x]
    BY <1>2, ViewType DEF AuditInv, EventLogTypeOK, Columns
  <1>5. writer' \in Writers \ Services =>
          \A x \in Rows : db'.status[x] # "ABSENT" => draft'.status[x] = db'.status[x]
    BY <1>2, <1>4 DEF AuditInv, Careful, View
  <1>6. \A v \in Services, x \in Rows : base'[v][x] # "UNREAD" => base'[v][x] = View(v)'.status[x]
    <2> SUFFICES ASSUME NEW v \in Services, NEW x \in Rows, base'[v][x] # "UNREAD"
                 PROVE  base'[v][x] = View(v)'.status[x]
      OBVIOUS
    <2>1. v \in Writers  BY DEF Writers
    <2>2. CASE v = w
      <3>1. View(w)' = draft'  BY <1>2
      <3>2. x # r => base[w][x] = View(w).status[x]  BY <1>4, <2>2 DEF AuditInv, Careful
      <3> QED  BY <1>4, <2>2, <3>1, <3>2
    <2>3. CASE v # w  BY <1>3, <2>1, <2>3 DEF AuditInv, Careful
    <2> QED  BY <2>2, <2>3
  <1>7. \A v \in Writers, x \in Rows :
          /\ v \in Services /\ mem'[v][x] # base'[v][x] => pending'[v] # <<>>
          /\ base'[v][x] # "ABSENT" /\ mem'[v][x] # "ABSENT"
    BY <1>1, <1>3, <1>4 DEF AuditInv, Careful
  <1>9. \A v \in Writers \ Services, x \in Rows : \A i \in DOMAIN pending'[v] :
          pending'[v][i].row = x => pending'[v][i].new = base'[v][x]
    <2>1. pending'[w] = <<Change(r, "ABSENT", First(r))>>
      BY DEF Create, AuditInv, EventLogTypeOK
    <2>2. \A i \in DOMAIN pending'[w] : pending'[w][i].row = r /\ pending'[w][i].new = First(r)
      BY <2>1 DEF Change
    <2> QED  BY <1>3, <1>4, <2>2 DEF AuditInv, Careful
  <1>8. writer' \in Writers => pending'[writer'] # <<>>  BY <1>2
  <1> QED  BY <1>5, <1>6, <1>7, <1>8, <1>9 DEF Careful, Writers

(* A session that ends forgets all it read; a commit of another process    *)
(* can only add rows to what the controller has read.                      *)
LEMMA CarefulEnd ==
  ASSUME AuditInv, SingleController, NEW w \in Writers, Commit(w) \/ Rollback(w)
  PROVE  Careful'
  <1> Nobody \notin Writers  BY WritersAssumption DEF Writers
  <1>1. /\ \A r \in Rows : base'[w][r] = "UNREAD" /\ mem'[w][r] = "UNREAD"
        /\ \A v \in Writers \ {w} : base'[v] = base[v] /\ mem'[v] = mem[v] /\ pending'[v] = pending[v]
    BY DEF AuditInv, EventLogTypeOK, Commit, Rollback, Forget, Nothing
  <1>2. /\ \A v \in Services, r \in Rows : mem'[v][r] # base'[v][r] => pending'[v] # <<>>
        /\ \A v \in Writers, r \in Rows : base'[v][r] # "ABSENT" /\ mem'[v][r] # "ABSENT"
        /\ \A v \in Writers \ Services, r \in Rows : \A i \in DOMAIN pending'[v] :
             pending'[v][i].row = r => pending'[v][i].new = base'[v][r]
    <2>1. DOMAIN pending'[w] = {}
      BY DEF AuditInv, EventLogTypeOK, Commit, Rollback, Forget
    <2> QED  BY <1>1, <2>1 DEF AuditInv, Careful, Writers
  <1>3. CASE Commit(w)
    <2>1. writer = w /\ writer' = Nobody /\ db' = draft  BY <1>3 DEF Commit
    <2>2. ASSUME NEW v \in Services, NEW r \in Rows, base'[v][r] # "UNREAD"
          PROVE  base'[v][r] = View(v)'.status[r]
      <3>1. v # w /\ v \in Writers  BY <1>1, <2>2 DEF Writers
      <3>2. w \notin Services  BY <3>1 DEF SingleController
      <3>3. base[v][r] = db.status[r] /\ db.status[r] # "ABSENT"
        BY <1>1, <2>1, <2>2, <3>1 DEF AuditInv, Careful, View
      <3>4. draft.status[r] = db.status[r]  BY <2>1, <3>2, <3>3 DEF AuditInv, Careful
      <3>5. View(v)' = draft  BY <2>1, <3>1 DEF View
      <3> QED  BY <1>1, <3>1, <3>3, <3>4, <3>5
    <2> QED  BY <1>2, <2>1, <2>2 DEF Careful
  <1>4. CASE Rollback(w)
    <2>1. db' = db /\ \A v \in Writers \ {w} : View(v)' = View(v)  BY <1>4 DEF Rollback, View
    <2>2. \A v \in Services, r \in Rows : base'[v][r] # "UNREAD" => base'[v][r] = View(v)'.status[r]
      BY <1>1, <2>1 DEF AuditInv, Careful, Writers
    <2>3. writer' \in Writers => writer' # w /\ writer' = writer /\ draft' = draft
      BY <1>4 DEF Rollback
    <2> QED  BY <1>1, <1>2, <2>1, <2>2, <2>3 DEF Careful, AuditInv
  <1> QED  BY <1>3, <1>4

LEMMA CarefulNote ==
  ASSUME AuditInv, NEW w \in Writers, NEW change, Note(w, change)
  PROVE  /\ pending'[w] # <<>>
         /\ \A v \in Writers \ {w} : pending'[v] = pending[v]
  BY DEF AuditInv, EventLogTypeOK, Note

LEMMA CarefulStep ==
  ASSUME AuditInv, SingleController, [Next]_vars
  PROVE  Careful'
  <1>1. CASE UNCHANGED <<db, draft, writer, base, mem, pending>>
    BY <1>1 DEF AuditInv, Careful, View
  <1>2. ASSUME NEW w \in Writers, NEW about \in JobRows \cup {Other}, NoteOther(w, about)
        PROVE  Careful'
    <2>1. /\ pending'[w] # <<>>
          /\ \A v \in Writers \ {w} : pending'[v] = pending[v]
      BY <1>2, CarefulNote DEF NoteOther
    <2>2. w \in Services /\ UNCHANGED <<db, draft, writer, base, mem>>  BY <1>2 DEF NoteOther
    <2>3. \A v \in Writers \ Services, x \in Rows : \A i \in DOMAIN pending'[v] :
            pending'[v][i].row = x => pending'[v][i].new = base'[v][x]
      BY <2>1, <2>2 DEF AuditInv, Careful
    <2>4. \A v \in Writers : View(v)' = View(v)  BY <2>2 DEF View
    <2> QED  BY <2>1, <2>2, <2>3, <2>4 DEF AuditInv, Careful, Writers
  <1>3. ASSUME NEW w \in Writers, NEW r \in Rows, NEW to \in DOMAIN Table(r), Transition(w, r, to)
        PROVE  Careful'
    <2>1. /\ pending'[w] # <<>>
          /\ \A v \in Writers \ {w} : pending'[v] = pending[v]
      BY <1>3, CarefulNote DEF Transition
    <2>2. to # "ABSENT"  BY TargetsAreStatuses
    <2>3. \A v \in Writers, x \in Rows : mem'[v][x] = IF v = w /\ x = r THEN to ELSE mem[v][x]
      BY <1>3 DEF Transition, AuditInv, EventLogTypeOK, Columns
    <2>4. w \in Services /\ UNCHANGED <<db, draft, writer, base>>  BY <1>3 DEF Transition
    <2>5. \A v \in Services, x \in Rows : base'[v][x] # "UNREAD" => base'[v][x] = View(v)'.status[x]
      BY <2>4 DEF AuditInv, Careful, View
    <2>6. \A v \in Writers, x \in Rows :
            /\ v \in Services /\ mem'[v][x] # base'[v][x] => pending'[v] # <<>>
            /\ base'[v][x] # "ABSENT" /\ mem'[v][x] # "ABSENT"
      BY <2>1, <2>2, <2>3, <2>4 DEF AuditInv, Careful
    <2>7. writer' \in Writers => draft'.seq > db'.seq \/ pending'[writer'] # <<>>
      BY <2>1, <2>4 DEF AuditInv, Careful
    <2>8. \A v \in Writers \ Services, x \in Rows : \A i \in DOMAIN pending'[v] :
            pending'[v][i].row = x => pending'[v][i].new = base'[v][x]
      BY <2>1, <2>4 DEF AuditInv, Careful
    <2> QED  BY <2>4, <2>5, <2>6, <2>7, <2>8 DEF AuditInv, Careful, Writers
  <1>4. ASSUME NEW w \in Writers, NEW r \in Rows, Load(w, r) PROVE Careful'
    <2>1. \A v \in Writers, x \in Rows :
            /\ base'[v][x] = IF v = w /\ x = r THEN View(w).status[r] ELSE base[v][x]
            /\ mem'[v][x] = IF v = w /\ x = r THEN View(w).status[r] ELSE mem[v][x]
      BY <1>4 DEF Load, AuditInv, EventLogTypeOK, Columns
    <2>2. View(w).status[r] # "ABSENT" /\ UNCHANGED <<db, draft, writer, pending>>  BY <1>4 DEF Load
    <2>3. \A v \in Writers : View(v)' = View(v)  BY <2>2 DEF View
    <2>4. \A v \in Services, x \in Rows : base'[v][x] # "UNREAD" => base'[v][x] = View(v)'.status[x]
      BY <2>1, <2>3 DEF AuditInv, Careful, Writers
    <2>5. \A v \in Writers, x \in Rows :
            /\ v \in Services /\ mem'[v][x] # base'[v][x] => pending'[v] # <<>>
            /\ base'[v][x] # "ABSENT" /\ mem'[v][x] # "ABSENT"
      BY <2>1, <2>2 DEF AuditInv, Careful
    <2>6. \A v \in Writers \ Services, x \in Rows : \A i \in DOMAIN pending'[v] :
            pending'[v][i].row = x => pending'[v][i].new = base'[v][x]
      <3>1. DOMAIN pending[w] = {}  BY <1>4 DEF Load, Clean
      <3> QED  BY <2>1, <2>2, <3>1 DEF AuditInv, Careful
    <2> QED  BY <2>2, <2>4, <2>5, <2>6 DEF AuditInv, Careful, Writers
  <1>5. ASSUME NEW w \in Writers, NEW r \in Rows, NEW to, Assign(w, r, to) PROVE Careful'
    <2>1. w \notin Services /\ to \in DOMAIN Table(r) /\ UNCHANGED <<db, draft, writer, base, pending>>
      BY <1>5 DEF Assign, SingleController
    <2>2. to # "ABSENT"  BY <2>1, TargetsAreStatuses
    <2>3. \A v \in Writers, x \in Rows : mem'[v][x] = IF v = w /\ x = r THEN to ELSE mem[v][x]
      BY <1>5 DEF Assign, AuditInv, EventLogTypeOK, Columns
    <2>4. \A v \in Writers : View(v)' = View(v)  BY <2>1 DEF View
    <2> QED  BY <2>1, <2>2, <2>3, <2>4 DEF AuditInv, Careful, Writers
  <1> QED  BY <1>1, <1>2, <1>3, <1>4, <1>5, CarefulFlush, CarefulCreate, CarefulEnd
           DEF Next, LoadProject, vars

(* One more event, numbered after all others, carries the trail on.        *)
LEMMA LeadsOn ==
  ASSUME NEW log \in SUBSET [seq : Nat, change : Changes], NEW n \in Nat,
         \A e \in log : e.seq < n,
         NEW r \in Rows, NEW status, Leads(status, About(r, log), Table(r)),
         NEW to \in DOMAIN Table(r), status = "ABSENT" \/ to \in Table(r)[status]
  PROVE  Leads(to, About(r, log \cup {[seq |-> n, change |-> Change(r, status, to)]}), Table(r))
  <1> DEFINE new == [seq |-> n, change |-> Change(r, status, to)]
             old == About(r, log)
             all == old \cup {new}
  <1>2. to # "ABSENT" /\ to # "OBSERVED"  BY TargetsAreStatuses
  <1>1. About(r, log \cup {new}) = all  BY <1>2 DEF About, Change
  <1>3. new.seq = n /\ new.change.old = status /\ new.change.new = to  BY DEF Change
  <1>4. \A e \in old : e.seq \in Nat /\ e.seq < n  BY DEF About
  <1> HIDE DEF new, old
  <1>5. ASSUME NEW e \in all
        PROVE  /\ (\A f \in all : f.seq >= e.seq) => e.change.old = "ABSENT"
               /\ (\A f \in all : f.seq <= e.seq) => e.change.new = to
               /\ e.change.old = "ABSENT" \/ e.change.new \in Table(r)[e.change.old]
    <2>1. CASE e = new
      <3>1. (\A f \in all : f.seq >= n) => old = {}  BY <1>4
      <3>2. old = {} => status = "ABSENT"  BY DEF Leads, old
      <3> QED  BY <1>3, <2>1, <3>1, <3>2
    <2>2. CASE e \in old
      <3>1. /\ (\A f \in old : f.seq >= e.seq) => e.change.old = "ABSENT"
            /\ e.change.old = "ABSENT" \/ e.change.new \in Table(r)[e.change.old]
        BY <2>2 DEF Leads, old
      <3>2. ~(new.seq <= e.seq)  BY <1>3, <1>4, <2>2
      <3> QED  BY <3>1, <3>2
    <2> QED  BY <2>1, <2>2
  <1>6. ASSUME NEW e \in all, NEW f \in all, e.seq < f.seq,
               \A g \in all : g.seq <= e.seq \/ g.seq >= f.seq
        PROVE  f.change.old = e.change.new
    <2>1. e \in old  BY <1>3, <1>4, <1>6
    <2>2. CASE f = new
      <3>1. \A g \in old : g.seq <= e.seq  BY <1>3, <1>4, <1>6, <2>2
      <3>2. e.change.new = status  BY <2>1, <3>1 DEF Leads, old
      <3> QED  BY <1>3, <2>2, <3>2
    <2>3. CASE f \in old  BY <1>6, <2>1, <2>3 DEF Leads, old
    <2> QED  BY <2>2, <2>3
  <1>7. all # {}  OBVIOUS
  <1>8. Leads(to, all, Table(r))  BY <1>2, <1>5, <1>6, <1>7 DEF Leads
  <1> QED  BY <1>1, <1>8 DEF new

(* A session that an action does not touch would flush what it would have. *)
LEMMA Untouched ==
  ASSUME Audit, NEW v \in Writers,
         v \in Services => mem'[v] = mem[v], base'[v] = base[v], pending'[v] = pending[v], seen'[v] = seen[v],
         View(v)' = View(v)
  PROVE  pending'[v] = <<>> \/ seen'[v] = View(v)'.seq => Trail(StatusAfter(v)', LogAfter(v)')
  <1>1. StatusAfter(v)' = StatusAfter(v)  BY DEF StatusAfter
  <1>2. LogAfter(v)' = LogAfter(v)  BY DEF LogAfter, Numbered
  <1> QED  BY <1>1, <1>2 DEF Audit

(* A session with nothing to flush would leave the database as it sees it. *)
LEMMA NothingToFlush ==
  ASSUME EventLogTypeOK, NEW v \in Writers, pending[v] = <<>>,
         v \in Services => \A r \in Rows : mem[v][r] = base[v][r]
  PROVE  StatusAfter(v) = View(v).status /\ LogAfter(v) = View(v).log
  <1>1. View(v).status \in [Rows -> Statuses]  BY ViewType DEF Columns
  <1>2. Numbered(v) = {}  BY NumberedType
  <1> QED  BY <1>1, <1>2 DEF StatusAfter, LogAfter

(* What append adds to the session's log.                                  *)
LEMMA NoteLog ==
  ASSUME AuditInv, NEW w \in Writers, NEW change, Note(w, change), seen' = seen,
         View(w)' = View(w), seen[w] = View(w).seq
  PROVE  LET n == seen[w] + Len(pending[w]) + 1
         IN  /\ n \in Nat
             /\ LogAfter(w) \in SUBSET [seq : Nat, change : Changes]
             /\ \A e \in LogAfter(w) : e.seq < n
             /\ LogAfter(w)' = LogAfter(w) \cup {[seq |-> n, change |-> change]}
  <1> DEFINE n == seen[w] + Len(pending[w]) + 1
  <1>1. seen[w] \in Nat /\ pending[w] \in Seq(Changes)
    BY DEF AuditInv, EventLogTypeOK, Note
  <1>2. n \in Nat /\ Len(pending[w]) \in Nat  BY <1>1
  <1>3. LogAfter(w) \in SUBSET [seq : Nat, change : Changes]
    BY <1>1, ViewType, NumberedType DEF LogAfter, AuditInv
  <1>4. ASSUME NEW e \in LogAfter(w) PROVE e.seq < n
    <2>1. CASE e \in View(w).log
      <3>1. Exact(View(w).log, View(w).seq)  BY DEF AuditInv, Numbers, View
      <3>2. e.seq \in 1 .. View(w).seq  BY <2>1, <3>1 DEF Exact
      <3> QED  BY <1>1, <1>2, <3>2
    <2>2. CASE e \in Numbered(w)
      <3>1. PICK i \in DOMAIN pending[w] : e.seq = seen[w] + i  BY <2>2 DEF Numbered
      <3>2. i \in 1 .. Len(pending[w])  BY <1>1, <3>1
      <3> QED  BY <1>1, <1>2, <3>1, <3>2
    <2> QED  BY <2>1, <2>2 DEF LogAfter
  <1>5. Numbered(w)' = Numbered(w) \cup {[seq |-> n, change |-> change]}
    <2> DEFINE p == pending[w]
               q == pending'[w]
    <2>1. q = Append(p, change)  BY DEF Note, AuditInv, EventLogTypeOK
    <2>2. /\ DOMAIN q = 1 .. Len(p) + 1 /\ DOMAIN p = 1 .. Len(p)
          /\ \A i \in 1 .. Len(p) : q[i] = p[i]
          /\ q[Len(p) + 1] = change
      BY <1>1, <2>1, AppendProperties
    <2>3. Numbered(w)' = {[seq |-> seen[w] + i, change |-> q[i]] : i \in DOMAIN q}  BY DEF Numbered
    <2>4. DOMAIN q = DOMAIN p \cup {Len(p) + 1}  BY <1>2, <2>2
    <2> HIDE DEF p, q
    <2>5. Numbered(w) = {[seq |-> seen[w] + i, change |-> q[i]] : i \in DOMAIN p}
      BY <2>2 DEF Numbered, p
    <2>6. seen[w] + (Len(p) + 1) = n  BY <1>1, <1>2 DEF p
    <2> QED  BY <2>2, <2>3, <2>4, <2>5, <2>6
  <1> QED  BY <1>2, <1>3, <1>4, <1>5 DEF LogAfter

LEMMA AuditTransition ==
  ASSUME AuditInv, NEW w \in Writers, NEW r \in Rows, NEW to \in DOMAIN Table(r), Transition(w, r, to)
  PROVE  seen'[w] = View(w)'.seq => Trail(StatusAfter(w)', LogAfter(w)')
  <1> SUFFICES ASSUME seen[w] = View(w).seq PROVE Trail(StatusAfter(w)', LogAfter(w)')
    BY DEF Transition, View
  <1> DEFINE n == seen[w] + Len(pending[w]) + 1
             from == mem[w][r]
  <1>1. /\ w \in Services /\ from # "UNREAD" /\ to \in Table(r)[from]
        /\ Note(w, Change(r, from, to)) /\ seen' = seen /\ View(w)' = View(w)
        /\ base' = base /\ \A x \in Rows : mem'[w][x] = IF x = r THEN to ELSE mem[w][x]
    BY DEF Transition, View, AuditInv, EventLogTypeOK, Columns
  <1>2. Trail(StatusAfter(w), LogAfter(w))  BY DEF AuditInv, Audit
  <1>3. StatusAfter(w)[r] = from
    <2>1. base[w][r] # "UNREAD" => base[w][r] = View(w).status[r]  BY <1>1 DEF AuditInv, Careful
    <2> QED  BY <1>1, <2>1 DEF StatusAfter
  <1>4. StatusAfter(w)'[r] = to
    <2>1. base[w][r] # "UNREAD" => base[w][r] = View(w).status[r]  BY <1>1 DEF AuditInv, Careful
    <2>2. to # "UNREAD"  BY TargetsAreStatuses
    <2> QED  BY <1>1, <2>1, <2>2 DEF StatusAfter
  <1>5. /\ n \in Nat
        /\ LogAfter(w) \in SUBSET [seq : Nat, change : Changes]
        /\ \A e \in LogAfter(w) : e.seq < n
        /\ LogAfter(w)' = LogAfter(w) \cup {[seq |-> n, change |-> Change(r, from, to)]}
    BY <1>1, NoteLog
  <1>6. Leads(to, About(r, LogAfter(w)'), Table(r))
    <2>1. Leads(from, About(r, LogAfter(w)), Table(r))  BY <1>2, <1>3 DEF Trail
    <2> QED  BY <1>1, <1>5, <2>1, LeadsOn
  <1>7. ASSUME NEW x \in Rows \ {r} PROVE Leads(StatusAfter(w)'[x], About(x, LogAfter(w)'), Table(x))
    <2>1. StatusAfter(w)'[x] = StatusAfter(w)[x]  BY <1>1 DEF StatusAfter
    <2>2. About(x, LogAfter(w)') = About(x, LogAfter(w))  BY <1>5 DEF About, Change
    <2> QED  BY <1>2, <2>1, <2>2 DEF Trail
  <1> QED  BY <1>4, <1>6, <1>7 DEF Trail

LEMMA AuditOther ==
  ASSUME AuditInv, NEW w \in Writers, NEW about, NoteOther(w, about)
  PROVE  seen'[w] = View(w)'.seq => Trail(StatusAfter(w)', LogAfter(w)')
  <1> SUFFICES ASSUME seen[w] = View(w).seq PROVE Trail(StatusAfter(w)', LogAfter(w)')
    BY DEF NoteOther, View
  <1> DEFINE n == seen[w] + Len(pending[w]) + 1
             change == Change(about, "OBSERVED", "OBSERVED")
  <1>1. Note(w, change) /\ seen' = seen /\ View(w)' = View(w) /\ StatusAfter(w)' = StatusAfter(w)
    BY DEF NoteOther, View, StatusAfter
  <1>2. Trail(StatusAfter(w), LogAfter(w))  BY DEF AuditInv, Audit
  <1>3. LogAfter(w)' = LogAfter(w) \cup {[seq |-> n, change |-> change]}  BY <1>1, NoteLog
  <1>4. \A x \in Rows : About(x, LogAfter(w)') = About(x, LogAfter(w))
    <2>1. change.new = "OBSERVED"  BY DEF Change
    <2> HIDE DEF change
    <2> QED  BY <1>3, <2>1 DEF About
  <1> QED  BY <1>1, <1>2, <1>4 DEF Trail

LEMMA AuditCreate ==
  ASSUME AuditInv, NEW w \in Writers, NEW r \in Rows, Create(w, r)
  PROVE  seen'[w] = View(w)'.seq => Trail(StatusAfter(w)', LogAfter(w)')
  <1> SUFFICES ASSUME seen'[w] = View(w)'.seq PROVE Trail(StatusAfter(w)', LogAfter(w)')
    OBVIOUS
  <1> DEFINE V == View(w)
             new == [seq |-> V.seq + 1, change |-> Change(r, "ABSENT", First(r))]
  <1>1. First(r) \in DOMAIN Table(r) /\ V.seq \in Nat /\ V.log \in SUBSET [seq : Nat, change : Changes]
    BY Tables, ViewType DEF AuditInv
  <1>2. /\ View(w)' = draft' /\ draft'.seq = V.seq /\ draft'.log = V.log
        /\ draft'.status = [V.status EXCEPT ![r] = First(r)] /\ V.status[r] = "ABSENT"
        /\ pending'[w] = <<Change(r, "ABSENT", First(r))>> /\ pending[w] = <<>>
        /\ mem[w] = base[w]
    BY ViewType DEF Create, Clean, View, AuditInv, EventLogTypeOK, Stores
  <1>3. Trail(V.status, V.log)
    BY <1>2, NothingToFlush DEF AuditInv, Audit
  <1>4. \A x \in Rows : StatusAfter(w)'[x] = IF x = r THEN First(r) ELSE V.status[x]
    <2>1. \A x \in Rows : mem'[w][x] = base'[w][x]
      BY <1>2 DEF Create, AuditInv, EventLogTypeOK, Columns
    <2>2. V.status \in Columns  BY ViewType DEF AuditInv
    <2> QED  BY <1>2, <2>1, <2>2 DEF StatusAfter, Columns
  <1>5. LogAfter(w)' = V.log \cup {new}
    <2>1. seen'[w] = V.seq  BY <1>2
    <2>2. DOMAIN pending'[w] = {1} /\ pending'[w][1] = Change(r, "ABSENT", First(r))  BY <1>2
    <2>3. Numbered(w)' = {new}  BY <2>1, <2>2 DEF Numbered
    <2> QED  BY <1>2, <2>3 DEF LogAfter
  <1>6. \A e \in V.log : e.seq < V.seq + 1
    <2>1. Exact(V.log, V.seq)  BY DEF AuditInv, Numbers, View
    <2>2. \A e \in V.log : e.seq \in 1 .. V.seq  BY <2>1 DEF Exact
    <2> QED  BY <1>1, <2>2
  <1>7. Leads(First(r), About(r, LogAfter(w)'), Table(r))
    <2>1. Leads("ABSENT", About(r, V.log), Table(r))  BY <1>2, <1>3 DEF Trail
    <2>2. V.seq + 1 \in Nat  BY <1>1
    <2> HIDE DEF V
    <2> QED  BY <1>1, <1>5, <1>6, <2>1, <2>2, LeadsOn
  <1>8. ASSUME NEW x \in Rows \ {r} PROVE Leads(StatusAfter(w)'[x], About(x, LogAfter(w)'), Table(x))
    <2>1. About(x, LogAfter(w)') = About(x, V.log)  BY <1>5 DEF About, Change
    <2> QED  BY <1>3, <1>4, <2>1 DEF Trail
  <1> QED  BY <1>4, <1>7, <1>8 DEF Trail

LEMMA AuditFlush ==
  ASSUME AuditInv, NEW w \in Writers, Flush(w)
  PROVE  Trail(StatusAfter(w)', LogAfter(w)')
  <1>1. Trail(StatusAfter(w), LogAfter(w))  BY FlushIsFresh DEF AuditInv, Audit
  <1>2. /\ View(w)' = draft' /\ draft'.status = StatusAfter(w) /\ draft'.log = LogAfter(w)
        /\ \A r \in Rows : mem'[w][r] = base'[w][r]
        /\ pending'[w] = <<>>
    BY FlushStatus DEF Flush, View, LogAfter, AuditInv, EventLogTypeOK
  <1>3. Numbered(w)' = {}  BY <1>2 DEF Numbered
  <1>4. StatusAfter(w)' = StatusAfter(w)
    <2>1. StatusAfter(w)' = [r \in Rows |-> draft'.status[r]]  BY <1>2 DEF StatusAfter
    <2>2. \A r \in Rows : draft'.status[r] = StatusAfter(w)[r]  BY <1>2
    <2> QED  BY <2>1, <2>2 DEF StatusAfter
  <1>5. LogAfter(w)' = LogAfter(w)  BY <1>2, <1>3 DEF LogAfter
  <1> QED  BY <1>1, <1>4, <1>5

(* A commit publishes a complete trail, and overtakes the counter of every *)
(* other session that has something to flush.                              *)
LEMMA AuditCommit ==
  ASSUME AuditInv, EventLogTypeOK', NEW w \in Writers, Commit(w)
  PROVE  Audit'
  <1> Nobody \notin Writers  BY WritersAssumption DEF Writers
  <1>1. /\ writer = w /\ writer' = Nobody /\ db' = draft /\ draft' = draft
        /\ pending[w] = <<>> /\ mem[w] = base[w]
        /\ pending'[w] = <<>> /\ \A r \in Rows : mem'[w][r] = base'[w][r]
        /\ \A v \in Writers \ {w} : /\ pending'[v] = pending[v] /\ mem'[v] = mem[v]
                                    /\ base'[v] = base[v] /\ seen'[v] = seen[v]
    BY DEF Commit, Clean, Forget, AuditInv, EventLogTypeOK
  <1>2. \A v \in Writers : View(v)' = draft  BY <1>1 DEF View
  <1>3. View(w) = draft  BY <1>1 DEF View
  <1>4. Trail(draft.status, draft.log)
    BY <1>1, <1>3, NothingToFlush DEF AuditInv, Audit
  <1>5. draft.seq > db.seq /\ draft.seq \in Nat /\ db.seq \in Nat
    BY <1>1 DEF AuditInv, Careful, EventLogTypeOK, Stores
  <1>6. ASSUME NEW v \in Writers, pending'[v] = <<>> \/ seen'[v] = View(v)'.seq
        PROVE  Trail(StatusAfter(v)', LogAfter(v)')
    <2>1. pending'[v] = <<>>
      <3>1. CASE v = w  BY <1>1, <3>1
      <3>2. CASE v # w
        <4>1. View(v) = db  BY <1>1, <3>2 DEF View
        <4>2. seen[v] <= db.seq /\ seen[v] \in Nat \cup {-1}
          BY <4>1 DEF AuditInv, Numbers, EventLogTypeOK
        <4> QED  BY <1>1, <1>2, <1>5, <1>6, <3>2, <4>2
      <3> QED  BY <3>1, <3>2
    <2>2. v \in Services => \A r \in Rows : mem'[v][r] = base'[v][r]
      BY <1>1, <2>1 DEF AuditInv, Careful
    <2>3. StatusAfter(v)' = [r \in Rows |-> draft.status[r]]  BY <1>2, <2>2 DEF StatusAfter
    <2>4. draft.status = [r \in Rows |-> draft.status[r]]
      BY DEF AuditInv, EventLogTypeOK, Stores, Columns
    <2>5. Numbered(v)' = {}  BY <2>1 DEF Numbered
    <2>6. LogAfter(v)' = draft.log  BY <1>2, <2>5 DEF LogAfter
    <2> QED  BY <1>4, <2>3, <2>4, <2>6
  <1>7. Trail(db'.status, db'.log)  BY <1>1, <1>4
  <1> QED  BY <1>6, <1>7 DEF Audit

LEMMA AuditRollback ==
  ASSUME AuditInv, NEW w \in Writers, Rollback(w)
  PROVE  Trail(StatusAfter(w)', LogAfter(w)')
  <1> Nobody \notin Writers  BY WritersAssumption DEF Writers
  <1>1. /\ pending'[w] = <<>> /\ \A r \in Rows : mem'[w][r] = base'[w][r]
        /\ View(w)' = db
    BY DEF Rollback, Forget, View, AuditInv, EventLogTypeOK
  <1>2. StatusAfter(w)' = [r \in Rows |-> db.status[r]]  BY <1>1 DEF StatusAfter
  <1>3. db.status = [r \in Rows |-> db.status[r]]
    BY DEF AuditInv, EventLogTypeOK, Stores, Columns
  <1>4. Numbered(w)' = {}  BY <1>1 DEF Numbered
  <1>5. LogAfter(w)' = db.log  BY <1>1, <1>4 DEF LogAfter
  <1> QED  BY <1>2, <1>3, <1>5 DEF AuditInv, Audit

LEMMA AuditStep ==
  ASSUME AuditInv, EventLogTypeOK', SingleController, [Next]_vars
  PROVE  Audit'
  <1> DEFINE After(v) == pending'[v] = <<>> \/ seen'[v] = View(v)'.seq
                           => Trail(StatusAfter(v)', LogAfter(v)')
  <1>1. CASE UNCHANGED vars
    BY <1>1 DEF AuditInv, Audit, vars, StatusAfter, LogAfter, Numbered, View
  <1>2. ASSUME NEW w \in Writers, db' = db, After(w),
               \A v \in Writers \ {w} : /\ mem'[v] = mem[v] /\ base'[v] = base[v]
                                       /\ pending'[v] = pending[v] /\ seen'[v] = seen[v]
                                       /\ View(v)' = View(v)
        PROVE  Audit'
    <2>1. \A v \in Writers : After(v)  BY <1>2, Untouched DEF AuditInv
    <2> QED  BY <1>2, <2>1 DEF AuditInv, Audit
  <1>3. ASSUME NEW w \in Writers, LoadProject(w) PROVE Audit'
    <2>1. pending[w] = <<>>  BY <1>3 DEF LoadProject, AuditInv, ReadFirst
    <2>2. Trail(StatusAfter(w), LogAfter(w))  BY <2>1 DEF AuditInv, Audit
    <2>3. Numbered(w) = {} /\ Numbered(w)' = {}  BY <1>3, <2>1 DEF Numbered, LoadProject
    <2>4. StatusAfter(w)' = StatusAfter(w) /\ LogAfter(w)' = LogAfter(w)
      BY <1>3, <2>3 DEF LoadProject, StatusAfter, LogAfter, View
    <2>5. After(w)  BY <2>2, <2>4
    <2> QED  BY <1>2, <1>3, <2>5 DEF LoadProject, View, AuditInv, EventLogTypeOK
  <1>4. ASSUME NEW w \in Writers, NEW r \in Rows, Load(w, r) PROVE Audit'
    <2>1. pending[w] = <<>> /\ mem[w] = base[w]  BY <1>4 DEF Load, Clean
    <2>2. Trail(StatusAfter(w), LogAfter(w))  BY <2>1 DEF AuditInv, Audit
    <2>3. \A x \in Rows : mem'[w][x] = base'[w][x]
      BY <1>4, <2>1 DEF Load, AuditInv, EventLogTypeOK, Columns
    <2>4. StatusAfter(w)' = StatusAfter(w)
      BY <1>4, <2>1, <2>3 DEF Load, StatusAfter, View
    <2>5. LogAfter(w)' = LogAfter(w)  BY <1>4 DEF Load, LogAfter, Numbered, View
    <2>6. After(w)  BY <2>2, <2>4, <2>5
    <2> QED  BY <1>2, <1>4, <2>6 DEF Load, View, AuditInv, EventLogTypeOK
  <1>5. ASSUME NEW w \in Writers, NEW about \in JobRows \cup {Other}, NoteOther(w, about)
        PROVE  Audit'
    <2>1. pending'[w] # <<>>  BY <1>5, CarefulNote DEF NoteOther
    <2>2. After(w)  BY <1>5, <2>1, AuditOther
    <2> QED  BY <1>2, <1>5, <2>2 DEF NoteOther, Note, View, AuditInv, EventLogTypeOK
  <1>6. ASSUME NEW w \in Writers, NEW r \in Rows, NEW to \in DOMAIN Table(r), Transition(w, r, to)
        PROVE  Audit'
    <2>1. pending'[w] # <<>>  BY <1>6, CarefulNote DEF Transition
    <2>2. After(w)  BY <1>6, <2>1, AuditTransition
    <2> QED  BY <1>2, <1>6, <2>2 DEF Transition, Note, View, AuditInv, EventLogTypeOK
  <1>7. ASSUME NEW w \in Writers, NEW r \in Rows, Create(w, r) PROVE Audit'
    <2>1. pending'[w] # <<>>  BY <1>7 DEF Create, AuditInv, EventLogTypeOK
    <2>2. After(w)  BY <1>7, <2>1, AuditCreate
    <2>3. \A v \in Writers \ {w} : View(v)' = View(v)
      BY <1>7, Isolation DEF Create, View, LockFree
    <2> QED  BY <1>2, <1>7, <2>2, <2>3 DEF Create, AuditInv, EventLogTypeOK
  <1>8. ASSUME NEW w \in Writers, Flush(w) PROVE Audit'
    <2>1. After(w)  BY <1>8, AuditFlush
    <2>2. \A v \in Writers \ {w} : View(v)' = View(v)
      BY <1>8, Isolation DEF Flush, View, LockFree
    <2> QED  BY <1>2, <1>8, <2>1, <2>2 DEF Flush, AuditInv, EventLogTypeOK
  <1>9. ASSUME NEW w \in Writers, Rollback(w) PROVE Audit'
    <2>1. After(w)  BY <1>9, AuditRollback
    <2>2. \A v \in Writers \ {w} : View(v)' = View(v)
      BY <1>9, WritersAssumption DEF Rollback, View, Writers
    <2> QED  BY <1>2, <1>9, <2>1, <2>2 DEF Rollback, Forget, AuditInv, EventLogTypeOK
  <1>10. ASSUME NEW w \in Writers, NEW r \in Rows, NEW to, Assign(w, r, to) PROVE Audit'
    <2>1. w \notin Services /\ UNCHANGED <<db, draft, writer, base, pending, seen>>
      BY <1>10 DEF Assign, SingleController
    <2>2. \A v \in Writers : /\ v \in Services => mem'[v] = mem[v]
                             /\ View(v)' = View(v)
      BY <1>10, <2>1 DEF Assign, AuditInv, EventLogTypeOK, View
    <2>3. \A v \in Writers : After(v)  BY <2>1, <2>2, Untouched DEF AuditInv
    <2> QED  BY <2>1, <2>3 DEF AuditInv, Audit
  <1> QED  BY <1>1, <1>3, <1>4, <1>5, <1>6, <1>7, <1>8, <1>9, <1>10, AuditCommit DEF Next

LEMMA AuditInvCorrect == SingleController => (Spec => []AuditInv)
  <1> SUFFICES ASSUME SingleController PROVE Spec => []AuditInv
    OBVIOUS
  <1>1. Init => Careful /\ Audit
    <2> SUFFICES ASSUME Init PROVE Careful /\ Audit  OBVIOUS
    <2>1. /\ \A w \in Writers : View(w) = db /\ pending[w] = <<>> /\ Numbered(w) = {}
          /\ \A w \in Writers, r \in Rows : base[w][r] = "UNREAD" /\ mem[w][r] = "UNREAD"
          /\ db.status = [r \in Rows |-> "ABSENT"] /\ db.log = {} /\ draft = db
      BY DEF Init, View, Nothing, Numbered
    <2>2. Careful  BY <2>1, WritersAssumption DEF Careful, Init, Writers
    <2>3. Trail(db.status, db.log)  BY <2>1 DEF Trail, Leads, About
    <2>4. \A w \in Writers : StatusAfter(w) = db.status /\ LogAfter(w) = db.log
      BY <2>1 DEF StatusAfter, LogAfter
    <2> QED  BY <2>2, <2>3, <2>4 DEF Audit
  <1>2. AuditInv /\ EventLogTypeOK' /\ [Next]_vars => Careful' /\ Audit'
    BY CarefulStep, AuditStep
  <1> QED  BY <1>1, <1>2, NumbersCorrect, PTL DEF Spec, AuditInv

(* With one controller, every committed status is the end of a complete    *)
(* chain of committed events, whatever clients append at the same time and *)
(* whatever statuses they assign past TransitionService: the flush guard   *)
(* is what stops those.                                                    *)
THEOREM AuditTrailCorrect == SingleController => (Spec => []AuditTrail)
  <1>1. AuditInv => AuditTrail  BY DEF AuditInv, Audit, AuditTrail, Trail
  <1> QED  BY <1>1, AuditInvCorrect, PTL
-----------------------------------------------------------------------------
(* A set of numbers up to a bound has a greatest one.  (The library states *)
(* induction for an operator; that < is well-founded it states of a set of *)
(* pairs, from which the least distance to the bound can be had.)          *)
LEMMA Greatest ==
  ASSUME NEW n \in Nat, NEW T \in SUBSET (0 .. n), T # {}
  PROVE  \E x \in T : \A y \in T : y <= x
  <1> DEFINE Less == {p \in Nat \X Nat : p[1] < p[2]}
             U == {x \in Nat : n - x \in T}
  <1>1. IsWellFoundedOn(Less, Nat)
    <2>1. OpToRel(<, Nat) = Less  BY DEF OpToRel
    <2> QED  BY <2>1, NatLessThanWellFounded
  <1>2. PICK t \in T : t \in 0 .. n  OBVIOUS
  <1>3. n - t \in U
    <2>1. n - t \in Nat /\ n - (n - t) = t  BY <1>2
    <2> QED  BY <2>1
  <1>4. PICK u \in U : \A y \in U : <<y, u>> \notin Less
    <2>1. U \subseteq Nat /\ U # {}  BY <1>3
    <2> HIDE DEF U, Less
    <2> QED  BY <1>1, <2>1, WFMin
  <1>5. ASSUME NEW y \in T PROVE y <= n - u
    <2>1. y \in 0 .. n  OBVIOUS
    <2>2. n - y \in Nat /\ n - (n - y) = y  BY <2>1
    <2>3. n - y \in U  BY <2>2
    <2>4. ~(n - y < u)  BY <1>4, <2>2, <2>3
    <2> QED  BY <2>1, <2>4
  <1> QED  BY <1>5

\* The events of an exact log in the order of seq.
InOrder(log, n) == [i \in 1 .. n |-> (CHOOSE e \in log : e.seq = i).change]

LEMMA InOrderIsLog ==
  ASSUME NEW log \in SUBSET [seq : Nat, change : Changes], NEW n \in Nat, Exact(log, n)
  PROVE  /\ InOrder(log, n) \in Seq(Changes)
         /\ Len(InOrder(log, n)) = n
         /\ \A e \in log : e.seq \in 1 .. n /\ InOrder(log, n)[e.seq] = e.change
         /\ \A i \in 1 .. n : \E e \in log : e.seq = i
  <1>1. \A i \in 1 .. n : \E e \in log : e.seq = i
    <2>1. \A i \in 1 .. n : i \in {e.seq : e \in log}  BY DEF Exact
    <2> QED  BY <2>1
  <1>2. \A e \in log : e.seq \in 1 .. n  BY DEF Exact
  <1>3. \A e \in log : (CHOOSE f \in log : f.seq = e.seq) = e  BY DEF Exact
  <1>4. \A e \in log : InOrder(log, n)[e.seq] = e.change  BY <1>2, <1>3 DEF InOrder
  <1>5. \A i \in 1 .. n : InOrder(log, n)[i] \in Changes
    <2> SUFFICES ASSUME NEW i \in 1 .. n PROVE InOrder(log, n)[i] \in Changes  OBVIOUS
    <2>1. PICK e \in log : e.seq = i  BY <1>1
    <2> QED  BY <1>4, <2>1
  <1>6. InOrder(log, n) \in [1 .. n -> Changes]  BY <1>5 DEF InOrder
  <1> QED  BY <1>1, <1>2, <1>4, <1>6

(* What a prefix of the log tells of a row, in terms of its events.        *)
LEMMA StandingIs ==
  ASSUME NEW log \in SUBSET [seq : Nat, change : Changes], NEW n \in Nat, Exact(log, n),
         NEW m \in 0 .. n, NEW r
  PROVE  LET now == History!Standing(InOrder(log, n), m, r) IN
         \/ now = "ABSENT" /\ \A e \in About(r, log) : e.seq > m
         \/ \E e \in About(r, log) :
              /\ e.seq <= m /\ now = e.change.new
              /\ \A f \in About(r, log) : f.seq <= m => f.seq <= e.seq
  <1> DEFINE s == InOrder(log, n)
             I == History!Places(s, m, r)
             now == History!Standing(s, m, r)
  <1>1. \A e \in log : e.seq \in 1 .. n /\ s[e.seq] = e.change  BY InOrderIsLog
  <1>2. \A i \in 1 .. n : \E e \in log : e.seq = i  BY InOrderIsLog
  <1>3. \A i : i \in I <=> i \in 1 .. m /\ s[i].row = r /\ s[i].new # "OBSERVED"  BY DEF History!Places
  <1>4. \A e \in About(r, log) : e.seq <= m => e.seq \in I  BY <1>1, <1>3 DEF About
  <1>5. now = IF I = {} THEN "ABSENT" ELSE s[History!Last(I)].new  BY DEF History!Standing
  <1>6. \A i \in I : \E e \in About(r, log) : e.seq = i  BY <1>1, <1>2, <1>3 DEF About
  <1> HIDE DEF s, I, now
  <1>7. CASE I = {}
    <2>1. \A e \in About(r, log) : e.seq \in Nat /\ ~(e.seq <= m)  BY <1>4, <1>7 DEF About
    <2> QED  BY <1>5, <1>7, <2>1 DEF now, s
  <1>8. CASE I # {}
    <2>1. I \in SUBSET (0 .. m) /\ m \in Nat  BY <1>3
    <2>2. \E i \in I : \A j \in I : j <= i  BY <1>8, <2>1, Greatest
    <2>3. History!Last(I) \in I /\ \A j \in I : j <= History!Last(I)  BY <2>2 DEF History!Last
    <2>4. PICK e \in About(r, log) : e.seq = History!Last(I)  BY <1>6, <2>3
    <2>5. e.seq <= m /\ now = e.change.new
      BY <1>1, <1>3, <1>5, <1>8, <2>3, <2>4 DEF About
    <2> QED  BY <1>4, <2>3, <2>4, <2>5 DEF now, s
  <1> QED  BY <1>7, <1>8

(* A complete trail makes every entry fit where it stands, and the statuses*)
(* what the whole log tells.                                               *)
LEMMA TrailIsReplay ==
  ASSUME NEW log \in SUBSET [seq : Nat, change : Changes], NEW n \in Nat, Exact(log, n),
         NEW status, Trail(status, log)
  PROVE  /\ \A i \in 1 .. n : History!Fits(InOrder(log, n), i)
         /\ \A r \in Rows : status[r] = History!Standing(InOrder(log, n), n, r)
  <1> DEFINE s == InOrder(log, n)
  <1>1. \A e \in log : e.seq \in 1 .. n /\ s[e.seq] = e.change  BY InOrderIsLog
  <1>2. \A i \in 1 .. n : \E e \in log : e.seq = i  BY InOrderIsLog
  <1>3. ASSUME NEW i \in 1 .. n PROVE History!Fits(s, i)
    <2> DEFINE r == s[i].row
               from == History!Standing(s, i - 1, r)
    <2> SUFFICES ASSUME r \in Rows, s[i].new # "OBSERVED"
                 PROVE  /\ s[i].old = from
                        /\ from = "ABSENT" \/ s[i].new \in [x \in Rows |-> Table(x)][r][from]
      BY DEF History!Fits
    <2>1. PICK e \in log : e.seq = i  BY <1>2
    <2>2. s[i] = e.change /\ e \in About(r, log) /\ e.seq \in Nat  BY <1>1, <2>1 DEF About
    <2>3. Leads(status[r], About(r, log), Table(r))  BY DEF Trail
    <2>4. e.change.old = from
      <3>1. i - 1 \in 0 .. n  OBVIOUS
      <3>2. \/ from = "ABSENT" /\ \A f \in About(r, log) : f.seq > i - 1
            \/ \E f \in About(r, log) :
                 /\ f.seq <= i - 1 /\ from = f.change.new
                 /\ \A g \in About(r, log) : g.seq <= i - 1 => g.seq <= f.seq
        BY <3>1, StandingIs
      <3> HIDE DEF s, r, from
      <3>3. \A f \in About(r, log) : f.seq \in Nat  BY DEF About
      <3>4. CASE from = "ABSENT" /\ \A f \in About(r, log) : f.seq > i - 1
        <4>1. \A f \in About(r, log) : f.seq >= e.seq  BY <2>1, <3>3, <3>4
        <4> QED  BY <2>2, <2>3, <3>4, <4>1 DEF Leads
      <3>5. ASSUME NEW f \in About(r, log), f.seq <= i - 1, from = f.change.new,
                   \A g \in About(r, log) : g.seq <= i - 1 => g.seq <= f.seq
            PROVE  e.change.old = from
        <4>1. f.seq < e.seq /\ \A g \in About(r, log) : g.seq <= f.seq \/ g.seq >= e.seq
          BY <2>1, <3>3, <3>5
        <4> QED  BY <2>2, <2>3, <3>5, <4>1 DEF Leads
      <3> QED  BY <3>2, <3>4, <3>5
    <2>5. e.change.old = "ABSENT" \/ e.change.new \in Table(r)[e.change.old]
      BY <2>2, <2>3 DEF Leads
    <2> HIDE DEF s, r, from
    <2> QED  BY <2>2, <2>4, <2>5
  <1>4. ASSUME NEW r \in Rows PROVE status[r] = History!Standing(s, n, r)
    <2> DEFINE now == History!Standing(s, n, r)
    <2>1. Leads(status[r], About(r, log), Table(r))  BY DEF Trail
    <2>2. \/ now = "ABSENT" /\ \A e \in About(r, log) : e.seq > n
          \/ \E e \in About(r, log) :
               /\ e.seq <= n /\ now = e.change.new
               /\ \A f \in About(r, log) : f.seq <= n => f.seq <= e.seq
      BY StandingIs
    <2>3. \A e \in About(r, log) : e.seq \in Nat /\ e.seq <= n  BY <1>1 DEF About
    <2> HIDE DEF now
    <2>4. CASE now = "ABSENT" /\ \A e \in About(r, log) : e.seq > n
      <3>1. About(r, log) = {}  BY <2>3, <2>4
      <3> QED  BY <2>1, <2>4, <3>1 DEF Leads, now
    <2>5. CASE \E e \in About(r, log) :
               /\ e.seq <= n /\ now = e.change.new
               /\ \A f \in About(r, log) : f.seq <= n => f.seq <= e.seq
      BY <2>1, <2>3, <2>5 DEF Leads, now
    <2> QED  BY <2>2, <2>4, <2>5
  <1> QED  BY <1>3, <1>4

(* A commit posts its transaction's events.                                *)
LEMMA LedgerStep ==
  ASSUME AuditInv, AuditInv', [Next]_vars
  PROVE  [History!Post]_(History!ledger)
  <1>1. CASE db' = db  BY <1>1 DEF History!ledger, Published
  <1>2. ASSUME NEW w \in Writers, Commit(w) PROVE History!Post
    <2> DEFINE s == InOrder(db.log, db.seq)
               t == InOrder(db'.log, db'.seq)
    <2>1. /\ db.log \in SUBSET [seq : Nat, change : Changes] /\ db.seq \in Nat
          /\ db'.log \in SUBSET [seq : Nat, change : Changes] /\ db'.seq \in Nat
      BY DEF AuditInv, EventLogTypeOK, Stores
    <2>2. Exact(db.log, db.seq) /\ Exact(db'.log, db'.seq)  BY DEF AuditInv, Numbers
    <2>3. db.log \subseteq db'.log /\ db'.seq > db.seq
      <3>1. db' = draft /\ writer = w /\ pending[w] = <<>>  BY <1>2 DEF Commit, Clean
      <3> QED  BY <3>1 DEF AuditInv, Numbers, Careful
    <2>4. s \in Seq(Changes) /\ Len(s) = db.seq /\ t \in Seq(Changes) /\ Len(t) = db'.seq
      BY <2>1, <2>2, InOrderIsLog
    <2>5. \A i \in 1 .. db.seq : t[i] = s[i]
      <3> SUFFICES ASSUME NEW i \in 1 .. db.seq PROVE t[i] = s[i]  OBVIOUS
      <3>1. PICK e \in db.log : e.seq = i  BY <2>1, <2>2, InOrderIsLog
      <3>2. s[e.seq] = e.change  BY <2>1, <2>2, InOrderIsLog
      <3>3. t[e.seq] = e.change  BY <2>1, <2>2, <2>3, InOrderIsLog
      <3> QED  BY <3>1, <3>2, <3>3
    <2>6. Trail(db'.status, db'.log)  BY DEF AuditInv, Audit
    <2>7. \A i \in 1 .. db'.seq : History!Fits(t, i)  BY <2>1, <2>2, <2>6, TrailIsReplay
    <2>8. db'.status = [r \in Rows |-> History!Standing(t, Len(t), r)]
      <3>1. db'.status = [r \in Rows |-> db'.status[r]]
        BY DEF AuditInv, EventLogTypeOK, Stores, Columns
      <3>2. \A r \in Rows : db'.status[r] = History!Standing(t, db'.seq, r)
        <4> DEFINE log == db'.log
                   n == db'.seq
                   status == db'.status
        <4>1. log \in SUBSET [seq : Nat, change : Changes] /\ n \in Nat  BY <2>1
        <4>2. Exact(log, n) /\ Trail(status, log)  BY <2>2, <2>6
        <4> HIDE DEF log, n, status
        <4>3. \A r \in Rows : status[r] = History!Standing(InOrder(log, n), n, r)
          BY <4>1, <4>2, TrailIsReplay
        <4> QED  BY <4>3 DEF log, n, status
      <3> HIDE DEF t
      <3> QED  BY <2>4, <3>1, <3>2
    <2>9. Published = s /\ Published' = t  BY DEF Published, InOrder
    <2> HIDE DEF s, t
    <2>10. SubSeq(t, 1, Len(s)) = s
      <3>1. \A i \in 1 .. db.seq : t[i] \in Changes  BY <2>1, <2>3, <2>4
      <3>2. /\ SubSeq(t, 1, db.seq) \in Seq(Changes)
            /\ Len(SubSeq(t, 1, db.seq)) = db.seq
            /\ \A i \in 1 .. db.seq : SubSeq(t, 1, db.seq)[i] = t[i]
        BY <2>1, <3>1, SubSeqProperties
      <3> QED  BY <2>4, <2>5, <3>2, SeqEqual
    <2>11. \A i \in Len(s) + 1 .. Len(t) : History!Fits(t, i)
      BY <2>1, <2>4, <2>7
    <2>12. Len(t) > Len(s)  BY <2>3, <2>4
    <2> QED  BY <2>4, <2>8, <2>9, <2>10, <2>11, <2>12 DEF History!Post
  <1> QED  BY <1>1, <1>2 DEF Next, LoadProject, NoteOther, Flush, Rollback, Load, Create, Transition, Assign,
                             vars

(* With one controller, the sessions, locks, guards and numbers implement a*)
(* ledger: a list of events that only grows, each of which moves its row on*)
(* from where the events before it left it, and the statuses in the        *)
(* database are always what a replay of the whole list gives.              *)
THEOREM LedgerCorrect == SingleController => (Spec => ImplementsLedger)
  <1>1. Init => History!LedgerInit
    <2> SUFFICES ASSUME Init PROVE History!LedgerInit  OBVIOUS
    <2>1. db.seq = 0 /\ db.status = [r \in Rows |-> "ABSENT"]  BY DEF Init
    <2>2. Published = <<>>  BY <2>1 DEF Published
    <2> QED  BY <2>1, <2>2 DEF History!LedgerInit
  <1>2. AuditInv /\ AuditInv' /\ [Next]_vars => [History!Post]_(History!ledger)
    BY LedgerStep
  <1> QED  BY <1>1, <1>2, AuditInvCorrect, PTL DEF Spec, ImplementsLedger, History!LedgerSpec

=============================================================================
