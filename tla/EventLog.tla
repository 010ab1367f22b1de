------------------------------- MODULE EventLog -------------------------------
(***************************************************************************)
(* One project's audit log under several processes that write to the same  *)
(* SQLite file, each through sessions of its own: EventLog.append, the     *)
(* statuses TransitionService changes, the guard of db/session.py and the  *)
(* UNIQUE (project_id, seq) constraint.                                    *)
(*                                                                         *)
(* A session reads outside any transaction until its first flush.  That    *)
(* flush begins the transaction, with the write lock and a fresh snapshot; *)
(* what the session read before stays in its identity map as it was.       *)
(***************************************************************************)
EXTENDS Lifecycle, Integers, Sequences

CONSTANTS
  TaskRows, JobRows,
  Services,     \* processes that change statuses through TransitionService
  Clients,      \* processes that only create rows
  Direct,       \* processes that assign a status themselves
  Assigned,     \* the statuses they assign
  MaxSeq,       \* bound on event_seq
  Nobody, Other \* no process; an event about something else than a row

ASSUME RowsAssumption == TaskRows \cap JobRows = {} /\ Other \notin TaskRows \cup JobRows
ASSUME WritersAssumption == Nobody \notin Services \cup Clients \cup Direct
ASSUME SeqAssumption == MaxSeq \in Nat

VARIABLES
  db,       \* what is committed: [status, seq, log]
  draft,    \* db as the open transaction has changed it
  writer,   \* the process whose transaction is open, with the write lock
  seen,     \* project.event_seq as a session loaded or last flushed it; -1: not loaded
  base,     \* the status of a row as a session loaded or last flushed it
  mem,      \* the status of its object in memory
  pending   \* the changes whose events are in session.new

vars == <<db, draft, writer, seen, base, mem, pending>>

Rows == TaskRows \cup JobRows
Writers == Services \cup Clients \cup Direct

Table(r) == IF r \in TaskRows THEN TASK_TRANSITIONS ELSE COMPUTE_TRANSITIONS
\* Mutant of First: tasks get the first status of jobs.
MutFirst(r) == "CREATED"

First(r) == IF r \in TaskRows THEN "PENDING" ELSE "CREATED"

Nothing == [r \in Rows |-> "UNREAD"]

Init ==
  /\ db = [status |-> [r \in Rows |-> "ABSENT"], seq |-> 0, log |-> {}]
  /\ draft = db
  /\ writer = Nobody
  /\ seen = [w \in Writers |-> -1]
  /\ base = [w \in Writers |-> Nothing]
  /\ mem = base
  /\ pending = [w \in Writers |-> <<>>]

View(w) == IF writer = w THEN draft ELSE db

LockFree(w) == writer \in {Nobody, w}

Clean(w) == pending[w] = <<>> /\ mem[w] = base[w]

\* A query that finds the row; autoflush keeps it behind what is pending.
Load(w, r) ==
  /\ Clean(w)
  /\ mem[w][r] = "UNREAD"
  /\ View(w).status[r] # "ABSENT"
  /\ base' = [base EXCEPT ![w][r] = View(w).status[r]]
  /\ mem' = [mem EXCEPT ![w][r] = View(w).status[r]]
  /\ UNCHANGED <<db, draft, writer, seen, pending>>

\* session.get(Project) reads once: later calls find it in the identity map.
LoadProject(w) ==
  /\ seen[w] = -1
  /\ seen' = [seen EXCEPT ![w] = View(w).seq]
  /\ UNCHANGED <<db, draft, writer, base, mem, pending>>

Change(r, old, new) == [row |-> r, old |-> old, new |-> new]

\* EventLog.append numbers by the project object of its own session.
Note(w, change) ==
  /\ seen[w] # -1
  /\ seen[w] + Len(pending[w]) < MaxSeq
  /\ pending' = [pending EXCEPT ![w] = Append(@, change)]

\* An event about an artifact, or one about a job row that tells of an observation
\* status: "OBSERVED", since no observation status is an execution status.
NoteOther(w, about) ==
  /\ w \in Services
  /\ about \in JobRows => mem[w][about] # "UNREAD"
  /\ Note(w, Change(about, "OBSERVED", "OBSERVED"))
  /\ UNCHANGED <<db, draft, writer, seen, base, mem>>

Transition(w, r, to) ==
  /\ w \in Services
  /\ mem[w][r] # "UNREAD"
  /\ to \in Table(r)[mem[w][r]]
  /\ mem' = [mem EXCEPT ![w][r] = to]
  /\ Note(w, Change(r, mem[w][r], to))
  /\ UNCHANGED <<db, draft, writer, seen, base>>

\* A caller that sets the column without TransitionService.
Assign(w, r, to) ==
  /\ w \in Direct
  /\ mem[w][r] \notin {"UNREAD", to}
  /\ to \in DOMAIN Table(r)
  /\ mem' = [mem EXCEPT ![w][r] = to]
  /\ UNCHANGED <<db, draft, writer, seen, base, pending>>

\* A new row is flushed before its event is appended, in one transaction.
Create(w, r) ==
  /\ Clean(w)
  /\ LockFree(w)
  /\ View(w).status[r] = "ABSENT"
  /\ writer' = w
  /\ draft' = [View(w) EXCEPT !.status[r] = First(r)]
  /\ seen' = [seen EXCEPT ![w] = IF @ = -1 THEN View(w).seq ELSE @]
  /\ base' = [base EXCEPT ![w][r] = First(r)]
  /\ mem' = [mem EXCEPT ![w][r] = First(r)]
  /\ seen'[w] < MaxSeq
  /\ pending' = [pending EXCEPT ![w] = <<Change(r, "ABSENT", First(r))>>]
  /\ UNCHANGED db

\* Mutant of Audited: no guard.
MutAudited(w) == TRUE

\* Mutant of Audited: any event about the row will do, whatever status it tells.
MutAuditedRow(w) ==
  \A r \in Rows : mem[w][r] # base[w][r] => \E i \in DOMAIN pending[w] : pending[w][i].row = r

\* enforce_audited_state_changes
Audited(w) ==
  \A r \in Rows : mem[w][r] # base[w][r] =>
    \E i \in DOMAIN pending[w] : pending[w][i].row = r /\ pending[w][i].new = mem[w][r]

\* Mutant of Numbered: event_seq is incremented once for a whole flush.
MutNumbered(w) == {[seq |-> seen[w] + 1, change |-> pending[w][i]] : i \in DOMAIN pending[w]}

Numbered(w) == {[seq |-> seen[w] + i, change |-> pending[w][i]] : i \in DOMAIN pending[w]}

\* Mutant of Collides: no UNIQUE constraint on (project_id, seq).
MutCollides(w) == FALSE

Collides(w) == \E e \in Numbered(w), f \in View(w).log : e.seq = f.seq

Flush(w) ==
  /\ ~Clean(w)
  /\ LockFree(w)
  /\ Audited(w)
  /\ ~Collides(w)
  /\ writer' = w
  /\ draft' = [status |-> [r \in Rows |-> IF mem[w][r] = base[w][r] THEN View(w).status[r]
                                                                     ELSE mem[w][r]],
               seq |-> IF pending[w] = <<>> THEN View(w).seq ELSE seen[w] + Len(pending[w]),
               log |-> View(w).log \cup Numbered(w)]
  /\ seen' = [seen EXCEPT ![w] = IF @ = -1 THEN @ ELSE @ + Len(pending[w])]
  /\ base' = [base EXCEPT ![w] = mem[w]]
  /\ pending' = [pending EXCEPT ![w] = <<>>]
  /\ UNCHANGED <<db, mem>>

Forget(w) ==
  /\ seen' = [seen EXCEPT ![w] = -1]
  /\ base' = [base EXCEPT ![w] = Nothing]
  /\ mem' = [mem EXCEPT ![w] = Nothing]
  /\ pending' = [pending EXCEPT ![w] = <<>>]

Commit(w) ==
  /\ writer = w
  /\ Clean(w)
  /\ db' = draft
  /\ writer' = Nobody
  /\ Forget(w)
  /\ UNCHANGED draft

\* Any exception (a refused flush, a lock not free in time), the death of the
\* process, or the end of a session that has only read.
Rollback(w) ==
  /\ mem[w] # Nothing \/ seen[w] # -1
  /\ writer' = IF writer = w THEN Nobody ELSE writer
  /\ draft' = IF writer = w THEN db ELSE draft
  /\ Forget(w)
  /\ UNCHANGED db

Next ==
  \E w \in Writers :
    \/ LoadProject(w) \/ Flush(w) \/ Commit(w) \/ Rollback(w)
    \/ \E about \in JobRows \cup {Other} : NoteOther(w, about)
    \/ \E r \in Rows :
         \/ Load(w, r) \/ Create(w, r)
         \/ \E to \in DOMAIN Table(r) : Transition(w, r, to)
         \/ \E to \in Assigned : Assign(w, r, to)

Spec == Init /\ [][Next]_vars
-----------------------------------------------------------------------------
Statuses == TaskStatus \cup ComputeExecutionStatus \cup {"ABSENT", "UNREAD"}
Columns == {f \in [Rows -> Statuses] : \A r \in Rows : f[r] \in DOMAIN Table(r) \cup {"ABSENT", "UNREAD"}}
Told == Statuses \cup {"OBSERVED"}
Changes == [row : Rows \cup {Other}, old : Told, new : Told]
Stores == [status : Columns, seq : Nat, log : SUBSET [seq : Nat, change : Changes]]

EventLogTypeOK ==
  /\ db \in Stores /\ draft \in Stores
  /\ writer \in Writers \cup {Nobody}
  /\ seen \in [Writers -> Nat \cup {-1}]
  /\ base \in [Writers -> Columns]
  /\ mem \in [Writers -> Columns]
  /\ pending \in [Writers -> Seq(Changes)]

(* The committed events of a project are numbered 1, 2, ... event_seq with *)
(* no gap and no number twice, although append computes seq from a project *)
(* object that another process may have overtaken since it was read: only  *)
(* the UNIQUE constraint and the roll back of the loser's whole            *)
(* transaction, its update of event_seq included, stand between.           *)
SequenceExact ==
  /\ {e.seq : e \in db.log} = 1 .. db.seq
  /\ \A e, f \in db.log : e.seq = f.seq => e = f

(* A reader that remembers the last seq it saw misses nothing: what is     *)
(* committed later has a higher seq, and no event disappears or changes.   *)
EventsInCommitOrder ==
  [][ /\ db.log \subseteq db'.log
      /\ \A e \in db'.log \ db.log : e.seq > db.seq ]_vars

\* The events about a row's status lead from its creation to the one it has.
Leads(status, trail, table) ==
  /\ status = "ABSENT" <=> trail = {}
  /\ \A e \in trail :
       /\ (\A f \in trail : f.seq >= e.seq) => e.change.old = "ABSENT"
       /\ (\A f \in trail : f.seq <= e.seq) => e.change.new = status
       /\ e.change.old = "ABSENT" \/ e.change.new \in table[e.change.old]
  /\ \A e, f \in trail :
       e.seq < f.seq /\ (\A g \in trail : g.seq <= e.seq \/ g.seq >= f.seq)
         => f.change.old = e.change.new

About(r, log) == {e \in log : e.change.row = r /\ e.change.new # "OBSERVED"}

(* State and event are committed together: each row's events, in the order *)
(* of seq, lead from its creation to the status it has, each from where    *)
(* the one before it ended, by a move of TransitionService's table.  So no *)
(* transaction loses another's change, with one process that changes       *)
(* statuses, however stale the counter it appends with.                    *)
AuditTrail == \A r \in Rows : Leads(db.status[r], About(r, db.log), Table(r))

\* The committed events in the order of seq.
Published == [i \in 1 .. db.seq |-> (CHOOSE e \in db.log : e.seq = i).change]

(* Each commit that changes anything posts its events at the end of the    *)
(* log, and replaying the log gives the statuses of the database: nothing  *)
(* is lost, reordered or applied without an event, although every process  *)
(* works on rows and a counter that it read before it had the write lock.  *)
History ==
  INSTANCE Ledger WITH Moves <- [r \in Rows |-> Table(r)], Entries <- Changes,
                       entries <- Published, status <- db.status

ImplementsLedger == History!LedgerSpec
=============================================================================
