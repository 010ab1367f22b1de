------------------------------ MODULE LogCursor ------------------------------
(***************************************************************************)
(* Progress of a running job: the workload appends lines to run.out and    *)
(* run.error, poll reads each file from the stored cursor on, and the      *)
(* reconciler commits the new cursors with the values found.  poll takes a *)
(* file's size first and reads it to its end after that.                   *)
(*                                                                         *)
(* A line is two halves, so that a file may end inside one; only a line a  *)
(* poll reads whole is valid JSON.                                         *)
(***************************************************************************)
EXTENDS Integers

CONSTANTS
  MaxLines,   \* bound: lines in a file
  Keys,       \* "step", "loss", ...
  Carries,    \* keys with a value in a line of a file
  MaxCrashes  \* bound

Files == {"out", "error"}
Lines == 1 .. MaxLines

ASSUME LinesAssumption ==
  MaxLines \in Nat /\ Carries \in [Files -> [Lines -> SUBSET Keys]] /\ MaxCrashes \in Nat

VARIABLES
  len,       \* halves written to each file
  exited,    \* the runner has written exit.json
  step,      \* of poll and the reconciler
  size, got, \* what stat returned; where the read ended
  cursor,    \* log_cursor_json
  summary,   \* runtime_summary_json: the file and line each value is from
  seen,      \* lines parsed by polls that were recorded
  cuts,      \* the cursors there have been
  crashes

view == <<step, size, got>>
row == <<cursor, summary, seen, cuts>>
logVars == <<len, exited, step, size, got, cursor, summary, seen, cuts, crashes>>

Absent == <<"none", 0>>

LogInit ==
  /\ len = [f \in Files |-> 0]
  /\ exited = FALSE
  /\ step = "stat_out"
  /\ size = [f \in Files |-> 0] /\ got = [f \in Files |-> 0]
  /\ cursor = [f \in Files |-> 0]
  /\ summary = [k \in Keys |-> Absent]
  /\ seen = [f \in Files |-> {}]
  /\ cuts = [f \in Files |-> {0}]
  /\ crashes = 0
-----------------------------------------------------------------------------
\* The workload prints a line, or a part of one.
Write(f) ==
  /\ ~exited
  /\ \E n \in {1, 2} :
       /\ len[f] + n <= 2 * MaxLines
       /\ len' = [len EXCEPT ![f] = @ + n]
  /\ UNCHANGED <<exited, view, row, crashes>>

Exit ==
  /\ ~exited
  /\ exited' = TRUE
  /\ UNCHANGED <<len, view, row, crashes>>

Stat(f, now, next) ==
  /\ step = now
  /\ step' = next
  /\ size' = [size EXCEPT ![f] = len[f]]
  /\ UNCHANGED <<len, exited, got, row, crashes>>

Read(f, now, next) ==
  /\ step = now
  /\ step' = next
  /\ got' = [got EXCEPT ![f] = len[f]]
  /\ UNCHANGED <<len, exited, size, row, crashes>>

ReadLogs ==
  \/ Stat("out", "stat_out", "read_out") \/ Read("out", "read_out", "stat_error")
  \/ Stat("error", "stat_error", "read_error") \/ Read("error", "read_error", "look")

\* Only now does poll look for exit.json; with it this poll is the last.
LookForExit ==
  /\ step = "look"
  /\ step' = IF exited THEN "record_end" ELSE "record"
  /\ UNCHANGED <<len, exited, size, got, row, crashes>>

\* The lines of f that lie within what was read.
Parsed(f) == {i \in Lines : cursor[f] <= 2 * i - 2 /\ 2 * i <= got[f]}

Carrying(f, k) == {i \in Parsed(f) : k \in Carries[f][i]}

\* Mutant of Latest: a value that is there is not replaced.
MutLatest(S) == CHOOSE i \in S : \A j \in S : i <= j

Latest(S) == CHOOSE i \in S : \A j \in S : j <= i

\* run.error is parsed after run.out.
Progress ==
  [k \in Keys |->
     IF Carrying("error", k) # {} THEN <<"error", Latest(Carrying("error", k))>>
     ELSE IF Carrying("out", k) # {} THEN <<"out", Latest(Carrying("out", k))>>
     ELSE Absent]

\* Mutant of Offset: the size when the observation is recorded.
MutOffset(f) == len[f]

\* Mutant of Offset: the byte after the last one.
MutOffsetNext(f) == size[f] + 1

Offset(f) == size[f]

\* One transaction; a summary without a value leaves the old one.
Record ==
  /\ step \in {"record", "record_end"}
  /\ step' = IF step = "record" THEN "stat_out" ELSE "collecting"
  /\ cursor' = [f \in Files |-> Offset(f)]
  /\ cuts' = [f \in Files |-> cuts[f] \cup {Offset(f)}]
  /\ summary' = IF \E k \in Keys : Progress[k] # Absent THEN Progress ELSE summary
  /\ seen' = [f \in Files |-> seen[f] \cup Parsed(f)]
  /\ UNCHANGED <<len, exited, size, got, crashes>>

\* The controller dies, or poll raises and only POLL_ERROR is recorded.
Abandon ==
  /\ step # "collecting"
  /\ crashes < MaxCrashes
  /\ crashes' = crashes + 1
  /\ step' = "stat_out"
  /\ UNCHANGED <<len, exited, size, got, row>>

LogNext ==
  \/ \E f \in Files : Write(f)
  \/ Exit \/ ReadLogs \/ LookForExit \/ Record \/ Abandon

LogSpec == LogInit /\ [][LogNext]_logVars
-----------------------------------------------------------------------------
Halves == 0 .. 2 * MaxLines

LogTypeOK ==
  /\ len \in [Files -> Halves] /\ exited \in BOOLEAN
  /\ step \in {"stat_out", "read_out", "stat_error", "read_error", "look",
               "record", "record_end", "collecting"}
  /\ size \in [Files -> Halves] /\ got \in [Files -> Halves]
  /\ cursor \in [Files -> Halves]
  /\ summary \in [Keys -> {Absent} \cup (Files \X Lines)]
  /\ seen \in [Files -> SUBSET Lines] /\ cuts \in [Files -> SUBSET Halves]
  /\ crashes \in Nat

(* Although the workload writes between the size and the read, and polls   *)
(* are abandoned and repeated, a line before the cursor has been parsed;   *)
(* the exception is a line in the middle of which a cursor came to lie.    *)
NothingSkipped ==
  \A f \in Files : \A i \in Lines :
    2 * i <= cursor[f] => i \in seen[f] \/ 2 * i - 1 \in cuts[f]

(* A value on show is the last one its file had for its key in all that    *)
(* polls have parsed: reading a stretch twice never brings an old one back.*)
SummaryIsLatest ==
  \A k \in Keys : \A f \in Files : \A i \in Lines :
    summary[k] = <<f, i>> =>
      i \in seen[f] /\ \A j \in seen[f] : k \in Carries[f][j] => j <= i
=============================================================================
