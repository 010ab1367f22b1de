-------------------------------- MODULE Ledger --------------------------------
(***************************************************************************)
(* What the event log promises to whoever reads it: a list of entries that *)
(* only grows, a transaction's entries at a time, and from which the status*)
(* of every row can be told.  No sessions, sequence numbers, locks, guards *)
(* or roll backs.  EventLog implements it.                                 *)
(***************************************************************************)
EXTENDS Integers, Sequences

CONSTANTS
  Rows,
  Moves,       \* of each row: from a status, where it may go
  Entries      \* what can be posted: [row, old, new]; `new' is "OBSERVED" when not a status

VARIABLES entries, status

ledger == <<entries, status>>

LedgerInit ==
  /\ entries = <<>>
  /\ status = [r \in Rows |-> "ABSENT"]

\* Where the first n entries of s tell of the status of r.
Places(s, n, r) == {i \in 1 .. n : s[i].row = r /\ s[i].new # "OBSERVED"}

Last(places) == CHOOSE i \in places : \A j \in places : j <= i

\* The status of r that the first n entries of s tell.
Standing(s, n, r) ==
  IF Places(s, n, r) = {} THEN "ABSENT" ELSE s[Last(Places(s, n, r))].new

\* Entry i, if it tells of a status, moves its row on from where it was left.
Fits(s, i) ==
  LET r == s[i].row
      from == Standing(s, i - 1, r) IN
  r \in Rows /\ s[i].new # "OBSERVED" => /\ s[i].old = from
                                         /\ from = "ABSENT" \/ s[i].new \in Moves[r][from]

\* One transaction posts one or more entries, and the statuses follow.
Post ==
  /\ entries' \in Seq(Entries)
  /\ Len(entries') > Len(entries)
  /\ SubSeq(entries', 1, Len(entries)) = entries
  /\ \A i \in Len(entries) + 1 .. Len(entries') : Fits(entries', i)
  /\ status' = [r \in Rows |-> Standing(entries', Len(entries'), r)]

LedgerSpec == LedgerInit /\ [][Post]_ledger

=============================================================================
