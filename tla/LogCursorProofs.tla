---------------------------- MODULE LogCursorProofs ----------------------------
(***************************************************************************)
(* Proofs about LogCursor, for any files, lines and number of crashes.     *)
(***************************************************************************)
EXTENDS LogCursor, TLAPS, WellFoundedInduction

Before == OpToRel(<, Nat)

LEMMA LeastLine ==
  ASSUME NEW S \in SUBSET Nat, S # {}
  PROVE  \E n \in S : \A m \in S : n <= m
<1>1. IsWellFoundedOn(Before, Nat)
  BY NatLessThanWellFounded DEF Before
<1>2. PICK n \in S : \A m \in S : ~ (<<m, n>> \in Before)
  BY <1>1, WFMin
<1>3. ASSUME NEW m \in S, m < n PROVE <<m, n>> \in Before
  BY <1>3, Zenon DEF Before, OpToRel
<1>4. \A m \in S : ~ (m < n)
  BY <1>2, <1>3
<1>5. n \in Nat /\ \A m \in S : m \in Nat
  OBVIOUS
<1>6. QED BY <1>4, <1>5

LEMMA LatestLine ==
  ASSUME NEW S \in SUBSET Lines, S # {}
  PROVE  Latest(S) \in S /\ \A j \in S : j <= Latest(S)
<1> DEFINE T == {n \in Nat : MaxLines - n \in S}
<1>0. MaxLines \in Nat /\ \A i \in S : i \in 1 .. MaxLines
  BY LinesAssumption DEF Lines
<1>1. \A i \in S : MaxLines - i \in T
  <2>1. \A i \in S : MaxLines - i \in Nat /\ MaxLines - (MaxLines - i) = i
    BY <1>0
  <2>2. QED BY <2>1
<1>2. T \in SUBSET Nat /\ T # {}
  BY <1>1
<1>3. \E n \in T : \A m \in T : n <= m
  <2> HIDE DEF T
  <2> QED BY <1>2, LeastLine
<1>4. PICK n \in T : \A m \in T : n <= m
  BY <1>3
<1>5. MaxLines - n \in S /\ n \in Nat
  OBVIOUS
<1> HIDE DEF T
<1>6. \A j \in S : j <= MaxLines - n
  <2> TAKE j \in S
  <2>1. n <= MaxLines - j
    BY <1>1, <1>4
  <2>2. QED BY <1>0, <1>5, <2>1
<1>7. \E i \in S : \A j \in S : j <= i
  BY <1>5, <1>6
<1>8. QED BY <1>7 DEF Latest
-----------------------------------------------------------------------------
SizeTaken(f) ==
  step \in {"read_error", "look", "record", "record_end"} \cup
             (IF f = "out" THEN {"read_out", "stat_error"} ELSE {})

ReadDone(f) ==
  step \in {"look", "record", "record_end"} \cup
             (IF f = "out" THEN {"stat_error", "read_error"} ELSE {})

\* A read ends at or after the size taken before it, and at or after all that was read earlier.
ViewOK ==
  \A f \in Files :
    /\ SizeTaken(f) => size[f] <= len[f]
    /\ ReadDone(f) => size[f] <= got[f] /\ \A j \in seen[f] : 2 * j <= got[f]
    /\ ReadDone(f) => got[f] <= len[f]

SeenIsWritten == \A f \in Files : \A j \in seen[f] : 2 * j <= len[f]

CursorIsCut == \A f \in Files : cursor[f] \in cuts[f]

LogInv ==
  LogTypeOK /\ ViewOK /\ SeenIsWritten /\ CursorIsCut /\ NothingSkipped /\ SummaryIsLatest

LEMMA InitLog == LogInit => LogInv
<1> SUFFICES ASSUME LogInit PROVE LogInv
  OBVIOUS
<1> USE DEF LogInit
<1>0. MaxLines \in Nat
  BY LinesAssumption
<1>1. LogTypeOK
  <2>1. 0 \in Halves
    BY <1>0 DEF Halves
  <2>2. cuts \in [Files -> SUBSET Halves] /\ seen \in [Files -> SUBSET Lines]
    BY <2>1
  <2>3. len \in [Files -> Halves] /\ size \in [Files -> Halves] /\ got \in [Files -> Halves]
        /\ cursor \in [Files -> Halves]
    BY <2>1
  <2>4. summary \in [Keys -> {Absent} \cup (Files \X Lines)]
    OBVIOUS
  <2>5. QED BY <2>2, <2>3, <2>4 DEF LogTypeOK
<1>2. ViewOK /\ SeenIsWritten /\ CursorIsCut
  <2>1. \A f \in Files : ~ SizeTaken(f) /\ ~ ReadDone(f)
    BY DEF SizeTaken, ReadDone
  <2>2. QED BY <2>1 DEF ViewOK, SeenIsWritten, CursorIsCut
<1>3. NothingSkipped
  BY <1>0 DEF NothingSkipped, Lines
<1>4. SummaryIsLatest
  <2>1. \A f \in Files : \A i \in Lines : Absent # <<f, i>>
    BY DEF Absent, Files
  <2>2. QED BY <2>1 DEF SummaryIsLatest
<1>5. QED BY <1>1, <1>2, <1>3, <1>4 DEF LogInv

\* What a recorded poll finds.
LEMMA ProgressFound ==
  ASSUME NEW k \in Keys
  PROVE  /\ Progress[k] \in {Absent} \cup (Files \X Lines)
         /\ Progress[k] = Absent => \A f \in Files : Carrying(f, k) = {}
         /\ \A f \in Files : \A i \in Lines :
              Progress[k] = <<f, i>> => i \in Carrying(f, k) /\ \A j \in Carrying(f, k) : j <= i
<1>1. \A f \in Files : Carrying(f, k) \in SUBSET Lines
  BY DEF Carrying, Parsed
<1>2. \A f \in Files : Carrying(f, k) # {} =>
        /\ Latest(Carrying(f, k)) \in Carrying(f, k)
        /\ \A j \in Carrying(f, k) : j <= Latest(Carrying(f, k))
  BY <1>1, LatestLine
<1>3. Progress[k] =
        IF Carrying("error", k) # {} THEN <<"error", Latest(Carrying("error", k))>>
        ELSE IF Carrying("out", k) # {} THEN <<"out", Latest(Carrying("out", k))>>
        ELSE Absent
  BY DEF Progress
<1>4. \A f \in Files, i \in Lines : Absent # <<f, i>>
  BY DEF Absent, Files
<1>5. QED
  <2>1. CASE Carrying("error", k) # {}
    BY <1>1, <1>2, <1>3, <1>4, <2>1 DEF Files
  <2>2. CASE Carrying("error", k) = {} /\ Carrying("out", k) # {}
    BY <1>1, <1>2, <1>3, <1>4, <2>2 DEF Files
  <2>3. CASE Carrying("error", k) = {} /\ Carrying("out", k) = {}
    BY <1>3, <1>4, <2>3 DEF Files
  <2>4. QED BY <2>1, <2>2, <2>3

LEMMA RecordLog == LogInv /\ Record => LogInv'
<1> SUFFICES ASSUME LogInv, Record PROVE LogInv'
  OBVIOUS
<1> USE DEF LogInv, Record
<1>0. MaxLines \in Nat /\ Lines \in SUBSET Nat
  BY LinesAssumption DEF Lines
<1>1. \A f \in Files :
        /\ size[f] \in Halves /\ size[f] <= got[f] /\ got[f] \in Halves /\ got[f] <= len[f]
        /\ \A j \in seen[f] : 2 * j <= got[f]
  BY DEF LogTypeOK, ViewOK, ReadDone
<1>2. \A f \in Files : Parsed(f) \in SUBSET Lines /\ \A i \in Parsed(f) : 2 * i <= got[f]
  BY DEF Parsed
<1>3. /\ \A f \in Files : cursor'[f] = size[f] /\ cuts'[f] = cuts[f] \cup {size[f]}
      /\ \A f \in Files : seen'[f] = seen[f] \cup Parsed(f)
      /\ len' = len /\ size' = size /\ got' = got
  BY DEF Offset
<1>4. LogTypeOK'
  <2>1. Progress \in [Keys -> {Absent} \cup (Files \X Lines)]
    BY ProgressFound DEF Progress
  <2>2. summary' \in [Keys -> {Absent} \cup (Files \X Lines)]
    BY <2>1 DEF LogTypeOK
  <2>3. seen' \in [Files -> SUBSET Lines] /\ cuts' \in [Files -> SUBSET Halves]
        /\ cursor' \in [Files -> Halves]
    BY <1>1, <1>2 DEF LogTypeOK, Offset
  <2>4. QED BY <2>2, <2>3 DEF LogTypeOK
<1>5. SeenIsWritten'
  <2>1. ASSUME NEW f \in Files, NEW j \in seen'[f] PROVE 2 * j <= len[f]
    <3>1. j \in Nat /\ 2 * j <= got[f]
      BY <1>0, <1>1, <1>2, <1>3 DEF LogTypeOK
    <3>2. len[f] \in Nat /\ got[f] \in Nat
      BY <1>0, <1>1 DEF LogTypeOK, Halves
    <3>3. QED BY <1>1, <3>1, <3>2
  <2>2. QED BY <1>3, <2>1 DEF SeenIsWritten
<1>6. ViewOK' /\ CursorIsCut'
  BY <1>3 DEF ViewOK, CursorIsCut, SizeTaken, ReadDone
<1>7. NothingSkipped'
  <2>1. ASSUME NEW f \in Files, NEW i \in Lines, 2 * i <= size[f]
        PROVE  i \in seen'[f] \/ 2 * i - 1 \in cuts'[f]
    <3>1. /\ i \in Nat /\ cursor[f] \in Nat /\ size[f] \in Nat /\ got[f] \in Nat
          /\ size[f] <= got[f]
      BY <1>0, <1>1 DEF LogTypeOK, Halves
    <3>2. CASE 2 * i <= cursor[f]
      BY <1>3, <3>2 DEF NothingSkipped
    <3>3. CASE cursor[f] <= 2 * i - 2
      BY <1>3, <2>1, <3>1, <3>3 DEF Parsed
    <3>4. CASE cursor[f] = 2 * i - 1
      BY <1>3, <3>4 DEF CursorIsCut
    <3>5. QED BY <3>1, <3>2, <3>3, <3>4
  <2>2. QED BY <1>3, <2>1 DEF NothingSkipped
<1>8. SummaryIsLatest'
  <2> SUFFICES ASSUME NEW k \in Keys, NEW f \in Files, NEW i \in Lines, summary'[k] = <<f, i>>
               PROVE  i \in seen'[f] /\ \A j \in seen'[f] : k \in Carries[f][j] => j <= i
    BY DEF SummaryIsLatest
  <2>1. CASE \E l \in Keys : Progress[l] # Absent
    <3>1. Progress[k] = <<f, i>>
      BY <2>1
    <3>2. i \in Carrying(f, k) /\ \A j \in Carrying(f, k) : j <= i
      BY <3>1, ProgressFound
    <3>3. ASSUME NEW j \in seen'[f], k \in Carries[f][j], j \notin Carrying(f, k)
          PROVE  j <= i
      <4>1. j \in seen[f] /\ j \in Lines /\ j \notin Parsed(f)
        BY <1>2, <1>3, <3>3 DEF Carrying, LogTypeOK
      <4>2. 2 * j <= got[f]
        BY <1>1, <4>1
      <4>3. ~ (cursor[f] <= 2 * j - 2)
        BY <4>1, <4>2 DEF Parsed
      <4>4. cursor[f] <= 2 * i - 2
        BY <3>2 DEF Carrying, Parsed
      <4>5. cursor[f] \in Nat /\ j \in Nat /\ i \in Nat
        BY <1>0, <4>1 DEF LogTypeOK, Halves
      <4>6. QED BY <4>3, <4>4, <4>5
    <3>4. i \in Parsed(f)
      BY <3>2 DEF Carrying
    <3>5. QED BY <1>3, <3>2, <3>3, <3>4
  <2>2. CASE \A l \in Keys : Progress[l] = Absent
    <3>1. summary[k] = <<f, i>>
      BY <2>2
    <3>2. Carrying(f, k) = {}
      BY <2>2, ProgressFound
    <3>3. \A j \in Parsed(f) : k \notin Carries[f][j]
      BY <1>2, <3>2 DEF Carrying
    <3>4. QED BY <1>3, <3>1, <3>3 DEF SummaryIsLatest
  <2>3. QED BY <2>1, <2>2
<1>9. QED BY <1>4, <1>5, <1>6, <1>7, <1>8

LEMMA StepLog == LogInv /\ [LogNext]_logVars => LogInv'
<1> SUFFICES ASSUME LogInv, [LogNext]_logVars PROVE LogInv'
  OBVIOUS
<1> USE DEF LogInv, view, row
<1>0. MaxLines \in Nat /\ Lines \in SUBSET Nat
  BY LinesAssumption DEF Lines
<1>a. ASSUME NEW f \in Files, Write(f) PROVE LogInv'
  <2> USE <1>a DEF Write
  <2>1. PICK n \in {1, 2} : len[f] + n <= 2 * MaxLines /\ len' = [len EXCEPT ![f] = @ + n]
    OBVIOUS
  <2>2. \A g \in Files : len[g] \in Nat /\ len'[g] \in Halves /\ len[g] <= len'[g]
    BY <1>0, <2>1 DEF LogTypeOK, Halves
  <2>3. LogTypeOK'
    BY <2>1, <2>2 DEF LogTypeOK
  <2>4. \A g \in Files : \A m \in Nat : m <= len[g] => m <= len'[g]
    BY <1>0, <2>2 DEF Halves
  <2>5. ViewOK'
    <3>1. \A g \in Files : size[g] \in Nat /\ got[g] \in Nat
      BY <1>0 DEF LogTypeOK, Halves
    <3>2. QED BY <2>4, <3>1 DEF ViewOK, SizeTaken, ReadDone
  <2>6. SeenIsWritten'
    <3>1. \A g \in Files : \A j \in seen[g] : 2 * j \in Nat
      BY <1>0 DEF LogTypeOK
    <3>2. QED BY <2>4, <3>1 DEF SeenIsWritten
  <2>7. (CursorIsCut /\ NothingSkipped /\ SummaryIsLatest)'
    BY DEF CursorIsCut, NothingSkipped, SummaryIsLatest
  <2>8. QED BY <2>3, <2>5, <2>6, <2>7
<1>b. ASSUME ReadLogs PROVE LogInv'
  <2> USE <1>b DEF ReadLogs, Stat, Read
  <2>1. LogTypeOK'
    BY DEF LogTypeOK, Files
  <2>2. ViewOK'
    <3>0. \A f \in Files : len[f] \in Nat /\ size[f] \in Nat /\ got[f] \in Nat
      BY <1>0 DEF LogTypeOK, Halves
    <3>1. CASE Stat("out", "stat_out", "read_out")
      BY <3>0, <3>1 DEF ViewOK, SizeTaken, ReadDone, LogTypeOK, Files
    <3>2. CASE Read("out", "read_out", "stat_error")
      BY <3>0, <3>2 DEF ViewOK, SizeTaken, ReadDone, LogTypeOK, Files, SeenIsWritten
    <3>3. CASE Stat("error", "stat_error", "read_error")
      BY <3>0, <3>3 DEF ViewOK, SizeTaken, ReadDone, LogTypeOK, Files
    <3>4. CASE Read("error", "read_error", "look")
      BY <3>0, <3>4 DEF ViewOK, SizeTaken, ReadDone, LogTypeOK, Files, SeenIsWritten
    <3>5. QED BY <3>1, <3>2, <3>3, <3>4
  <2>3. (SeenIsWritten /\ CursorIsCut /\ NothingSkipped /\ SummaryIsLatest)'
    BY DEF SeenIsWritten, CursorIsCut, NothingSkipped, SummaryIsLatest
  <2>4. QED BY <2>1, <2>2, <2>3
<1>c. ASSUME Exit \/ LookForExit \/ Abandon PROVE LogInv'
  <2> USE <1>c DEF Exit, LookForExit, Abandon
  <2>1. LogTypeOK'
    <3>1. /\ step' \in {"stat_out", "read_out", "stat_error", "read_error", "look",
                        "record", "record_end", "collecting"}
      BY DEF LogTypeOK
    <3>2. exited' \in BOOLEAN
      <4>1. exited' = TRUE \/ exited' = exited
        BY Zenon
      <4>2. QED BY <4>1, Zenon DEF LogTypeOK
    <3>3. crashes' \in Nat
      BY DEF LogTypeOK
    <3>4. UNCHANGED <<len, size, got, cursor, summary, seen, cuts>>
      OBVIOUS
    <3>5. QED BY <3>1, <3>2, <3>3, <3>4, Zenon DEF LogTypeOK
  <2>2. ViewOK'
    BY DEF ViewOK, SizeTaken, ReadDone
  <2>3. (SeenIsWritten /\ CursorIsCut /\ NothingSkipped /\ SummaryIsLatest)'
    BY DEF SeenIsWritten, CursorIsCut, NothingSkipped, SummaryIsLatest
  <2>4. QED BY <2>1, <2>2, <2>3
<1>d. CASE UNCHANGED logVars
  BY <1>d DEF logVars, LogTypeOK, ViewOK, SizeTaken, ReadDone, SeenIsWritten, CursorIsCut,
     NothingSkipped, SummaryIsLatest
<1>e. QED
  BY <1>a, <1>b, <1>c, <1>d, RecordLog DEF LogNext

\* The inductive invariant behind the theorems below holds throughout.
THEOREM LogCorrect == LogSpec => []LogInv
BY InitLog, StepLog, PTL DEF LogSpec

\* Files, cursors and the summary keep their types.
THEOREM LogTypeCorrect == LogSpec => []LogTypeOK
<1>1. LogInv => LogTypeOK
  BY DEF LogInv
<1>2. QED BY <1>1, LogCorrect, PTL

\* No line before a cursor is missed, unless a cursor came to lie inside it.
THEOREM NothingSkippedCorrect == LogSpec => []NothingSkipped
<1>1. LogInv => NothingSkipped
  BY DEF LogInv
<1>2. QED BY <1>1, LogCorrect, PTL

\* A value on show is the latest of its file.
THEOREM SummaryCorrect == LogSpec => []SummaryIsLatest
<1>1. LogInv => SummaryIsLatest
  BY DEF LogInv
<1>2. QED BY <1>1, LogCorrect, PTL
=============================================================================
