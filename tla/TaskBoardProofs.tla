---------------------------- MODULE TaskBoardProofs ----------------------------
(***************************************************************************)
(* What follows from the board alone, for any tasks and dependencies.      *)
(***************************************************************************)
EXTENDS TaskBoard, TLAPS

BoardTypeOK ==
  /\ status \in [Tasks -> {"ABSENT", "PENDING", "READY", "RUNNING", "VERIFYING",
                         "SUCCEEDED", "FAILED"}]
  /\ attempts \in [Tasks -> Nat]

LEMMA BoardTypeStep ==
  ASSUME BoardTypeOK, [BoardNext]_board
  PROVE  BoardTypeOK'
<1> USE DEF BoardTypeOK, Move, All, In
<1>1. ASSUME NEW t \in Tasks, Create(t) \/ Start(t) \/ HandIn(t) PROVE BoardTypeOK'
  BY <1>1 DEF Create, Start, HandIn
<1>2. ASSUME NEW S \in SUBSET Tasks, Release(S) \/ Judge(S) \/ GiveUp(S) PROVE BoardTypeOK'
  BY <1>2 DEF Release, Judge, GiveUp
<1> QED BY <1>1, <1>2 DEF BoardNext, board

(* A task that cannot be requeued is dispatched exactly once.              *)
THEOREM AttemptOnceOnBoard == BoardSpec => []AttemptOnce
<1>1. BoardInit => BoardTypeOK /\ AttemptOnce
  BY DEF BoardInit, BoardTypeOK, AttemptOnce
<1>2. ASSUME BoardTypeOK, AttemptOnce, [BoardNext]_board
      PROVE  AttemptOnce'
  <2> USE <1>2 DEF AttemptOnce, BoardTypeOK, Move, All, In
  <2>1. ASSUME NEW t \in Tasks, Create(t) \/ HandIn(t) PROVE AttemptOnce'
    BY <2>1 DEF Create, HandIn
  <2>2. ASSUME NEW t \in Tasks, Start(t) PROVE AttemptOnce'
    BY <2>2 DEF Start
  <2>3. ASSUME NEW S \in SUBSET Tasks, Release(S) PROVE AttemptOnce'
    BY <2>3 DEF Release
  <2>4. ASSUME NEW S \in SUBSET Tasks, Judge(S) PROVE AttemptOnce'
    BY <2>4 DEF Judge
  <2>5. ASSUME NEW S \in SUBSET Tasks, GiveUp(S) PROVE AttemptOnce'
    BY <2>5 DEF GiveUp
  <2>6. CASE UNCHANGED board
    BY <2>6 DEF board
  <2> QED BY <2>1, <2>2, <2>3, <2>4, <2>5, <2>6 DEF BoardNext
<1>3. BoardTypeOK /\ AttemptOnce /\ [BoardNext]_board => BoardTypeOK' /\ AttemptOnce'
  BY <1>2, BoardTypeStep
<1> QED BY <1>1, <1>3, PTL DEF BoardSpec

(* A verdict a client has read never changes.                              *)
THEOREM VerdictsFinalOnBoard == BoardSpec => VerdictsAreFinal
<1>1. BoardInit => BoardTypeOK
  BY DEF BoardInit, BoardTypeOK
<1>2. BoardTypeOK /\ [BoardNext]_board => BoardTypeOK'
  BY BoardTypeStep
<1>3. BoardTypeOK /\ [BoardNext]_board =>
        [\A t \in Tasks : status[t] \in {"SUCCEEDED", "FAILED"} => status'[t] = status[t]]_board
  BY DEF BoardTypeOK, BoardNext, Create, Release, Start, HandIn, Judge, GiveUp, Move, All, In
<1> QED BY <1>1, <1>2, <1>3, PTL DEF BoardSpec, VerdictsAreFinal

=============================================================================
