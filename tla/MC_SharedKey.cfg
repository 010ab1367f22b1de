CONSTANTS
  t1 = t1
  t2 = t2
  t3 = t3
  k1 = k1
  k3 = k3
  exit = exit
  NoTask = NoTask
  NoKey = NoKey
  Tasks <- MCTasks
  Keys <- MCKeys
  KeyOf <- MCKeyOf
  Deps <- MCDeps
  Rank <- MCRank
  Names <- MCNames
  ExitFile = exit
  ExitCodes = {"good", "bad"}
  Required <- MCNames
  Checked = {}
  Evidence = {}
  Infeasible <- MCInfeasible
  MaxAttempts = 2
  MaxCrashes = 1
  Faults <- MCFaults
SPECIFICATION Spec
INVARIANTS AttemptsBounded DependenciesRespected
PROPERTIES
  LegalMoves
  ImplementsBoard
