CONSTANTS
  t1 = t1
  k1 = k1
  exit = exit
  metrics = metrics
  NoTask = NoTask
  NoKey = NoKey
  Tasks <- MCTasks
  Keys <- MCKeys
  KeyOf <- MCKeyOf
  Deps <- MCDeps
  Rank <- MCRank
  Names <- MCNames
  ExitFile = exit
  ExitCodes = {"good", "bad"}
  Required <- MCRequired
  Checked <- MCMetrics
  Evidence <- MCMetrics
  Infeasible = {}
  MaxAttempts = 1
  MaxCrashes = 1
  Faults <- NoFaults
SPECIFICATION Spec
INVARIANT SingleLaunch
