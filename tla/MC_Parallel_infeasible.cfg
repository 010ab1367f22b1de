CONSTANTS
  t1 = t1
  t2 = t2
  k1 = k1
  k2 = k2
  exit = exit
  NoTask = NoTask
  NoKey = NoKey
  Tasks <- MCTasks
  Keys <- MCKeys
  KeyOf <- MCKeyOf
  Deps <- MCDeps
  Rank <- MCRank
  Names <- MCNames
  ExitFile = exit
  ExitCodes = {"good", "bad"}
  Required <- MCNames
  Checked = {}
  Evidence = {}
  Infeasible = {t1}
  MaxAttempts = 1
  MaxCrashes = 0
  Faults <- RunOnce
SPECIFICATION FairSpec
PROPERTY ActiveSettles
