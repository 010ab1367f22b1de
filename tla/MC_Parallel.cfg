CONSTANTS
  t1 = t1
  t2 = t2
  k1 = k1
  k2 = k2
  exit = exit
  NoTask = NoTask
  NoKey = NoKey
  Tasks <- MCTasks
  Keys <- MCKeys
  KeyOf <- MCKeyOf
  Deps <- MCDeps
  Rank <- MCRank
  Names <- MCNames
  ExitFile = exit
  ExitCodes = {"good"}
  Required <- MCNames
  Checked = {}
  Evidence = {}
  Infeasible = {}
  MaxAttempts = 2
  MaxCrashes = 1
  Faults <- RunOnce
SPECIFICATION FairSpec
INVARIANTS
  RunningHasLiveJob
  JobsFollowDispatch
  SubmittedIsLaunched
  AttemptOnce
PROPERTIES
  LeaseSparesLiveWork
  ActiveSettles
