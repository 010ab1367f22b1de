SPECIFICATION LogSpec
CONSTANTS
  step_ = step_
  loss = loss
  Keys <- MCKeys
  Carries <- MCCarries
  MaxLines = 2
  MaxCrashes = 2
CHECK_DEADLOCK FALSE
INVARIANTS LogTypeOK NothingSkipped SummaryIsLatest
