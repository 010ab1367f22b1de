CONSTANTS
  k1 = k1
  k2 = k2
  exit = exit
  metrics = metrics
  NoKey = NoKey
  Keys <- MCKeys
  Names <- MCNames
  ExitFile = exit
  ExitCodes = {"good", "bad"}
  Faults <- MCFaults
  MaxCrashes = 2
SPECIFICATION ProviderSpec
SYMMETRY KeySymmetry
INVARIANTS
  ProviderTypeOK
  LaunchBound
  AnswersAreTrue
PROPERTY LaunchedIsFinal
