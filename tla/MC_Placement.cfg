SPECIFICATION PlacementSpec
CONSTANTS
  plain = plain
  exact = exact
  large = large
  odd = odd
  elsewhere = elsewhere
  Cpu = Cpu
  None = None
  Local = "local"
  Registered = {"local"}
  MaxCrashes = 2
  Tasks <- MCTasks
  Gpus <- MCGpus
  MemoryMb <- MCMemoryMb
  GpuCount <- MCGpuCount
  MinMemory <- MCMinMemory
  Capabilities <- MCCapabilities
  AllowedProviders <- MCAllowedProviders
INVARIANTS PlacementTypeOK PlacementsMeetChecked RouterIsExact LaunchesKeepToPlacement
