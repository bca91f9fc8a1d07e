CONSTANTS
  Threads = {"seedlink", "sasmex"}
  GroundTiers = {"normal", "restricted", "manual_only"}
  Instrumental = TRUE
  Operator = TRUE
  DiskFails = FALSE
  MaxCrashes = 0
  MaxIds = 2
SPECIFICATION Spec
INVARIANTS
  ClosingIsNotLost
PROPERTIES
  HeldUntilSilence
