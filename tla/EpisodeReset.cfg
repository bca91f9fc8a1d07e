CONSTANTS
  Threads = {"seedlink"}
  GroundTiers = {"normal", "restricted"}
  Instrumental = FALSE
  Operator = TRUE
  DiskFails = FALSE
  MaxCrashes = 0
  MaxIds = 3
SPECIFICATION Spec
INVARIANTS
  OneIdentity
