CONSTANTS
  Threads = {"seedlink"}
  GroundTiers = {"normal", "watch", "restricted", "evacuate"}
  Instrumental = TRUE
  Operator = FALSE
  DiskFails = TRUE
  MaxCrashes = 1
  MaxIds = 3
SPECIFICATION FairSpec
INVARIANTS
  OneIdentity
  TrackerIsFollowed
PROPERTIES
  OneEpisodePerQuake
  ClosingReachesCloud
