CONSTANTS
  Bases = {"d1", "bad"}
  Invalid = {"bad"}
  Writers = {"p", "q"}
  Serialised = TRUE
  DiskFails = TRUE
  MaxFaults = 1
  MaxEdits = 3
  MaxVersion = 4
  MaxRestarts = 1
SPECIFICATION FairSpec
CHECK_DEADLOCK FALSE
INVARIANTS
  SharedOnlyByStray
  InSyncIsTrue
PROPERTIES
  NeverBack
  ReachesTheCabinet
