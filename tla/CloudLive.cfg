CONSTANTS
  quake = quake
  end = end
  sample = sample
  Events <- MCEvents
  Telemetry = {sample}
  Cap = 1
  DiskFails = FALSE
  MaxNames = 3
  MaxCrashes = 1
  MaxLost = 0
SPECIFICATION FairSpec
PROPERTY
  NothingIsStuck
