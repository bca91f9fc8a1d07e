CONSTANTS
  quake = quake
  end = end
  sample = sample
  Events <- MCEvents
  Telemetry = {sample}
  Cap = 1
  DiskFails = TRUE
  MaxNames = 3
  MaxCrashes = 1
  MaxLost = 1
SPECIFICATION Spec
SYMMETRY MCSymmetry
INVARIANTS
  NoLoss
  OwedIsHeld
  OneCopyInOrder
  TelemetryBounded
PROPERTY
  OutboxSpec
