CONSTANTS
  siren = siren
  strobe = strobe
  gas = gas
  t1 = t1
  Siren = siren
  Strobe = strobe
  Protectors = {gas}
  Failsafe <- MCFailsafe
  Batches <- MCBatches
  Testers = {t1}
  NoChannel = NoChannel
  MaxLate = 1
SPECIFICATION Spec
INVARIANTS
  LiveAlertIsProtected
  SafeStateIsDark
  CabinetIsCoherent
  TestHasAnEnd
  HeldContactIsLatched
