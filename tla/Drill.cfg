CONSTANTS
  Drills = {"d1", "d2"}
  Alarms = {"sasmex", "tier", "quorum", "order"}
  Inputs <- MCInputs
SPECIFICATION FairSpec
INVARIANTS
  RealWins
  EndsAsTold
PROPERTIES
  DrillIsSettled
  VoiceYields
CHECK_DEADLOCK FALSE
