CONSTANTS
  Cascades = {{}, {"sms", "email"}}
  MaxAttempts = 2
  MaxAsks = 1
  MaxSlips = 1
SPECIFICATION FairSpec
INVARIANTS
  NoVoiceIsDropped
  TwiceOnlyIfCut
  BlockedOnlyByRace
PROPERTY
  EvacuationIsTold
