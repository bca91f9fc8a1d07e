CONSTANTS
  owner = owner
  edge = edge
  hand = hand
  siren = siren
  gas = gas
  Nobody = Nobody
  Process <- MCProcess
  Pin = {siren, gas}
  CloseFails = TRUE
SPECIFICATION OwnerSpec
SYMMETRY MCSymmetry
INVARIANTS
  OneGovernor
  SuccessorFindsDoor
  DoorIsTheOwners
