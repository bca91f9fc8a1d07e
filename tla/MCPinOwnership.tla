---------------------------- MODULE MCPinOwnership ----------------------------
(* The dedicated owner, the edge service and one started by hand.            *)
EXTENDS PinOwnership, TLC

CONSTANTS owner, edge, hand, siren, gas

MCProcess == {owner, edge, hand}
MCSymmetry == Permutations(MCProcess)
=============================================================================
