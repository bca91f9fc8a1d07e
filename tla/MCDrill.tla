-------------------------------- MODULE MCDrill --------------------------------
(* Two drills and an alert; one drill with an alert and another input.       *)
EXTENDS Drill

MCInputs == {
  {"d1", "d2", "tier"}, {"d1", "silence", "tier"}, {"panel", "silence", "tier"},
  {"d1", "sasmex"}, {"d1", "quorum", "order"}}
=============================================================================
