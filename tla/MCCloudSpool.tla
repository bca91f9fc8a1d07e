----------------------------- MODULE MCCloudSpool -----------------------------
(* Two events that may not be lost and one replaceable measure.              *)
EXTENDS CloudSpool, TLC

CONSTANTS quake, end, sample

MCEvents == {quake, end}
MCSymmetry == Permutations(MCEvents)
=============================================================================
