----------------------------- MODULE MCCommands -----------------------------
(***************************************************************************)
(* Two cabinets that may restart once between them; they are alike.        *)
(***************************************************************************)
EXTENDS Commands, TLC

MCSymmetry == Permutations(Orders)
=============================================================================
