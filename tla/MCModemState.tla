---------------------------- MODULE MCModemState ----------------------------
(* Two bearers and one Simple.Connect, or one and two.                       *)
EXTENDS ModemState, TLC

Symmetry == Permutations(Bearers)
=============================================================================
