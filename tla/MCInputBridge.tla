---------------------------- MODULE MCInputBridge ----------------------------
(* InputBridge, for TLC. *)
EXTENDS InputBridge, TLC

MCSymmetry == Permutations(Clients)
=============================================================================
