---------------------------- MODULE MCEnrollment ----------------------------
(* Enrollment, for TLC: devices, codes, hosts and runs are all alike. *)
EXTENDS Enrollment, TLC

MCSymmetry ==
    Permutations(Ids) \cup Permutations(Codes) \cup Permutations(Hosts) \cup Permutations(Tries)
=============================================================================
