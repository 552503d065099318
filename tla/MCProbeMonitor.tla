---------------------------- MODULE MCProbeMonitor ----------------------------
(* Instances of ProbeMonitor for TLC. *)
EXTENDS ProbeMonitor, TLC

CONSTANTS n1, n2, n3, t1, t2, c1, c2

ClientSymmetry == Permutations({c1, c2})
=============================================================================
