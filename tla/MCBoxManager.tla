----------------------------- MODULE MCBoxManager -----------------------------
(* Instances of BoxManager for TLC. *)
EXTENDS BoxManager, TLC

CONSTANTS t1, t2
=============================================================================
