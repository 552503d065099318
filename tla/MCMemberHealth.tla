--------------------------- MODULE MCMemberHealth ---------------------------
(* TLC instances of MemberHealth.                                          *)
EXTENDS MemberHealth, TLC

CONSTANTS t1, t2
TwoThreads == {t1, t2}
Symmetry == Permutations(TwoThreads)
=============================================================================
