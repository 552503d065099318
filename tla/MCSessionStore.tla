--------------------------- MODULE MCSessionStore ---------------------------
(* The instance of SessionStore for TLC.                                   *)
EXTENDS SessionStore

\* Limits as Configure gets them: 0 asks for the default, here two sessions and three ticks.
TwoLimits == {<<0, 2>>, <<1, 0>>}
=============================================================================
