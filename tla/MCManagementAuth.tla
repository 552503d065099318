-------------------------- MODULE MCManagementAuth --------------------------
(***************************************************************************)
(* Three logins for a table of two sessions, requests one at a time, and a   *)
(* password that is changed, removed and set again.                        *)
(***************************************************************************)
EXTENDS ManagementAuth, TLC

CONSTANTS l1, l2, l3, c1, old, new

AuthSymmetry == Permutations(Login) \cup Permutations({old, new})

=============================================================================
