--------------------------- MODULE MCConfigFiles ----------------------------
(***************************************************************************)
(* Three processes on one config.yaml: two can create files beside it, the *)
(* third was given the file alone.  The first saves two groups of fields;  *)
(* the second and the third save the same one, and the third also loads.   *)
(***************************************************************************)
EXTENDS ConfigFiles, TLC

CONSTANTS p1, p2, p3, w1, w2, w3, w4, r1, i1, i2, i3, i4, nodes, management, subscriptions

MCProcessOf == w1 :> p1 @@ w4 :> p1 @@ w2 :> p2 @@ w3 :> p3 @@ r1 :> p3
MCGroupOf == w1 :> nodes @@ w4 :> subscriptions @@ w2 :> management @@ w3 :> management

\* Of a torn file that parses nothing is right: the worst case.
MCLost == {{nodes, management, subscriptions}}

=============================================================================
