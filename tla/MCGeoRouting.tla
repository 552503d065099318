---------------------------- MODULE MCGeoRouting ----------------------------
(***************************************************************************)
(* Three nodes on two hosts, a cache of one entry and a database that is   *)
(* replaced once; a CONNECT and a plain request for one region, a plain    *)
(* one for a region without nodes, and Stop from two goroutines.           *)
(***************************************************************************)
EXTENDS GeoRouting, TLC

CONSTANTS k1, k2, k3, h1, h2, loop, u2, c1, c2, q1, q2, q3, s1, s2, jp, us

MCHostOf == [k \in Caller |-> IF k = k3 THEN h2 ELSE h1]
MCWants == [q \in Request |-> IF q = q3 THEN us ELSE jp]
MCRegionIn == [v \in Database |-> h1 :> jp @@ h2 :> Other]

=============================================================================
