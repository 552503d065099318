------------------------------ MODULE MCPoolDial ------------------------------
(* Instances of PoolDial for TLC. *)
EXTENDS PoolDial, TLC

CONSTANTS m1, m2, n1, n2, p1, p2

\* Two nodes, one of which has no UDP, and a TCP and a UDP client.
OneUpstreamEach == m1 :> n1 @@ m2 :> n2
UdpOnFirstOnly == m1 :> {"tcp", "udp"} @@ m2 :> {"tcp"}
OneOfEach == p1 :> {"tcp"} @@ p2 :> {"udp"}
=============================================================================
