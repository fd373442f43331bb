---------------------------- MODULE MCUdpForward ----------------------------
(* Instances of UdpForward for TLC.                                        *)
EXTENDS UdpForward

CONSTANTS c1, c2

MCClients == {c1, c2}
NoFaults == {}
=============================================================================
