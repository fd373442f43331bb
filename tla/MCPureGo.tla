------------------------------ MODULE MCPureGo ------------------------------
(* Instances of PureGo for TLC: two clients of a UDP port; two connections *)
(* to a TCP port.                                                          *)
EXTENDS PureGo

CONSTANTS c1, c2

MCClients == {c1, c2}
UdpFaults == {"dial", "write", "read"}
AllTcpFaults == {"accept", "dial"}
=============================================================================
