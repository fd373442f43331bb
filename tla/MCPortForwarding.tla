--------------------------- MODULE MCPortForwarding ---------------------------
(* Instances of PortForwarding for TLC.                                    *)
EXTENDS PortForwarding, TLC

CONSTANTS n1, n2, pf1, pf2, h1, h2

T80 == [proto |-> "tcp", num |-> 80]
T443 == [proto |-> "tcp", num |-> 443]

OneNode == {n1}
TwoNodes == {n1, n2}
OnePF == {pf1}
TwoPFs == {pf1, pf2}

OnePort == {<<T80>>}
TwoPorts == {<<T80>>, <<T443>>, <<T80, T443>>}
EitherPort == {<<T80>>, <<T443>>}

OneTarget == {[hosts |-> h1, port |-> 8080]}
\* A Service with another address, and one with another target port.
TwoHosts == {[hosts |-> h1, port |-> 8080], [hosts |-> h2, port |-> 8080]}
ThreeTargets == TwoHosts \cup {[hosts |-> h1, port |-> 9090]}

\* Objects are alike, and so are the hosts of TwoHosts: for safety only.
Alike == Permutations(TwoPFs) \cup Permutations({h1, h2})
===============================================================================
