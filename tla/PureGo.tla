------------------------------- MODULE PureGo -------------------------------
(***************************************************************************)
(* The pure-go backend at one port: AddForwarding switches on the protocol *)
(* and starts forwardTCP or forwardUDP, which share nothing but the root   *)
(* context.  A behaviour follows the port of one protocol.                 *)
(***************************************************************************)
EXTENDS UdpForward

CONSTANTS Conns, MaxPipes, MaxOpens, MaxData, TcpFaults, MaxTcpFaults

\* On the constants of TcpForward, which is instantiated and not extended.
ASSUME ConnsAssumption == IsFiniteSet(Conns)
ASSUME TcpFaultsAssumption == TcpFaults \subseteq {"accept", "dial"}
ASSUME TcpBoundsAssumption ==
  /\ MaxPipes \in Nat /\ MaxOpens \in Nat /\ MaxData \in Nat
  /\ MaxTcpFaults \in Nat

VARIABLES proto, closed, listed, fwd, conn, failed

T == INSTANCE TcpForward

tcpPart == <<closed, listed, fwd, conn, failed>>
pureGoVars == <<proto, vars, tcpPart>>

\* forwardUDP has not been called: its socket is closed and nothing runs.
UdpIdle ==
  /\ done = TRUE /\ returned = TRUE /\ panicked = FALSE
  /\ inbox = <<>> /\ reader = [pc |-> "closed"]
  /\ table = [c \in Clients |-> 0] /\ sess = <<>>
  /\ queue = <<>> /\ writing = FALSE
  /\ toTarget = {} /\ toClient = {} /\ lost = {}
  /\ sent = 0 /\ expiries = 0 /\ faults = 0 /\ undialed = {}

PureGoInit ==
  /\ \/ proto = "udp" /\ Init
     \/ proto = "tcp" /\ UdpIdle
  /\ T!TcpInit

PureGoNext ==
  \/ proto = "udp" /\ Next /\ UNCHANGED <<proto, tcpPart>>
  \/ proto = "tcp" /\ T!TcpNext /\ UNCHANGED <<proto, vars>>

PureGoSpec == PureGoInit /\ [][PureGoNext]_pureGoVars

\* A protocol that is not followed has no goroutine that could take a step.
PureGoFairSpec == PureGoSpec /\ Fairness /\ T!TcpFairness

-----------------------------------------------------------------------------
(* The properties of TCP forwarding, which TcpForward states and explains; *)
(* those of UDP forwarding come with UdpForward.                           *)

\* Both parts have their types.
PureGoTypeOK == proto \in {"tcp", "udp"} /\ TypeOK /\ T!TcpTypeOK

\* A TCP connection that waits gets a handler, unless the forwarding is removed
\* or Accept has failed (tcp.go 25-64).
ConnectionsServed == T!ConnectionsServed

\* What a peer sent is delivered although it or the other direction has ended
\* (tcp.go 57-77).
SegmentsDelivered == T!SegmentsDelivered

\* A handler ends once each end has closed, or has sent after the removal
\* (tcp.go 68-96).
HandlersEnd == T!HandlersEnd

\* A removal frees the port for the next forwarding, whichever its protocol and
\* whoever is connected (tcp.go 39-46, udp.go 53-71).
PortFreed == SocketFreed /\ T!PortFreed
=============================================================================
