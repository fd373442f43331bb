SPECIFICATION PureGoFairSpec
CONSTANTS
  c1 = c1
  c2 = c2
  Clients <- MCClients
  DataCap = 1
  QueueCap = 1
  EarlyPackets = TRUE
  Faults <- UdpFaults
  MaxPackets = 2
  MaxExpiries = 1
  MaxFaults = 1
  Conns <- MCClients
  MaxOpens = 3
  MaxData = 1
  MaxPipes = 1
  TcpFaults <- AllTcpFaults
  MaxTcpFaults = 1
INVARIANT PureGoTypeOK EachPacketOnce
PROPERTY RequestsForwarded RepliesDelivered ConnectionsServed SegmentsDelivered HandlersEnd PortFreed
CHECK_DEADLOCK FALSE
