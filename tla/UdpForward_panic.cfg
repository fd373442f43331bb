SPECIFICATION Spec
CONSTANTS
  c1 = c1
  c2 = c2
  Clients <- MCClients
  DataCap = 1
  QueueCap = 1
  EarlyPackets = FALSE
  Faults <- NoFaults
  MaxPackets = 2
  MaxExpiries = 0
  MaxFaults = 0
INVARIANT RemovalDoesNotPanic
CHECK_DEADLOCK FALSE
