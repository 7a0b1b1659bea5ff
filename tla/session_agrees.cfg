SPECIFICATION Spec
CONSTANTS
  n1 = n1  n2 = n2  p1 = p1  p2 = p2
  Nodes = {n1, n2}
  Ports = {p1, p2}
  ProvidePorts <- MCProvidePorts
  RequirePorts <- MCRequirePorts
  Fragile = {n2}
  Sizes = {100, 2000, 5000}
  ReceiveBuffer = 1024
  SendBuffer = 4096
  MaxDefinition = 8388608
  Applications = {a1, a2}
  Routers = {r1}
  MaxWrites = 2
INVARIANTS TypeOK NoProtocolError WritesFindOpenFile NothingLost
PROPERTIES EstablishedInTheEnd AgreeInTheEnd
CHECK_DEADLOCK FALSE
