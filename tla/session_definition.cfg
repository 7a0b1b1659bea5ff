SPECIFICATION Spec
CONSTANTS
  n1 = n1  n2 = n2  p1 = p1  p2 = p2
  Nodes = {n1}
  Ports = {p1, p2}
  ProvidePorts <- MCProvidePorts
  RequirePorts <- MCRequirePorts
  Fragile = {}
  Sizes = {2000}
  ReceiveBuffer = 1024
  SendBuffer = 4096
  MaxDefinition = 8388608
  Applications = {a1}
  Routers = {r1}
  MaxWrites = 2
INVARIANT DefinitionsReceived
CHECK_DEADLOCK FALSE
