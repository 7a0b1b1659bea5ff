SPECIFICATION Spec
CONSTANTS
  a = a
  b = b
  c = c
  na = na
  nb = nb
  nc = nc
  p1 = p1
  p2 = p2
  r1 = r1
  r2 = r2
  None = None
  Conns = {a, b, c}
  Nodes = {na, nb, nc}
  Conn <- FanOutConn
  Provides <- FanOutProvides
  Requires <- FanOutRequires
  Signature <- FanOutSignature
  MaxVersion = 2
  Overlap = {p1}
SYMMETRY FanOutSymmetry
INVARIANTS TypeOK LocksHeld ChangesConfined NoLostConnector NoDanglingPort RoutedNodesAlive
