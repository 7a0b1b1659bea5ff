SPECIFICATION Spec
CONSTANTS
  a = a
  b = b
  c = c
  na = na
  nb = nb
  nc = nc
  p1 = p1
  p2 = p2
  r1 = r1
  r2 = r2
  None = None
  Conns = {a, b, c}
  Nodes = {na, nb, nc}
  Conn <- FanInConn
  Provides <- FanInProvides
  Requires <- FanInRequires
  Signature <- FanInSignature
  MaxVersion = 2
  Overlap = {p1, p2}
INVARIANTS NoLostConnector
