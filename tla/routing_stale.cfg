SPECIFICATION Spec
CONSTANTS
  a = a
  b = b
  c = c
  na = na
  nb = nb
  nc = nc
  p1 = p1
  p2 = p2
  r1 = r1
  r2 = r2
  None = None
  Conns = {a, b}
  Nodes = {na, nb}
  Conn <- CrossConn
  Provides <- CrossProvides
  Requires <- CrossRequires
  Signature <- CrossSignature
  MaxVersion = 2
  Overlap = {p1, p2}
INVARIANT Converged
