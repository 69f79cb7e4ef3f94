CONSTANTS
  h1 = h1  h2 = h2  j1 = j1
  c1 = c1  c2 = c2
  Host = {h1, h2}
  Jump = {j1}
  Direct = Direct
  Caller = {c1, c2}
  Group = Group
SPECIFICATION Spec
SYMMETRY Symmetry
INVARIANT LifeInv
INVARIANT HostsBeforeJumps
INVARIANT OthersStayAlive
INVARIANT CleanCloseIsNil
CHECK_DEADLOCK FALSE
