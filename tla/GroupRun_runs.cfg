CONSTANTS
  h1 = h1  h2 = h2
  n1 = n1  n2 = n2
  Host = {h1, h2}
  Name = {n1, n2}
  Namings <- PairOrTwins
  Run = {r1, r2}
  Kinds = {"panic", "ignore", "shared", "collect"}
  Shared = Shared
  Nobody = Nobody
SPECIFICATION FairSpec
INVARIANT EveryErrorKept
INVARIANT RunInv
PROPERTY RunEnds
CHECK_DEADLOCK FALSE
