CONSTANTS
  s1 = s1  s2 = s2
  Id = {s1, s2}
  Kinds <- PairsOfKinds
SPECIFICATION FairSpec
INVARIANT SessionInv
INVARIANT NilIsSuccess
PROPERTY SessionsEnd
CHECK_DEADLOCK FALSE
