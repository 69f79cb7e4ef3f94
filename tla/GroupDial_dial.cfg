CONSTANTS
  a = a  b = b  c = c
  j = j  k = k
  Alias = {a, b, c}
  Jump = {j, k}
  Direct = Direct
  GetError = GetError
  Nobody = Nobody
  AliasLists <- AllLists
  Configs <- AllConfigs
  Options <- AllOptions
SPECIFICATION MCSpec
INVARIANT DialInv
INVARIANT JumpDialedOnce
INVARIANT FailFastEarliest
INVARIANT FailFastStops
INVARIANT ErrorReleasesOwned
INVARIANT GroupAccountsForAll
PROPERTY NoHostCutOff
PROPERTY ImplementsPromise
PROPERTY Termination
CHECK_DEADLOCK FALSE
