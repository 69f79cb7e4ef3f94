CONSTANTS
  a = a  b = b  c = c
  j = j  k = k
  Alias = {a, b, c}
  Jump = {j, k}
  Direct = Direct
  GetError = GetError
  Nobody = Nobody
  AliasLists <- PairLists
  Configs <- PairConfigs
  Options <- PairOptions
SPECIFICATION Spec
INVARIANT ErrorClosesEverything
CHECK_DEADLOCK FALSE
