CONSTANTS
  a = a  b = b  node = node
  main = main  other = other
  rsa = rsa  rsa2 = rsa2  ecdsa = ecdsa  ed = ed
  Name = {a, b, node}
  MaxInt = 12
  MaxAlloc = 8
  Enough = 20
  Specs <- AllSpecs
  ConfigFiles <- SomeConfigFiles
  File = {main, other}
  Algorithm <- Algorithms
  TypeOf <- TypeOfAlgorithm
  GoOrder <- GoOrderOfAlgorithms
  Second = 2
  MaxDuration = 15
  Named <- SomeNames
  Disks <- SomeDisks
  Rewrites <- SomeRewrites
  Servers <- SomeServers
  Settings <- AllSettings
SPECIFICATION MCSpec
INVARIANT TypesOK
INVARIANT HostsExact
INVARIANT OnlyRecordedKeys
INVARIANT KnownServerAccepted
CHECK_DEADLOCK FALSE
