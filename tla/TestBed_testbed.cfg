CONSTANTS
  N = 3
  Retries = 2
  Image = Image  Network = Network  Hosts = Hosts
SPECIFICATION BedSpec
INVARIANT BedInv
INVARIANT NothingLeftBehind
CHECK_DEADLOCK FALSE
