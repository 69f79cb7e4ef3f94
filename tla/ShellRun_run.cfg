CONSTANTS
  Jobs <- SomeJobs
  Window = 1
SPECIFICATION FairSpec
INVARIANT TypeOK
INVARIANT OutputComplete
 
INVARIANT NothingLeftBehind
PROPERTY ApplyReturns
CHECK_DEADLOCK FALSE
