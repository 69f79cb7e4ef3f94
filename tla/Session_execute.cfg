CONSTANTS
  s1 = s1  s2 = s2
  Id = {s1}
  Kinds <- ExecuteAlone
SPECIFICATION Spec
INVARIANT ExecuteCompletes
CHECK_DEADLOCK FALSE
