CONSTANTS
  n = n
  o1 = o1
  o2 = o2
  o3 = o3
  NULL = NULL
  Obj <- MCObj
  NilValue = n
SPECIFICATION Spec
PROPERTIES
  MarkRefinement
\* mark returns: the state after its return has no successor
CHECK_DEADLOCK FALSE
