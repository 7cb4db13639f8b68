CONSTANTS
  n = n
  o1 = o1
  o2 = o2
  o3 = o3
  l1 = l1
  NULL = NULL
  NilRoot = NilRoot
  OperandStack = OperandStack
  ContStack = ContStack
  ConsHead = ConsHead
  ConsTail = ConsTail
  FunData = FunData
  Obj <- MCObj
  Locals <- MCLocals
  NilValue = n
  Cap = 3
SPECIFICATION Spec
SYMMETRY Symmetry
INVARIANTS
  MarkInvariants

PROPERTIES
  CollectorRefinement
\* error() in register_object aborts the process: that state has no successor
CHECK_DEADLOCK FALSE
