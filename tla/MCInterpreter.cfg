CONSTANTS
  Obj <- MCObj
  NilValue = 1
  NULL = 0
  Programs <- MCPrograms
SPECIFICATION Spec
INVARIANTS NoDanglingReference NoStackUnderflow RootsBalanced OutputAsExpected ParseMatchesGrammar
PROPERTIES Termination
CHECK_DEADLOCK FALSE
