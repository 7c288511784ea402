SPECIFICATION FairSpec
CONSTANTS
  Programs <- ThePrograms
  Names <- TheNames
  Globals <- TheGlobals
  Literals <- TheLiterals
  MaxInterrupts = 1
INVARIANTS TypeOK  TailCallsDontNest
PROPERTIES  EvaluationEnds
CHECK_DEADLOCK FALSE
