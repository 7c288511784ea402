\* Two-pointer cells, three heaps of one cell.
CONSTANTS
  NHeaps = 3
  HeapSize = 1
  HookMin = 2
  Kinds = {"cons"}
  oblistvar = oblistvar
  Regs = {}
  MaxLocals = 2
  MaxLitter = 1
  MaxCalls = 1
SPECIFICATION Spec
INVARIANTS TypeOK ReachableIntact FreelistSound NoStaleMark  NilOnlyAfterHook
PROPERTIES LostCellsRecovered
CHECK_DEADLOCK FALSE
