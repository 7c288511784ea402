\* A closure, its code and its environment fill a heap of three cells.
CONSTANTS
  NHeaps = 1
  HeapSize = 3
  HookMin = 2
  Kinds = {"cons", "closure"}
  Regs = {}
  MaxLocals = 3
  MaxLitter = 0
  MaxCalls = 1
SPECIFICATION TraceSpec
INVARIANT ReachableIntact
CHECK_DEADLOCK FALSE
