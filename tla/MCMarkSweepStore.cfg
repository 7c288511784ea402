\* One-pointer cells and a protected register; collections nest through the hook.
CONSTANTS
  NHeaps = 3
  HeapSize = 1
  HookMin = 2
  Kinds = {"symbol"}
  oblistvar = oblistvar
  Regs = {oblistvar}
  MaxLocals = 2
  MaxLitter = 1
  MaxCalls = 2
SPECIFICATION FairSpec
PROPERTIES ImplementsStore CollectionEnds
CHECK_DEADLOCK FALSE
