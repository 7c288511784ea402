\* Conses and arrays, in halves of two cells: chains, cycles and shared cells
\* held by two registers.
CONSTANTS
  HeapSize = 2
  Kinds = {"cons", "array"}
  oblistvar = oblistvar
  sym_errobj = sym_errobj
  Regs = {oblistvar, sym_errobj}
  MaxLocals = 2
SPECIFICATION Spec
INVARIANTS TypeOK NoOldPointer CopiedOnce CopyFits Compacted MemoryOfArrays
PROPERTIES ImplementsStore
CHECK_DEADLOCK FALSE
