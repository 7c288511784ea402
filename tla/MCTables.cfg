SPECIFICATION Spec
CONSTANTS
  n1 = n1
  n2 = n2
  n3 = n3
  Names = {n1, n2, n3}
  NameHash <- TheNameHash
  Dims = {1, 2}
  MaxSymbols = 3
  Keys = {k1, k2}
  Contents = {n1, n2, n3}
  Sxhash <- TheSxhash
  Values = {v1, v2}
  None = None
  MaxEntries = 2
  MaxDepth = 3
  MaxObjects = 3
SYMMETRY TheSymmetry
INVARIANTS TypeOK OblistFound
PROPERTIES SymbolsStay HsetPuts
CHECK_DEADLOCK FALSE
