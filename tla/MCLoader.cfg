SPECIFICATION Spec
CONSTANTS
  app = app
  sub = sub
  ping = ping
  pong = pong
  parser = parser
  object = object
  Names = {app, sub, ping, pong, parser, object}
  Objects = {object}
  Contents <- TheContents
  Parser <- TheParser
  None = None
  Found <- TheFound
  Cells = {f1, f2, f3, f4}
  MaxOpen = 3
  MaxDepth = 8
  Movable = {parser, pong}
  MaxChanges = 1
SYMMETRY Symmetric
INVARIANTS FilesOwned LoadCloses DependenciesFirst LoadedOnce
CHECK_DEADLOCK FALSE
