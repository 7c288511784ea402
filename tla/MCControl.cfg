\* Five activations: the driver, a critical section, a collection's hook, a
\* frame inside it, and a further one, and err above them.
CONSTANTS
  errobj = errobj
  catchall = catchall
  other = other
  Tags = {errobj, catchall, other}
  Wants = {TRUE, FALSE}
  MaxDepth = 5
SPECIFICATION Spec
INVARIANTS TypeOK FramesLinked  Shielded Responsive MessageLostOnlyWhenNested
PROPERTIES ImplementsCatch
CHECK_DEADLOCK FALSE
