\* Drivers that want SIGINT, and a signal after the last has returned.
CONSTANTS
  errobj = errobj
  catchall = catchall
  other = other
  Tags = {errobj, catchall, other}
  Wants = {TRUE}
  MaxDepth = 3
SPECIFICATION Spec
INVARIANT ErrjmpLive
CHECK_DEADLOCK FALSE
