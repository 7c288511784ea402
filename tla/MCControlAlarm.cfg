\* Drivers that leave SIGINT alone, so that only alarms are differed.
CONSTANTS
  errobj = errobj
  catchall = catchall
  other = other
  Tags = {errobj, catchall, other}
  Wants = {FALSE}
  MaxDepth = 3
SPECIFICATION Spec
PROPERTY DifferedRaises
CHECK_DEADLOCK FALSE
