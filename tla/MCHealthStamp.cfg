\* Unit one minute, the default maximal age of 15 minutes.
CONSTANTS
  Minute = 1
  Configured = 0
  Interval = 1
  Horizon = 18
SPECIFICATION Spec
CHECK_DEADLOCK FALSE
INVARIANT GreenWhileUp
PROPERTY RedOnceGone
