\* Unit half a minute, health_max_age of 30 seconds.
CONSTANTS
  Minute = 2
  Configured = 1
  Interval = 2
  Horizon = 6
SPECIFICATION Spec
CHECK_DEADLOCK FALSE
INVARIANT GreenWhileUp
