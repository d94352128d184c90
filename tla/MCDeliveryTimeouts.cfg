\* One event, three attempts: an attempt that times out.
CONSTANTS
  Batch = 1
  Retries = 3
SPECIFICATION Spec
CHECK_DEADLOCK FALSE
INVARIANT TimeoutsAreRetried
