\* One container, one notifier: signals that arrive while a check runs.
CONSTANTS
  k1 = k1
  v1 = v1
  Keys = {k1}
  Values = {v1}
  Blank = Blank
  NoEntry = NoEntry
  NotifierCount = 1
  Cron = FALSE
SPECIFICATION Spec
INVARIANT OneFollowUpQueued
