\* One container with two possible targets, two notifiers, cron schedule.
CONSTANTS
  k1 = k1
  v1 = v1
  Keys = {k1}
  Values = {v1}
  Blank = Blank
  NoEntry = NoEntry
  NotifierCount = 2
  Cron = TRUE
SPECIFICATION Spec
PROPERTY SignalIsServed
PROPERTY TerminationEnds
PROPERTY WorkingNotifierIsTold
