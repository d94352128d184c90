\* Two containers, each with a semver and a digest target of the same value,
\* two notifiers, interval schedule.
CONSTANTS
  k1 = k1
  k2 = k2
  v1 = v1
  Keys = {k1, k2}
  Values = {v1}
  Blank = Blank
  NoEntry = NoEntry
  NotifierCount = 2
  Cron = FALSE
SYMMETRY KeySymmetry
SPECIFICATION Spec
INVARIANT RememberedWasTold
INVARIANT NoRepeatedNews
INVARIANT SavedPassIsExact
INVARIANT WaitingMatchesDisk
PROPERTY ForceCheckLeavesNoTrace
PROPERTY OnlyGoneContainersPruned
PROPERTY HistoryFileStaysWhole
PROPERTY PromiseKept
