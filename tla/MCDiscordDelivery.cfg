\* Four events and three attempts for each body (the default of `retries`);
\* Discord's limits scaled down so that four events need up to four embeds and
\* three messages.
CONSTANTS
  Batch = 4
  Retries = 3
  LineLengths = {1, 4, 7}
  TitleLengths = {1, 2}
  Separator = 1
  MaxDescription = 6
  MaxTitle = 2
  MaxEmbeds = 2
  MaxTotal = 9
SPECIFICATION DiscordSpec
CHECK_DEADLOCK FALSE
INVARIANT FailureStopsBatch
INVARIANT RetriesSpentExactly
INVARIANT WithinLimits
INVARIANT EveryEventTold
INVARIANT OnlyLongLinesAreCut
PROPERTY AcknowledgedOnce
PROPERTY ContractKept
PROPERTY NotifyReturns
