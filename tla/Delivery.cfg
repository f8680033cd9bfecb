\* One verification with one correction, and one other run of the same agent.  Two
\* overlapping calls of up to two attempts to providers that answer anything, keep
\* sending what is no answer, or fall silent.
SPECIFICATION FairSpec
CONSTANTS
  Runs <- TwoRuns
  Paths = {p, q}
  MaxIterations = 2
  MaxFiles = 1
  MaxCalls = 5
  MaxTime = 1
  HasAnalyzer = TRUE
  NumStages = 2
  MaxCorrections = 1
  HasRegression = TRUE
  Prompts = {p1, p2}
  MaxAttempts = 2
  Chunks = 2
  MaxTokens = 1
INVARIANTS
  DeliveredIsTested LimitsOutliveRuns
  RepeatsOnlyTransient LedgerHoldsReports TracedStreamIsWhole
PROPERTIES EverythingEnds
CHECK_DEADLOCK FALSE
