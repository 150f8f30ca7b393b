SPECIFICATION Spec
CONSTANTS
  None = None
  TimedOut = TimedOut
  GraphList <- MCOneGraph
  Wanted = {"mesh"}
  Variants <- MCVariants
  Percentiles <- MCPercentiles
  Multipliers <- MCMultipliers
  Bufsizes <- MCBufsizes
  PeCounts <- MCPeCounts
  Jitters <- MCJitters
  Intervals <- MCIntervals
  Delays <- MCDelays
  Settings <- MCWidth
  RunTimes = {2}
  Dumps <- MCDumps
  Counts <- MCCounts
  PeLogs <- MCPeLogs
  MaxInvocations = 1
  KillBound = 5
CHECK_DEADLOCK FALSE
INVARIANT
  ReportComplete
