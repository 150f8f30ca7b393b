SPECIFICATION Spec
CONSTANTS
  None = None
  TimedOut = TimedOut
  GraphList <- MCGraphList
  Wanted = {"mesh"}
  Variants <- MCVariants
  Percentiles <- MCPercentiles
  Multipliers <- MCMultipliers
  Bufsizes <- MCBufsizes
  PeCounts <- MCPeCounts
  Jitters <- MCJitters
  Intervals <- MCIntervals
  Delays <- MCDelays
  Settings <- MCSettings
  RunTimes = {2, 4}
  Dumps <- MCDumps
  Counts <- MCCounts
  PeLogs <- MCPeLogs
  MaxInvocations = 2
  KillBound = 5
CHECK_DEADLOCK FALSE
INVARIANTS
  RowsCiteTheirRun
  RepsBalanced
  BaselineFirst
  EveryRunCounted
  HalfInMinimal
  BusiestFirst
  TailAddsUp
