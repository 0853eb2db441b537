SPECIFICATION JobSpec
CONSTANTS
  j1 = j1
  NaN = NaN
  Job = {j1}
  JobConfig <- MCSampleJob
  Evening <- MCEvening
  Horizon = 60
  LongestRun = 1
INVARIANT SampleJobRuns
CHECK_DEADLOCK FALSE
