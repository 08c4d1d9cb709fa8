SPECIFICATION Spec
CONSTANTS
  run1 = run1
  run2 = run2
  forced = forced
  replay1 = replay1
  Absent = Absent
  Runs <- OneRun
  Forced = {}
  Replays <- OneReplay
  CallCount = 2
  ForceAlone = TRUE
INVARIANT ReplayKeepsMetrics
