SPECIFICATION Spec
CONSTANTS
  run1 = run1
  run2 = run2
  forced = forced
  replay1 = replay1
  Absent = Absent
  Runs <- TwoRunsAndForced
  Forced <- OneForced
  Replays <- OneReplay
  CallCount = 2
  ForceAlone = TRUE
SYMMETRY OrdinaryRuns
INVARIANTS
  ReportNeedsEveryCall
  HeaderMeansInputs
  OneOwner
  VerifyNeverFails
PROPERTIES
  RejectedOnlyForATemporary
  RowOnlyForReportedTree
