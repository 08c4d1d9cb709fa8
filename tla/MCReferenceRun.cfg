SPECIFICATION FairSpec
CONSTANTS
  t1 = t1
  t2 = t2
  NumInvocations = 2
  Tasks <- MCTasks
  Waves <- MCWaves
  MaxAttempts = 2
  Options <- MCOptions
  RunFacts <- MCRunFacts
INVARIANTS
  OneAttempt
  PaidOnce
  MeasuredOwnClone
PROPERTIES
  OwnTranscript
  ZeroExitMeansSummaries
  
CHECK_DEADLOCK FALSE
