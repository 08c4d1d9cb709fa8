SPECIFICATION Spec
CONSTANTS
  s1 = s1
  c1 = c1
  NumRuns = 2
  Manifest <- MCManifest
  IdOrder <- MCIdOrder
  Seeded <- MCSeeded
  Truth <- MCTruth
  Revised <- MCRevised
  Configs <- MCConfigs
  Outputs <- MCOutputs
  Answers <- MCAnswers
  Regrades <- MCRegrades
INVARIANTS
  SameNumbers
  RescoreKeepsVerdicts
  SampleShowsEveryStratum
PROPERTIES
  CleanExitReportsItsOwnItems
CHECK_DEADLOCK FALSE
