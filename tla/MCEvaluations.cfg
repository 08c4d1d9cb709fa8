\* The process ends: done, with an exception, or killed.
SPECIFICATION Spec
CONSTANTS
  i1 = i1
  i2 = i2
  i3 = i3
  vOld = vOld
  vNew = vNew
  site = site
  Resamples = 2
  AnalyzerResamples = 2
  PipelineConfs <- MCPipelineConfs
  Answers <- MCAnswers
  AnalyzerConfs <- MCAnalyzerConfs
  Documents <- MCDocuments
INVARIANTS
  StagesFollowTheirInputs
  MetricsMeanAWholeRun
  PromotionHasEvidence
  FindingsMatchedOnce
CHECK_DEADLOCK FALSE
