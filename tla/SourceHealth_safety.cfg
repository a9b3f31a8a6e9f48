SPECIFICATION Spec
CONSTANTS
  ledgerJob = ledgerJob
  supplyJob = supplyJob
  horizon = horizon
  archive = archive
  Jobs <- TwoJobs
  Sources <- TwoSources
  JobSources <- SharedSources
  JobMetric <- TheMetrics
  SourceErrors <- TheErrors
  MaxAttempts = 2
  BaseDelay = 1
  MaxDelay = 1
  JitterPercent = 0
  Concurrency = 1
  Threshold = 2
  Cooldown = 1
  MaxTime = 3
  MaxCycles = 3
  MaxSetbacks = 1
INVARIANTS RowAccepted BarredByEvidence ExactWhenAlone
CHECK_DEADLOCK FALSE
