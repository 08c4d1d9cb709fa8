\* A cap of zero dollars: free calls go on, the first paid one stops the run.
SPECIFICATION FairSpec
CONSTANTS
  WorkCount = 3
  Jobs = 2
  CapCost = 0
  MaxCallCost = 1
  NoCache = FALSE
  MayRaise = TRUE
PROPERTY LeavesDispatch
