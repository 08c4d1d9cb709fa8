\* Three workers, four calls: the cap is reached while futures are still queued.
SPECIFICATION Spec
CONSTANTS
  WorkCount = 4
  Jobs = 3
  CapCost = 1
  MaxCallCost = 1
  NoCache = FALSE
  MayRaise = TRUE
INVARIANT TypeOK
INVARIANT OvershootBounded
INVARIANT DispatchedMeansEveryCall
INVARIANT StoppedRunAccountsItsFiles
INVARIANT SpentIsTheMissesCost
PROPERTY NothingStartsOnceStopped
PROPERTY ImplementsBatch
