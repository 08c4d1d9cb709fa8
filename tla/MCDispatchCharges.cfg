\* One worker and no failing write: only executions that fail after being charged.
SPECIFICATION Spec
CONSTANTS
  WorkCount = 3
  Jobs = 1
  CapCost = 1
  MaxCallCost = 1
  NoCache = TRUE
  MayRaise = FALSE
INVARIANT ChargesOvershootBounded
