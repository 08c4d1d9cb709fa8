SPECIFICATION Spec
CONSTANTS
  Keys = {"a", "b", "c"}
  Reports <- MCReports
  Sandbox = {"c"}
  Parent <- MCParent
  MaxDeltas = 2
  MaxDay = 2
  Plans <- MCPlans
  Week = 1
  MaxWeeklies = 2
  Rollouts <- MCRollouts
INVARIANTS
  InboxAgreesWithStore
  SectionsReachAWeek
  LanesTellWhatTheyHave
CHECK_DEADLOCK FALSE
