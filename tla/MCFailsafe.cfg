SPECIFICATION Spec
CONSTANTS
  NumActions = 2
  NumCallers = 3
  Options <- MCOptions
  UserModes = {"AUTO_LAND"}
  RunSets <- MCRunSets
  Delays = {0, 2}
  Periods = {4}
  Timeouts = {4}
  RclAction = 6
  MaxAge = 8
INVARIANTS
  OneEntryPerCaller
  NavStateRuns
  HoldDelayBounded
PROPERTIES
  MissedOnce
  LatchedStays
  DeferralEnds
