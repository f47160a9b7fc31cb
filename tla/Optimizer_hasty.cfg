\* A cast behind a guard of both inputs, over a cross join
CONSTANTS
  Null = Null
  Failure = Failure
  NegZero = NegZero
  NaN = NaN
  Sources <- MCSources
  SmallSize = 4
  Picks <- HastyPicks
  Query <- HastyQuery
  FlagSets <- MCFlagSets
SPECIFICATION Spec
INVARIANTS
  NoRuleAddsAnError
\* The last rule is the end of the optimization
CHECK_DEADLOCK FALSE
