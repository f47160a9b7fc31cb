\* Two tables, and every operator over every base under every filter
CONSTANTS
  Null = Null
  Failure = Failure
  NegZero = NegZero
  NaN = NaN
  Sources <- MCSources
  SmallSize = 4
  Picks <- MCPicks
  Query <- MCQuery
  FlagSets <- MCFlagSets
SPECIFICATION Spec
INVARIANTS
  RulesKeepTheAnswer
  PlanStaysWhole
\* The last rule is the end of the optimization
CHECK_DEADLOCK FALSE
