\* Two queries, each at most 3, the limit; a grain of 2 leaves 1 untold.
CONSTANTS
  Queries = {q1, q2}
  Limit = 3
  Grain = 2
  MaxTotal = 3
  MaxPages = 1
SPECIFICATION Spec
INVARIANTS
  PoolExact
  PeakExact
  SomeoneOver
PROPERTIES
  OverIsSeen
