\* Every stream of at most two batches and two long ones, under fairness.
CONSTANTS
  Streams <- MCStreams
  N = 2
  Depth = 1
SPECIFICATION PSpec
INVARIANTS
  NothingLeftBehind
PROPERTIES
  ImplementsOrder
  AllEnd
\* The driver stops once Close has returned.
CHECK_DEADLOCK FALSE
