\* Two workers and five batches: a worker that stops on its first leaves a full lane.
CONSTANTS
  N = 2
  Depth = 1
  MaxBatches = 5
  Faults = {"error", "panic", "exit"}
SPECIFICATION Spec
INVARIANTS
  AnswerIsWhole
  SameEveryRun
PROPERTIES
  DrainEnds
\* drain ends.
CHECK_DEADLOCK FALSE
