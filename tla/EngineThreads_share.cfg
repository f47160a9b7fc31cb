\* Four queries on six threads: shares of six, three, two and one.
CONSTANTS
  Sharers = {q1, q2, q3, q4}
  Threads = 6
  MaxWant = 7
SPECIFICATION ThreadsSpec
INVARIANTS
  ParallelExact
  SharesFit
SYMMETRY Alike
