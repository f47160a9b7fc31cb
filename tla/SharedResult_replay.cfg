\* Three sites, and subplans of at most three batches that end in any way.
CONSTANTS
  s1 = s1
  s2 = s2
  s3 = s3
  Sites <- ThreeSites
  Children <- MCChildren
  Rooms = {0, 1}
SPECIFICATION Spec
INVARIANTS
  EverySiteReplays
  ReleasedByTheLast
PROPERTIES
  NextReturns
\* The query stops once every site has closed.
CHECK_DEADLOCK FALSE
