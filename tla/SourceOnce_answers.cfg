\* Three callers of two calls each, so that one waits on a run that another follows.
CONSTANTS
  Callers = {c1, c2, c3}
  NoCaller = none
  MaxCalls = 2
SPECIFICATION OnceSpec
INVARIANTS
  OwnContext
  OneRun
  OneAnswer
PROPERTIES
  EveryCallReturns
CHECK_DEADLOCK FALSE
