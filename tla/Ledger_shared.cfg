\* Two operators and a result share two allocations of two bytes.
CONSTANTS
  op1 = op1
  op2 = op2
  b1 = b1
  b2 = b2
  Collect = collect
  Ids <- MCIds
  Operators <- MCOperators
  Spans <- MCSpans
  MaxRaw = 1
SPECIFICATION LedgerSpec
INVARIANTS
  RefsExact
  SpanCoversHolders
  TotalsExact
PROPERTY
  ResultApart
SYMMETRY Symmetry
