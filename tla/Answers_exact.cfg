\* Every operator that spills, asked over small inputs under every course of
\* the budget the sets of MCAnswers give; and every short CSV, in blocks.
CONSTANTS
  ka = ka
  kb = kb
  kc = kc
  null = null
  sep = sep
  quote = quote
  newline = newline
  return = return
  comment = comment
  bad = bad
  NoAnswer = NoAnswer
  NullKey <- null
  Keys = {ka, kb, kc}
  NParts = 2
  MaxSpillDepth = 1
  MaxSpillLevels = 2
  SortFanIn = 2
  Groupings <- SmallGroupings
  Uniques <- SmallUniques
  Joins <- SmallJoins
  Sorts <- SmallSorts
  Merges <- SmallMerges
  Tails <- SmallTails
  Reverses <- SmallReverses
  Sep <- sep
  Quote <- quote
  Newline <- newline
  Return <- return
  Comment <- comment
  BadValue <- bad
  Csvs <- SmallCsvs
  MaxAsOfParts = 2
  AsOfs <- SmallAsOfs
  Chunk = 2
  MaxTempParts = 2
  MaxWindows = 9
  Temporals <- SmallTemporals
  MaxWindowDepth = 2
  WindowAsks <- SmallWindows
  NaN = NaN
  NegZero = NegZero
  Slots = {1, 2, 3}
  HalfWord = 8
  NarrowFold = 2
  MaxDead = 1
  SpillChunk = 1
  SortedRun = 2
  RunFanIn = 2
  PartitionedFoldMin = 3
  Aggregations <- SmallAggregations
SPECIFICATION Spec
INVARIANTS
  JoinIsExact
  KeysAreExact
  OrderIsExact
  CsvAsSerial
  AsOfIsExact
  TemporalIsExact
  WindowsAreExact
  AggregatesAreExact
\* A question is answered, and that is all.
CHECK_DEADLOCK FALSE
