\* Two row groups at once over every input of two, and over longer ones.
CONSTANTS
  Inputs <- MCInputs
  Threads = 2
  Limit = 1
  Floor = 1
  Capacity = 1
SPECIFICATION Spec
INVARIANTS
  AsSerial
  FileOpenWhileRead
  CloseIsWhole
  AheadBounded
PROPERTIES
  CallsComeBack
