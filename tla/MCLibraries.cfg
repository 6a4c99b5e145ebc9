SPECIFICATION LibSpec
VIEW Future
CONSTANTS
  Vecs = {v, u}
  Elems = {a, b}
  Null = Null
  Junk = Junk
  MaxSize = 3
  MaxBlocks = 3
  MinCopied = 1
  MallocFails = TRUE
  Strings = {"k", "l"}
  NoKey = NoKey
  MAX_NESTING = 2
  MaxLen = 9
  Raw <- RawCharacters
  Escapes <- EscapedBytes
  Units <- BoundaryUnits
  MaxPieces = 3
  AnyBytes <- ByteValues
  MaxBytes = 6
  Keys = {k1, k2, k3}
  Values = {x, y}
  Absent = Absent
  OBJECT_INVALID_IX = OBJECT_INVALID_IX
  STARTING_CAPACITY = 4
  Hashes <- AllHashes
  MaxCapacity = 8
INVARIANTS
  FaultsOnlyAfterLoss
  BlockFits
  BlocksOwned
  TreeOwnsHeap
  AcceptsOnlyJson
  RejectsOnlyErrors
  NestingLimit
  DecodesText
  RefusesOnlyErrors
  StaysInBuffers
  TableConsistent
PROPERTIES
  LossReported
  VectorIsSequence
  ObjectIsMap
  CallsTakeEffect
CHECK_DEADLOCK FALSE
