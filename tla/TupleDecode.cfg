SPECIFICATION Spec
CONSTANTS
  UsecPerSec = 2
  NameDataLen = 4
  Decompress <- Twice
  Tuples <- AllTuples
INVARIANTS ColumnsReadBack NoColumnLost StaysInside ScalarsTrue
