SPECIFICATION FairDump
CONSTANTS
  Columns = 2
  WrapBlocks = 8
  ExtSize = 3
  ChunkMax = 2
  ToastOid = 1
  BlockSize = 2
  HeaderBytes = 1
  IgnoreOld = TRUE
  NoFile = NoFile
  Relations <- AllRelations
  Heaps <- AllHeaps
  OptionSets <- AllOptions
INVARIANTS BlocksAsAsked RowsMatchFile BeyondIsTrue
PROPERTY DumpTerminates
