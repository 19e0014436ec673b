CONSTANTS
  ExtSize = 5
  ChunkMax = 2
  ToastOid = 1
  BlockSize = 2
  HeaderBytes = 1
  IgnoreOld = TRUE
  Relations <- AllRelations
  NoFile = NoFile
SPECIFICATION FairSpec
INVARIANTS RestoredInOrder EarlyStopIsFinal NoFalseGiveUp IInv
PROPERTIES Terminates ReadReportTrue
CHECK_DEADLOCK TRUE
