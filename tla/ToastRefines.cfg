CONSTANTS
  ExtSize = 5
  ChunkMax = 2
  ToastOid = 1
  BlockSize = 2
  HeaderBytes = 1
  IgnoreOld = FALSE
  Relations <- SoundRelations
  NoFile = NoFile
SPECIFICATION FairSpec
PROPERTY RestoresValue
CHECK_DEADLOCK TRUE
