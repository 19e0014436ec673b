CONSTANTS
  MaxAllocSize = 37
  InitialSize = 3
  IntMax = 74
  Requests <- SmallRequests
SPECIFICATION FairBufferSpec
INVARIANTS RoomForTerminator NoIntOverflow
PROPERTIES GrowsGeometrically AppendEnds
