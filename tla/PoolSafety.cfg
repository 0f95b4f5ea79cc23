CONSTANTS
  Requests <- MCRequests
  TotalBlocks = 2
  BlockSize = 1
  None = None
SPECIFICATION Spec
INVARIANTS
  PoolConsistent
  LiveBlocksPrivate
  NoFalseAlarm
