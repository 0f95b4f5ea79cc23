CONSTANTS
  Requests <- MCThree
  TotalBlocks = 2
  BlockSize = 2
  Thresholds = {3}
  ActiveLimit = 2
  MaxLength = 4
  MaxArrival = 0
  None = None
SPECIFICATION FairSpec
PROPERTIES
  AlwaysConverges
