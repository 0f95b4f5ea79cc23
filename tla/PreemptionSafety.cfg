CONSTANTS
  Requests <- MCFour
  TotalBlocks = 2
  BlockSize = 2
  Thresholds = {1, 2}
  ActiveLimit = 3
  MaxLength = 5
  MaxArrival = 1
  None = None
SPECIFICATION FairSpec
INVARIANTS
  OnePlace
  SequencesIntact
  OutputsVerified
  RestoreHasRoom
PROPERTIES
  SwapKeepsWork
  ImplementsTokenStore
  Converges
