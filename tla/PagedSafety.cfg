CONSTANTS
  Requests <- MCRequests
  TotalBlocks = 3
  BlockSize = 2
  MaxLength = 5
  MaxArrival = 2
  None = None
SPECIFICATION FairSpec
INVARIANTS
  TypeOK
  NoSharedBlocks
  TokensReadable
  NoIdleBlocks
  OnePerStep
  RejectedOnlyIfFull
  NoLeakAtReturn
PROPERTIES
  ImplementsTokenStore
  Terminates
