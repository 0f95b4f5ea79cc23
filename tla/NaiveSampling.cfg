CONSTANTS
  Requests <- MCRequests
  TotalTokens = 6
  MaxLength = 4
  MaxArrival = 2
  None = None
SPECIFICATION FairSpec
PROPERTIES
  EveryAttemptSampled
