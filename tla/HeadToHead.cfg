CONSTANTS
  Requests <- MCRequests
  TotalTokens = 6
  BlockSize = 2
  MaxLength = 4
  MaxArrival = 2
  None = None
SPECIFICATION HeadSpec
INVARIANTS
  ReservationsExact
  FirstFitExact
  SamplesAllOrNothing
  OnePerStep
  PagedNeverWorse
PROPERTIES
  BothReturn
