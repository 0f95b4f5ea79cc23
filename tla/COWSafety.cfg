CONSTANTS
  TotalBlocks = 4
  BlockSize = 2
  MaxHandles = 3
  MaxPrompt = 3
  MaxTokens = 4
  Token = {x, y}
  None = None
SYMMETRY Symmetry
VIEW View
SPECIFICATION Spec
CHECK_DEADLOCK FALSE
INVARIANTS
  RefCountExact
  Isolation
  SharedUntilWritten
PROPERTIES
  OrphansOnlyBySpawn
