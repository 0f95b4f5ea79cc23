CONSTANTS
  TotalBlocks = 3
  BlockSize = 2
  MaxHandles = 3
  MaxPrompt = 3
  MaxTokens = 4
  Token = {x, y}
  None = None
SPECIFICATION Spec
CHECK_DEADLOCK FALSE
INVARIANTS
  AllFreeAfterCancel
