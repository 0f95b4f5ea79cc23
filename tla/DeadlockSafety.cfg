CONSTANTS
  Nodes <- MCNodes
  MaxHeld = 1
  MaxTokens = 1
  None = None
SPECIFICATION Spec
INVARIANTS
  TypeOK
  AnswerHonest
PROPERTIES
  EvictsFromCycle
  LinearSearch
