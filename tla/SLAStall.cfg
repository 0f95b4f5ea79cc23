CONSTANTS
  Requests <- MCRequests
  TotalBlocks = 2
  BlockSize = 2
  ActiveLimit = 2
  MaxSteps = 16
  MaxArrival = 0
  Lengths = {3}
  Budgets <- MCBudgets
  Priorities = {1, 2}
  Deadlines = {0}
  None = None
SPECIFICATION Spec
INVARIANTS
  NeverGivesUp
