CONSTANTS
  Requests <- MCRequests
  TotalBlocks = 2
  BlockSize = 2
  ActiveLimit = 2
  MaxSteps = 11
  MaxArrival = 1
  Lengths = {3}
  Budgets <- MCBudgets
  Priorities = {1, 2}
  Deadlines = {0, 2}
  None = None
SPECIFICATION FairSpec
INVARIANTS
  OnePlace
  BudgetExact
  MissedIffLate
  NoPriorityInversion
  GivesUpOnlyInDeadlock
PROPERTIES
  ImplementsTokenStore
  Terminates
