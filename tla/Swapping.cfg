SPECIFICATION SwapSpec
CONSTANTS
  One = 100
  InitialSupply = 80
  user = user
  other = other
  feeOwner = feeOwner
  Pools <- MCPools
  Ops <- MCOps
  Calls <- MCCalls
  Moves <- MCMoves
  Budgets <- MCBudgets
CHECK_DEADLOCK FALSE
PROPERTIES
  ValuePerShareKept
  SessionsLand
