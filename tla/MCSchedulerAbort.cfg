SPECIFICATION Spec

CONSTANTS
  Node <- MCNode
  Group <- MCGroup
  Name <- MCName
  Plans <- MCPlans
  MaxAttempts = 2
  NoGroup = NoGroup
  NoBranch = NoBranch
  None = None

CHECK_DEADLOCK FALSE

PROPERTY AbortedIsNotCompleted
