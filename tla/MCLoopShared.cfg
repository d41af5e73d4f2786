SPECIFICATION Spec

CONSTANTS
  BodyOrder <- Chain
  Inputs <- ChainInputs
  Gated = {"check"}
  Commands = {"check"}
  Session <- SharedSessions
  ConditionNode = "check"
  ConditionField = "verdict"
  ExitValue <- MCExit
  Rules <- MCRules
  File <- MCFile
  Outputs <- MCOutputs
  NoFile = NoFile
  NoFront = NoFront
  Blank = Blank
  NoValue = NoValue
  MaxIterations = 2
  RunBudget = 5
  NodeBudget = 3
  Costs = {1, 4}
  MaxCrashes = 1

CHECK_DEADLOCK FALSE

PROPERTY FailedSessionIsLeftAlone
