SPECIFICATION Spec

CONSTANTS
  BodyOrder <- Chain
  Inputs <- ChainInputs
  Gated = {"check"}
  Commands = {"check"}
  Session <- OwnSessions
  ConditionNode = "check"
  ConditionField = "verdict"
  ExitValue <- MCExit
  Rules <- MCRules
  File <- MCFile
  Outputs <- MCOutputs
  NoFile = NoFile
  NoFront = NoFront
  Blank = Blank
  NoValue = NoValue
  MaxIterations = 3
  RunBudget = 4
  NodeBudget = 3
  Costs = {1, 2, 4}
  MaxCrashes = 1

CHECK_DEADLOCK FALSE

INVARIANT SuccessIsEarned

PROPERTIES
  InputsAreOfThisIteration
  FailedSessionIsLeftAlone
  CallIsNumbered
