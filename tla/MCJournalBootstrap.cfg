SPECIFICATION Spec

CONSTANTS
  Node = {n1, n2}
  Run = Run
  MaxStamps = 7
  Tears = {"record"}

CHECK_DEADLOCK FALSE

INVARIANT EveryNodeIsDeclared
