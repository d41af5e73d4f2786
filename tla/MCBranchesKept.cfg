SPECIFICATION Spec

CONSTANTS
  Member = {"a", "b"}
  Shapes <- ChainOrPair
  Gated = {"b"}
  Silent = {"b", "x"}
  Lists <- UpToTwo
  MaxConcurrent = 2
  Modes = {"collect"}
  MaxResumes = 0

CHECK_DEADLOCK FALSE

INVARIANT
  KeptForDiagnosis
