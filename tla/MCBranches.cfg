SPECIFICATION Spec

CONSTANTS
  Member = {"a", "b"}
  Shapes <- ChainOrPair
  Gated = {"b"}
  Silent = {"x"}
  Lists <- UpToTwo
  MaxConcurrent = 2
  Modes = {"fail_fast", "collect", "all_or_nothing"}
  MaxResumes = 1

CHECK_DEADLOCK FALSE

INVARIANTS
  NoTreeTakenAway
  BranchWorkIsKept
  ForkVerdictIsEarned
  ManifestCoversGroup

PROPERTIES
  BranchSetIsDurable
  GroupSettles
