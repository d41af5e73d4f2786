SPECIFICATION Spec

CONSTANTS
  n1 = n1
  n2 = n2
  n3 = n3
  readme = readme
  notes = notes
  stray = stray
  src1 = src1
  src2 = src2
  Node = {n1, n2, n3}
  Outside = {readme, notes, stray}
  Inside = {src1, src2}
  Dirty = {readme}
  Agents = {n1, n2, n3}
  Scoped = {n1, n2}
  Allowed <- MCAllowed
  Reach <- MCReach
  Caps = {1, 2}
  Undefined = Undefined

CHECK_DEADLOCK FALSE

INVARIANTS
  ScopeVerdictIsRight
  RollbackTakesTheLeaks
