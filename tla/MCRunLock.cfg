SPECIFICATION Spec

CONSTANTS
  Engine = {e1, e2}
  Asker = {a1, a2}
  Run = {r1, r2}
  Fact = {"node_started"}
  None = None
  Empty = Empty
  MaxRecords = 3

SYMMETRY Symmetry

CHECK_DEADLOCK FALSE

INVARIANTS
  OneAtWork
  RefusedByARun
  ActsOnWholeRun
