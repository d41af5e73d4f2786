SPECIFICATION Spec

CONSTANTS
  Node <- MCNode
  BodyNode <- MCBodyNode
  Defaults <- MCDefaults
  Group <- MCGroup
  Name <- MCName
  Dynamic = "*"
  Files <- MCFiles
  Families <- MCUses
  CURRENT_CONFIG_SCHEMA_VERSION = 1
  AcpRuntimes = {"claude", "opencode", "cursor"}
  NoGroup = NoGroup
  NoBranch = NoBranch
  Unset = Unset
  Fresh = Fresh
  Continue = Continue
  NoScope = NoScope
  NoHitl = NoHitl
  NoItem = NoItem
  ScalarItem = ScalarItem
  ObjectItem = ObjectItem

CHECK_DEADLOCK FALSE

INVARIANT AcceptedVariablesResolve
