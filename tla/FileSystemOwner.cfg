SPECIFICATION Spec
CONSTANTS
  PoolBytes = 32
  Names = {"a"}
  PathLen = 2
  MAX_F = 1
  MAX_D = 2
  MaxFile = 4
  Sizes = {4, 5}
  Bytes = {"x"}
  Uids = {0, 1}
  Modes <- MCModes
  Short = {}
  Glue <- NoGlue
  MaxLeak = 0
  Calls <- OwnerCalls
PROPERTIES
  PermissionsHold
