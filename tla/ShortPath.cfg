SPECIFICATION Spec
CONSTANTS
  PoolBytes = 48
  Names = {"a", "b", "ab"}
  PathLen = 2
  MAX_F = 2
  MAX_D = 2
  MaxFile = 8
  Sizes = {4}
  Bytes = {"x"}
  Uids = {0}
  Modes <- NoModes
  Short = {"a"}
  Glue <- MCGlue
  MaxLeak = 0
  Calls = {"mkdir", "create", "rm_r"}
PROPERTY
  RmConfined
