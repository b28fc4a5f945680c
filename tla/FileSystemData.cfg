SPECIFICATION Spec
SYMMETRY NameSymmetry
CONSTANTS
  PoolBytes = 48
  Names = {a, b, c}
  PathLen = 1
  MAX_F = 3
  MAX_D = 1
  MaxFile = 8
  Sizes = {0, 4, 9}
  Bytes = {"x"}
  Uids = {0}
  Modes <- NoModes
  Short = {}
  Glue <- NoGlue
  MaxLeak = 0
  Calls <- DataCalls
INVARIANTS
  BlocksOwned
PROPERTIES
  FailureKeepsData
