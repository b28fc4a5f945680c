SPECIFICATION Spec
CONSTANTS
  PoolBytes = 32
  Names = {"a", "b"}
  PathLen = 2
  MAX_F = 1
  MAX_D = 3
  MaxFile = 4
  Sizes = {4}
  Bytes = {"x"}
  Uids = {0}
  Modes <- NoModes
  Short = {}
  Glue <- NoGlue
  MaxLeak = 1
  Calls <- TreeCalls
INVARIANTS
  TypeOK
  TreeWhole
  
PROPERTIES
  SavedWhenDone
  RmConfined
  RmSavesOnce
  RmTerminates
