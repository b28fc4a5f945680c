SPECIFICATION Spec
CONSTANTS
  KB_RING = 3
  MaxKeys = 3
  EXEC_MAX_DEPTH = 3
  Region = 2
  ATEXIT_MAX = 1
INVARIANTS
  TypeOK
  NothingLost
  JumpsToInnermost
  
  
