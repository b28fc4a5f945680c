SPECIFICATION Spec
CONSTANTS
  W = 16
  T_RING = 3
  WIN_MAX = 2
  THRESH = 2
  ISSs = {13}
  IRSs = {4, 13}
  Msss = {1, 2}
  ReqLen = 3
  StreamLen = 4
  Caps = {1, 3}
  SYN_TRIES = 2
  SEND_TRIES = 2
INVARIANTS
  InOrder
  
PROPERTIES
  ImplementsStream
  CallsEnd
