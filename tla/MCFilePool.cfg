SPECIFICATION PoolSpec
CONSTANTS
  PoolBytes = 96
  Requests = {1, 6, 13, 30}
INVARIANTS
  HeadersOK
  PoolTiled
  PoolMerged
PROPERTIES
  NeverMoves
  ImplementsHeap
