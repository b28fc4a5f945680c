SPECIFICATION LayoutSpec
CHECK_DEADLOCK FALSE
CONSTANTS
  Wrap = 32
  Capacity = 5
  Reserved = 2
  Slack = 4
  Front = 6
  Fallback = 3
  Disks <- AllDisks
INVARIANTS
  
  RegionFits
