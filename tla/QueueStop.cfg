CONSTANTS
  NodeSize = 3
  Block = {1, 2, 3}
  MaxPush = 7
SPECIFICATION Spec
INVARIANT
  StopOnlyWhenDrained
