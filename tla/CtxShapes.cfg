CONSTANTS
  Networks <- AllShapes
  Payload = {0}
  MaxSends = 3
  MaxDepth = 1
  MaxTransactions = 2
  MaxPosts = 0
SPECIFICATION Spec
INVARIANT PropagationExact
CHECK_DEADLOCK FALSE
