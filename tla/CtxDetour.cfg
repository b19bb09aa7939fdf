CONSTANTS
  Networks <- DetourOnly
  Payload = {0}
  MaxSends = 2
  MaxDepth = 1
  MaxTransactions = 1
  MaxPosts = 0
SPECIFICATION Spec
INVARIANT PropagationExact
CHECK_DEADLOCK FALSE
