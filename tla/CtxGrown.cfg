CONSTANTS
  Networks <- GrowingNetworks
  Payload = {0, 1}
  MaxSends = 2
  MaxDepth = 1
  MaxTransactions = 2
  MaxPosts = 0
SPECIFICATION FairSpec
INVARIANT PropagationExact
PROPERTY ImplementsFrp
PROPERTY TransactionsEnd
CHECK_DEADLOCK FALSE
