CONSTANTS
  Networks <- TestNetworks
  Payload = {0, 1}
  MaxSends = 2
  MaxDepth = 2
  MaxTransactions = 3
  MaxPosts = 1
SPECIFICATION Spec
INVARIANT TypeOK
INVARIANT DepthExact
INVARIANT CollectsBetween
INVARIANT PropagationExact
INVARIANT PostOutside
INVARIANT CommittedFirst
INVARIANT OnceOnly
PROPERTY CellsChangeBetween
PROPERTY ImplementsFrp
CHECK_DEADLOCK FALSE
