CONSTANTS
  Node = {n1, n2, l1}
  Listener = {l1}
  Handle = {h1, h2, h3, k1}
  DepHandle = {}
  KeepHandle = {k1}
  Program = Program
  Context = Context
  None = None
SPECIFICATION FairSpec
INVARIANT NoLiveFreed
INVARIANT NoLostGarbage
INVARIANT MarkDropsNothing
PROPERTY CollectsAll
CHECK_DEADLOCK FALSE
PROPERTY CollectionEnds
