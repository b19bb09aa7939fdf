CONSTANTS
  Node = {n1, n2, n3}
  Listener = {}
  Handle = {h1, h2, h3, d1}
  DepHandle = {d1}
  KeepHandle = {}
  Program = Program
  Context = Context
  None = None
SPECIFICATION Spec
SYMMETRY HeapSymmetry
INVARIANT TypeOK
INVARIANT RefCountExact
INVARIANT NoLiveFreed
INVARIANT NoPanic
INVARIANT RootsBuffered
INVARIANT NoLostGarbage
PROPERTY CollectsAll
