CONSTANTS
  Node = {r, a, b, c}
  Listener = {}
  Handle = {h1, h2, h3, h4, h5, q1, q2}
  DepHandle = {}
  KeepHandle = {}
  QueueHandle = {q1, q2}
  Program = Program
  Context = Context
  None = None
  Key = {k1, k2}
  Route = {a, b}
  Graph = {c}
  router = r
  MaxKeys = 1
SPECIFICATION RouterSpec
CHECK_DEADLOCK FALSE
SYMMETRY Symmetry
INVARIANT NoSelfWait
