CONSTANTS
  Thread = {t1, t2}
  Sink = {s1}
  MayPanic = {}
  PanicInClose = FALSE
  MaxOpens = 0
  MaxSends = 2
  MaxPosts = 0
SPECIFICATION SharedSpec
SYMMETRY Symmetry
INVARIANT EventsHeard
CHECK_DEADLOCK FALSE
