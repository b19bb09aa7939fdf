CONSTANTS
  Thread = {t1, t2}
  Sink = {s1}
  MayPanic = {"body", "handler", "posted"}
  PanicInClose = FALSE
  MaxOpens = 1
  MaxSends = 2
  MaxPosts = 1
SPECIFICATION SharedFairSpec

INVARIANT SharedTypeOK
INVARIANT CountsCover
INVARIANT PostsKept
INVARIANT PostsRun
INVARIANT FlagsReset
CHECK_DEADLOCK FALSE
PROPERTY CallsReturn
