CONSTANTS
  sl = sl
  df = df
  rd = rd
  wk = wk
  pSl = pSl
  pD = pD
  slD = slD
  slDep = slDep
  rdSl = rdSl
  rdDep = rdDep
  wN = wN
  keepW = keepW
  Node = {sl, df, rd, wk}
  Listener = {wk}
  Handle = {pSl, pD, slD, slDep, rdSl, rdDep, wN, keepW}
  DepHandle = {slDep, rdDep}
  KeepHandle = {keepW}
  Program = Program
  Context = Context
  None = None
SPECIFICATION LoopSpec
INVARIANT NoPanic
