SPECIFICATION Spec
CONSTANTS
  x1 = x1  x2 = x2  fn1 = fn1  fn2 = fn2  fn3 = fn3  e1 = e1  e2 = e2
  None = None  NoError = NoError
  FnOf <- MCFnOf
  GetException <- MCGetException
  Unpatchable = {}
  Errors = {e1, e2}
  Forcers = {x1}
  Threads = {t1}
  Fns = {fn1}
  Addrs = {1}
  Locs = {1}
  Ptrs = {p1, p2}
  PatchLen = 2
  Requests <- AllRequests
  Sequential = TRUE
  MprotectFails = FALSE
INVARIANT CallsRunOrThrow
