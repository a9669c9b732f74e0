SPECIFICATION Spec
CONSTANTS
  x1 = x1  x2 = x2  fn1 = fn1  fn2 = fn2  fn3 = fn3  e1 = e1  e2 = e2
  None = None  NoError = NoError
  FnOf <- MCFnOf
  GetException <- MCGetException
  Unpatchable = {fn3}
  Errors = {e1, e2}
  Forcers = {x1}
  Threads = {t1}
  Fns = {fn1, fn2, fn3}
  Addrs = {1, 3, 4, 9}
  Locs = {1, 3, 4}
  Ptrs = {p1, p2, p3}
  PatchLen = 2
  Requests <- AllRequests
  Sequential = FALSE
  MprotectFails = TRUE
SYMMETRY Symmetry
INVARIANTS TypeOK ForcedCallsThrow UnforcedCallsRun LeftAsFound IInv
PROPERTIES ForceReturnsForced ImplementsContract
CHECK_DEADLOCK FALSE
