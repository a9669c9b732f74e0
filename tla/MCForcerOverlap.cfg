SPECIFICATION FairSpec
CONSTANTS
  x1 = x1  x2 = x2  fn1 = fn1  fn2 = fn2  fn3 = fn3  e1 = e1  e2 = e2
  None = None  NoError = NoError
  FnOf <- MCFnOf
  GetException <- MCGetException
  Unpatchable = {}
  Errors = {e1}
  Forcers = {x1, x2}
  Threads = {}
  Fns = {fn1, fn2, fn3}
  Addrs = {1, 3, 4}
  Locs = {1, 3, 4}
  Ptrs = {p1, p2, p3}
  PatchLen = 2
  Requests <- SplitRequests
  Sequential = FALSE
  MprotectFails = FALSE
INVARIANTS CellsOwnedOnce WritableOnlyInScope IInv
PROPERTIES CallsGetOn CallsReturn DestructionRestores
CHECK_DEADLOCK FALSE
