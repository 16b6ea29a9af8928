\* Expected violation: find_method returns the first of two methods with one name.
CONSTANTS
  Calls = {c1}
  mu = mu
  mc = mc
  ms = ms
  mb = mb
  mx = mx
  Registry <- MCDupRegistry
  Paths <- MCDupPaths
  ErrCodes = {5}
  MaxReq = 2
  MaxItems = 2
  Starter = "sync"
  NoPath = NoPath
  NoStatus = NoStatus
  NoCrash = NoCrash
SPECIFICATION Spec
INVARIANT LastRegisteredWins
CHECK_DEADLOCK FALSE
