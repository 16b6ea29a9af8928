\* Expected violation: a unary call with 0 or 2 messages fails the whole HTTP response.
CONSTANTS
  Calls = {c1}
  mu = mu
  mc = mc
  ms = ms
  mb = mb
  mx = mx
  Registry <- MCRegistry
  Paths <- MCKnown
  ErrCodes = {5}
  MaxReq = 2
  MaxItems = 2
  Starter = "sync"
  NoPath = NoPath
  NoStatus = NoStatus
  NoCrash = NoCrash
SPECIFICATION Spec
INVARIANT ArityInternal
CHECK_DEADLOCK FALSE
