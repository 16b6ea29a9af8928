\* Expected violation: a panic outside handle() ends the server loop, even under the pool starter.
CONSTANTS
  Calls = {c1}
  mu = mu
  mc = mc
  ms = ms
  mb = mb
  mx = mx
  Registry <- MCRegistry
  Paths <- MCKnown
  ErrCodes = {5}
  MaxReq = 2
  MaxItems = 2
  Starter = "pool"
  NoPath = NoPath
  NoStatus = NoStatus
  NoCrash = NoCrash
SPECIFICATION Spec
INVARIANT PanicContained
CHECK_DEADLOCK FALSE
