\* Expected violation: an error trailer is followed by more parts and the grpc-status 0 trailer.
CONSTANTS
  Calls = {c1}
  mu = mu
  mc = mc
  ms = ms
  mb = mb
  mx = mx
  Registry <- MCRegistry
  Paths <- MCKnown
  ErrCodes = {5}
  MaxReq = 2
  MaxItems = 2
  Starter = "sync"
  NoPath = NoPath
  NoStatus = NoStatus
  NoCrash = NoCrash
SPECIFICATION Spec
INVARIANT TrailersLast
CHECK_DEADLOCK FALSE
