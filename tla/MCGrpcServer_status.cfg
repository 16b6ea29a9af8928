\* Expected violation: a non-GrpcMessage error trailer has no grpc-status.
CONSTANTS
  Calls = {c1}
  mu = mu
  mc = mc
  ms = ms
  mb = mb
  mx = mx
  Registry <- MCRegistry
  Paths <- MCKnown
  ErrCodes = {5}
  MaxReq = 2
  MaxItems = 2
  Starter = "sync"
  NoPath = NoPath
  NoStatus = NoStatus
  NoCrash = NoCrash
SPECIFICATION Spec
INVARIANT ErrorsCarryStatus
CHECK_DEADLOCK FALSE
