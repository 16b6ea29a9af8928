\* Inline call starter (Server::new): the core's safety and liveness.
CONSTANTS
  Calls = {c1, c2}
  mu = mu
  mc = mc
  ms = ms
  mb = mb
  mx = mx
  Registry <- MCRegistry
  Paths <- MCPaths
  ErrCodes = {5}
  MaxReq = 2
  MaxItems = 2
  Starter = "sync"
  NoPath = NoPath
  NoStatus = NoStatus
  NoCrash = NoCrash
SPECIFICATION Spec
INVARIANT TypeOK
PROPERTY CallCompletes
PROPERTY ImplementsResponse
\* A server with a bounded set of calls stops once they are all answered or its loop has died.
CHECK_DEADLOCK FALSE
