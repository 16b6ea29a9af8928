\* Expected to be violated: DuplexStopsAtError.
\* Same constants as MCInteropService.cfg.
CONSTANTS
  NoStatus = NoStatus
  Methods <- MCMethods
  Codes = {0, 5}
  Sizes <- MCSizes
  Lens <- MCLens
  MaxReq = 3
  MaxSizes = 2
SPECIFICATION Spec
\* A call ends: a finished or crashed server takes no more steps.
CHECK_DEADLOCK FALSE
INVARIANT DuplexStopsAtError
