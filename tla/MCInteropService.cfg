\* All seven methods; codes, sizes and lengths that reach an error status,
\* a negative size, a payload past the dictionary, two response parameters
\* and an i32 overflow.
CONSTANTS
  NoStatus = NoStatus
  Methods <- MCMethods
  Codes = {0, 5}
  Sizes <- MCSizes
  Lens <- MCLens
  MaxReq = 3
  MaxSizes = 2
SPECIFICATION Spec
\* A call ends: a finished or crashed server takes no more steps.
CHECK_DEADLOCK FALSE
INVARIANT TypeOK
INVARIANT MakeStringMatchesRef
INVARIANT ResponsesMatchRequests
PROPERTY CallEnds
PROPERTY ImplementsResponse
