\* Four calls of a handler against its timer, its client and its panic.
CONSTANTS
  Statuses = {200, 204, 503}
  MaxOps = 4
SPECIFICATION FairSpec
INVARIANTS OneWholeResponse
PROPERTIES LimitedRequestEnds
