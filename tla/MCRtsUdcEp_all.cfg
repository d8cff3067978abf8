\* A lost completion of an interrupt endpoint may leave nothing to do.
SPECIFICATION FairSpec
CONSTANTS
  Reqs = {r1, r2}
  NoReq = NoReq
  Scenarios <- MCAll
CHECK_DEADLOCK FALSE
INVARIANTS
  RequestOnce
PROPERTIES
  SentBeforeGiven
  UnhaltedRequestsComplete
