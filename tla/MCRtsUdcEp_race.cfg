\* The unlocked end of the bulk IN work item.
SPECIFICATION Spec
CONSTANTS
  Reqs = {r1, r2}
  NoReq = NoReq
  Scenarios <- MCBulkIn
INVARIANTS
  EngineOwnsBuffer
