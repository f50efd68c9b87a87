SPECIFICATION Spec
CONSTANTS
  service = service
  trigger = trigger
  primary = primary
  fallback = fallback
  other = other
  none = none
  Calls <- BothCalls
  Triggered <- Triggers
  MaxCalls = 2
  Endpoints <- TwoEndpoints
  Primary = primary
  Fallback = fallback
  Unusable = none
  MaxCached = 1
  MaxWorkers = 3
  Permits = 3
  AddStep = 2
  MaxFailures = 2
  Discovered = 0
  MaxPeers = 1
INVARIANTS
  WorkersEndWithCall
CHECK_DEADLOCK FALSE
