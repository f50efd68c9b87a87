SPECIFICATION Spec
CONSTANTS
  service = service
  trigger = trigger
  primary = primary
  fallback = fallback
  other = other
  none = none
  Calls <- BothCalls
  Triggered <- Triggers
  MaxCalls = 1
  Endpoints <- WithOther
  Primary = primary
  Fallback = fallback
  Unusable = none
  MaxCached = 2
  MaxWorkers = 3
  Permits = 3
  AddStep = 2
  MaxFailures = 2
  Discovered = 0
  MaxPeers = 1
INVARIANTS
  TypeOK
  ActiveIsHandles
  NoEntrySkipped
PROPERTIES
  ImplementsWorkerPool
  CallsReturn
  ToldWorkersStop
CHECK_DEADLOCK FALSE
