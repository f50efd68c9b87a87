SPECIFICATION Spec
CONSTANTS
  a = a
  b = b
  c = c
  Networks <- MCNetworks
  Configured <- MCConfigured
  Problematic <- MCProblematic
  All = All
  ConcurrentChains = 2
INVARIANTS
  TypeOK
  EveryNetworkAsked
PROPERTIES
  ContinuousGoesOn
  SignalEndsDiscovery
CHECK_DEADLOCK FALSE
