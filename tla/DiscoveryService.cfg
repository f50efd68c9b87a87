SPECIFICATION Spec
CONSTANTS
  a = a
  b = b
  unknown = unknown
  Names <- MCNames
  Configured <- MCConfigured
  Totals <- MCTotals
  MaxPeers = 200
  MaxStable = 4
  Threshold = 5
  TwoHours = 1
  Never = Never
INVARIANTS
  TypeOK
  StableIsBounded
  EmptyIsNotStable
  StabilityCountsPasses
PROPERTIES
  NetworksAreRescanned
  ShutdownCompletes
CHECK_DEADLOCK FALSE
