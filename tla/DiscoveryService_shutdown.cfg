SPECIFICATION Spec
CONSTANTS
  a = a
  b = b
  unknown = unknown
  Names <- MCNames
  Configured <- MCConfigured
  Totals <- MCTotals
  MaxPeers = 200
  MaxStable = 3
  Threshold = 5
  TwoHours = 1
  Never = Never
INVARIANTS
  NoScanAfterSignal
CHECK_DEADLOCK FALSE
