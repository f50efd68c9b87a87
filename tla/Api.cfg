SPECIFICATION Spec
CONSTANTS
  r1 = r1
  r2 = r2
  hub = hub
  omni = omni
  omniflix = omniflix
  p = p
  q = q
  Requests <- MCRequests
  Names <- MCNames
  Keys <- MCKeys
  Omniflix <- MCKeys
  OmniflixKey = omniflix
  Column <- MCColumn
  Configured <- MCKeys
  Ips <- MCIps
  Matched <- MCMatched
  Old = hub
  New = omni
  MaxWrites = 1
  Stats = Stats
  Never = Never
  Intervals <- MCIntervals
  Default = 0
  SignedLimit = 4
  MaxAge = 1
  Statements = 2
  Alongside = FALSE
  Free = Free
INVARIANTS
  TypeOK
  EntriesAreComplete
  LastRefreshIsNewest
  RefreshesStick
  QuietMigrationCompletes
PROPERTIES
  ImplementsRenamedTable
  RequestsEnd
CHECK_DEADLOCK FALSE
