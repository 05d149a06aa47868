\* Three endpoints, each of which may fail; both readers, all flags, all logs of up to three values.
CONSTANTS
  Endpoints = {e1, e2, e3}
  Nobody = Nobody
  Logs <- MCLogs
  Limits = {0, 2}
SPECIFICATION StartSpec
INVARIANTS
  PoolHoldsEveryDriver
  SessionOrder
  LimitHolds
  ReadersAgree
PROPERTIES
  OpenEnds
  ReaderEnds
