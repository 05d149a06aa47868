\* Expected to fail: after a syntax error readSessions tries the same place for ever.
CONSTANTS
  Logs <- MCLogs
  Limits = {0, 2}
SPECIFICATION SourceSpec
PROPERTY SortingEnds
