\* Expected to fail: with query-log-need-sort no transaction counts as successful.
CONSTANTS
  Logs <- MCLogs
  Limits = {0, 2}
SPECIFICATION SourceSpec
INVARIANT SuccessfulAreSent
