\* Both kinds of lists, with and without the conversion of errors.
CONSTANTS
  RawReports <- MCRawReports
  OldReports <- MCOldReports
  FullLists <- MCFullLists
  UnitLists <- MCUnitLists
  TicketSets <- MCTicketSets
  WithSlash <- MCWithSlash
  Tags = {"error", "failure", "skipped", "system-out"}
SPECIFICATION ReportSpec
INVARIANTS
  ResultIsFullList
  NoTestDisappears
  PassesAreEarned
  RegressionsFail
