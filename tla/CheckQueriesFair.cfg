\* Two checkers under fairness, the rules sorted, both files written after every query.
CONSTANTS
  c1 = c1
  c2 = c2
  main = main
  Main <- main
  Clients <- MCTwoCheckers
  DriverCount = 1
  Input <- MCInput3
  QueryLen <- MCQueryLen
  Answers <- MCFewAnswers
  LoadedIssues <- MCIssues
  WriteStatEveryItems = 1
  WriteStat = TRUE
  WriteRules = TRUE
  SortRulesByCount = TRUE
SPECIFICATION FairSpec
INVARIANT FinalReportExact
PROPERTY Terminates
