\* The default flags, but a write every second query: a sort overlaps a match.
CONSTANTS
  c1 = c1
  c2 = c2
  main = main
  Main <- main
  Clients <- MCTwoCheckers
  DriverCount = 1
  Input <- MCInput4
  QueryLen <- MCQueryLen
  Answers <- MCAnswers
  LoadedIssues <- MCIssues
  WriteStatEveryItems = 2
  WriteStat = FALSE
  WriteRules = TRUE
  SortRulesByCount = TRUE
SPECIFICATION Spec
INVARIANT ExamplesMatchTheirRule
