\* Two checkers, both files written after every query, the rules not sorted.
CONSTANTS
  c1 = c1
  c2 = c2
  main = main
  Main <- main
  Clients <- MCTwoCheckers
  DriverCount = 2
  Input <- MCInput3
  QueryLen <- MCQueryLen
  Answers <- MCAnswers
  LoadedIssues <- MCIssues
  WriteStatEveryItems = 1
  WriteStat = TRUE
  WriteRules = TRUE
  SortRulesByCount = FALSE
SPECIFICATION Spec
INVARIANTS
  TypeOK
  PoolBalanced
  PoolSpread
  StatsAreTally
  VerdictsFollowTheFile
  VerdictsJustified
  RulesFileIsOneReport
  SomeoneGoesOn
PROPERTIES
  ImplementsTally
