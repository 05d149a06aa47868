\* Expected to fail: a write cut short leaves a rules file that cannot be loaded.
CONSTANTS
  RuleNames <- MCRuleNames
  FirstCounts <- MCFirstCounts
  MaxRuns = 3
  MaxQueries = 2
SPECIFICATION LifeSpec
CHECK_DEADLOCK FALSE
INVARIANT SameFileWorks
