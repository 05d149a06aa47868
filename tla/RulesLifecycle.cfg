\* Crashes, failed writes and restarts, with one file and with two.
CONSTANTS
  RuleNames <- MCRuleNames
  FirstCounts <- MCFirstCounts
  MaxRuns = 3
  MaxQueries = 2
SPECIFICATION LifeSpec
CHECK_DEADLOCK FALSE
INVARIANT StartsAgain
INVARIANT RulesAreKept
INVARIANT MatchedWithinTotal
