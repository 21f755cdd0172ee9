SPECIFICATION FairSpec
CONSTANTS
  c1 = c1
  c2 = c2
  plain = plain
  caching = caching
  Cases = {c1, c2}
  Lanes <- TwoLanes
  Cached = {caching}
  JudgedLanes = {plain}
  Usages <- TurnUsages
  MaxRounds = 2
  Hard = 160
  Soft = 120
  Worst = 45
  JudgeWorst = 25
  LatencyCases = {c1}
  Scenarios <- PaidScenarios
INVARIANTS
  OnlyOverrunPassesHard
  CheckpointIsPaidFor
  PublishedIsMeasured
PROPERTY InvocationEnds
CHECK_DEADLOCK FALSE
