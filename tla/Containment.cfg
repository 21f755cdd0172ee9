SPECIFICATION Spec
CONSTANTS
  h1 = h1
  h2 = h2
  s1 = s1
  Nobody = Nobody
  Handlers = {h1, h2}
  Sessions = {s1}
  HourTicks = 2
  DayTicks = 4
  IP_LIMIT_PER_HOUR = 1
  IP_LIMIT_PER_DAY = 2
  SESSION_RUN_CAP = 1
  DAILY_BUDGET_MICRO_USD = 2
  MaxCost = 2
  MaxTicks = 4
  Scenarios <- DayScenarios
SYMMETRY HandlerSymmetry
INVARIANTS
  SessionCapHolds
  HorizonIsStamped
  SpendIsBounded
CHECK_DEADLOCK FALSE
