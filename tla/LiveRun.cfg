\* Any order of tool calls, visitors and other runs on the same tables.
CONSTANTS
  MAX_REVISIONS = 1
  v1 = v1
  v2 = v2
  Vendors = {v1, v2}
  None = None
  Numbers = {n1}
  Scenarios <- RunScenarios
SPECIFICATION FairSpec
INVARIANTS
  PaidOnce
  GlIsNotPlanted
  ReportedIsSettled
  MoneyIsGated
  OneOpenApproval
  ExecutedWasPaid
  NewIsUntouched
PROPERTY
  EveryRunEnds
CHECK_DEADLOCK FALSE
