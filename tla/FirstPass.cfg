SPECIFICATION Spec
CONSTANTS
  MAX_REVISIONS = 1
  u1 = u1
  u2 = u2
  d1 = d1
  d2 = d2
  i1 = i1
  i2 = i2
  Nobody = Nobody
  Runs = {u1, u2}
  Documents = {d1, d2}
  Invoices = {i1, i2}
  Scenarios <- PassScenarios
INVARIANTS
  LatecomerIsHeld
  InvoicePostedOnce
  PaidHasConsent
  ReopenedIsUntouched
  NothingOutlivesReset
PROPERTY SettledIsFrozen
CHECK_DEADLOCK FALSE
