\* A re-draft while the approval of another draft is pending.
CONSTANTS
  MAX_REVISIONS = 1
  v1 = v1
  v2 = v2
  Vendors = {v1, v2}
  None = None
  Numbers = {n1}
  Scenarios <- DraftScenarios
SPECIFICATION Spec
INVARIANT ResumeExecutesApproved
CHECK_DEADLOCK FALSE
