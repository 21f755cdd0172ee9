\* One refused store call at most, and the failure toggle in use.
CONSTANTS
  MAX_REVISIONS = 1
  Requests = {r1, r2}
  FirstPass = firstPass
  ApprovalIds = {a1, a2}
  FirstApproval = a1
  FirstPassReturned = TRUE
  Offered = {"approve", "reject"}
  FaultKinds = {"throw"}
  MaxFaults = 1
  MaxArms = 2
SPECIFICATION FairSpec
PROPERTIES
  DecidedSettles
  ClaimIsReleased
CHECK_DEADLOCK FALSE
