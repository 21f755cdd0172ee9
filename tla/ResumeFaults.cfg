\* Store calls that are refused and functions that die, anywhere.
CONSTANTS
  MAX_REVISIONS = 1
  Requests = {r1, r2, r3}
  FirstPass = firstPass
  ApprovalIds = {a1, a2}
  FirstApproval = a1
  FirstPassReturned = TRUE
  Offered = {"approve", "reject"}
  FaultKinds = {"throw", "crash"}
  MaxFaults = 2
  MaxArms = 0
SPECIFICATION Spec
SYMMETRY Perms
INVARIANTS
  OneActor
  OnlyCurrentApproved
  PaymentFollowsDecision
  SettledTruthfully
  ExecutedIsAudited
PROPERTIES
  DecisionIsFinal
  ImplementsProtocol
CHECK_DEADLOCK FALSE
