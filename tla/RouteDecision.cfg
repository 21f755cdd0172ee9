\* Every document, order and receiving record, in both lanes and every mode.
CONSTANTS
  AUTONOMY_CAP_CENTS = 50000
  HARD_FLOOR_CENTS = 500000
  PRICE_TOLERANCE_PERCENT = 2
  PRICE_TOLERANCE_MIN_CENTS = 2500
  None = None
  Vendors = {v1, v2}
  Documents <- MCDocuments
  PurchaseOrders <- MCPurchaseOrders
  ReceivingRecords <- MCReceivingRecords
SPECIFICATION Spec
INVARIANTS
  AutoExecutionIsEarned
  PolicyIsFloor
  RouteIsLeastAllowed
  GateAgreesWithRoute
CHECK_DEADLOCK FALSE
