\* A visitor who strays three times, one reset, an intake that closes twice.
CONSTANTS
  MaxMoves = 3
  MaxResets = 1
  MaxPauses = 2
SPECIFICATION FairSpec
PROPERTIES
  HandoverIsKept
  TourFinishes
CHECK_DEADLOCK FALSE
