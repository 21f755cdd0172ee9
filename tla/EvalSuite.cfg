\* Both lanes of the evals over three golden cases.
SPECIFICATION Spec
CONSTANTS
  AUTONOMY_CAP_CENTS = 500
  HARD_FLOOR_CENTS = 5000
  PRICE_TOLERANCE_PERCENT = 2
  PRICE_TOLERANCE_MIN_CENTS = 25
  Vendors = {"v1"}
  None = None
  Null = None
  Tokens <- MCTokens
  Currencies <- MCCurrencies
  Dates = {"2026-08-03", "1970-01-01"}
  Catalog <- MCCatalog
  P0_PASS_PERCENT_MIN = 90
  GUARDRAIL_MAX = 0
  FLIP_MAX = 0
  DROP_MAX_POINTS = 2
  GoldenOf <- MCGoldenOf
  DocumentOf <- MCDocumentOf
  PreSeed <- MCPreSeed
  Parsed <- MCParsed
  FirstVersion = "parser1"
  Orders <- MCOrders
  History = {}
  NumberSentinel = "UNKNOWN"
  DateSentinel = "1970-01-01"
  Suites <- MCSets
  Extractions <- MCExtractions
  Proposals <- MCProposals
  Baselines <- MCBaselines
  MaxRounds <- MCMaxRounds
  MaxEdits = 1
  GoldenSets <- MCSets
  CaseOrder <- MCCaseOrder
  FileOrder <- MCFileOrder
  MaxChanges = 2
INVARIANTS
  PassIsEarned
  ReleaseIsSafe
  RecordingHeals
  GreenIsFresh
CHECK_DEADLOCK FALSE
