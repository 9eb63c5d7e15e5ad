SPECIFICATION Spec
CONSTANTS
  PathOrder <- MCPathOrder
  TierOf <- MCTierOf
  Baseline = "base"
  TierOrder <- MCTierOrder
  DidPath = "did"
  BandPath = "band"
  CostPath = "cost"
  Bounds <- MCBounds
  Price <- MCPrice
  Did = {"ana", "bo"}
  Content <- MCContent
  None = None
  MaxIssues = 2
  MaxShipped = 2
INVARIANTS TypeOK RevealsVerify AcceptedIsCommitted BlameIsExact
CHECK_DEADLOCK FALSE
