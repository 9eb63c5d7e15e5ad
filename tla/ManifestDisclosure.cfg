SPECIFICATION Spec
CONSTANTS
  PathOrder <- MCPathOrder
  TierOf <- MCTierOf
  Baseline = "base"
  TierOrder <- MCTierOrder
  DidPath = "did"
  Bounds <- MCNothing
  Price <- MCNothing
  Did = {"ana", "bo"}
  Announcer = "zoe"
  Session = {"first", "second", "lone"}
  Claim <- MCClaim
  Key <- MCKey
  Careless = {"first", "second"}
  Asked = {"trusted", "vip"}
  Content <- MCContent
  Policies <- MCPolicies
  None = None
  MaxIssues = 1
  MaxTries <- MCTries
INVARIANTS TypeOK OneRevealPerChallenge KeyProven
PROPERTIES NeverAbovePolicy PatientServed
CHECK_DEADLOCK FALSE
