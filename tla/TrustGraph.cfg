SPECIFICATION GraphSpec
CONSTANTS
  me = me
  ann = ann
  bob = bob
  cy = cy
  dan = dan
  Agent = {me, ann, bob, cy, dan}
  Owner = me
  WGood = 1
  WBad = 2
  WDangle = 1
  Unit = 10
  Curve <- MCCurve
  DecayBase = 2
  MaxDepth = 2
  Pair <- MCPair
  Outcome <- MCOutcome
  MaxRecords = 6
  MaxSour = 1
SYMMETRY WaySymmetry
INVARIANTS HeardOnce
PROPERTIES NegativesStayLocal CliquesUnheard
CHECK_DEADLOCK FALSE
