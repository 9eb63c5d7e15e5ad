SPECIFICATION Spec
CONSTANTS
  ana = ana
  bo = bo
  cy = cy
  Agent = {ana, bo, cy}
  Pid = {p, q}
  NoPid = NoPid
  Cards <- MCCards
  Supplies <- BothSupply
  AskBar <- MCBar
  UnitBar <- MCBar
  Headroom = {ana, bo}
  AttestsAnyway = {ana}
  WGood = 1
  WBad = 6
  WDangle = 2
  MaxSigned = 4
  MaxRecords <- BoTwice
  MaxRestarts <- AnaRestarts
SYMMETRY PidSymmetry
INVARIANTS TypeOK PartiesAgree AuthenticVerdicts TrustIsEarned NoStrandedOutcome
PROPERTIES RecordsSurvive KeepsBooks
CHECK_DEADLOCK FALSE
