SPECIFICATION Spec
CONSTANTS
  ana = ana
  bo = bo
  cy = cy
  Agent = {ana, bo, cy}
  Pid = {p, q}
  NoPid = NoPid
  Cards <- OwnCards
  Supplies <- BothSupply
  AskBar <- MCBar
  UnitBar <- MCBar
  Headroom = {ana, bo}
  AttestsAnyway = {}
  WGood = 1
  WBad = 6
  WDangle = 2
  MaxSigned = 4
  MaxRecords <- Twice
  MaxRestarts <- NoRestart
SYMMETRY PidSymmetry
INVARIANTS SilenceIsPenalized
CHECK_DEADLOCK FALSE
