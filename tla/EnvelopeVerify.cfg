SPECIFICATION Spec
CONSTANTS
  Nonce = {n1, n2}
  ClockSkew = 1
  ReplayWindow = 2
  Drift = 2
  Lifetime <- MCLifetime
  Absent = Absent
  Null = Null
  Horizon = 4
  MaxVerified = 3
SYMMETRY NonceSymmetry
INVARIANTS TypeOK ReplayWindowHolds AtMostOnce RejectionJustified
CHECK_DEADLOCK FALSE
