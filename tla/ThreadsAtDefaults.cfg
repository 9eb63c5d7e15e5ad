SPECIFICATION Spec
CONSTANTS
  n1 = n1
  n2 = n2
  Thread = {t1, t2, t3}
  Traffic <- MCTraffic
  ClockSkew = 1
  ReplayWindow = 2
  Hold = 1
  Absent = Absent
  Null = Null
  Horizon = 4
  MaxAccepted = 3
SYMMETRY ThreadSymmetry
INVARIANTS MessagesOnceAtDefaults
CHECK_DEADLOCK FALSE
