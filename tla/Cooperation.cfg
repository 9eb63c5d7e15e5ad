SPECIFICATION Spec
CONSTANTS
  Holder = holder
  Peer = peer
  WGood = 1
  WBad = 6
  WDangle = 2
  DanglingTimeout = 2
  HalfLife = 1
  FullWeight = 4
  Undated = Undated
  Drift = 1
  MaxLetters = 3
  Horizon = 5
INVARIANTS TypeOK OnlySilencePenalized
PROPERTIES NeverReopened TimeOnlyFades
CHECK_DEADLOCK FALSE
