SPECIFICATION Spec
CONSTANTS
  data = data
  intel = intel
  venue = venue
  LOUD = LOUD
  broken = broken
  Malformed = Malformed
  Capability = {data, intel, venue}
  Unit = 10
  MinConf = 1
  RiskMax = 2
  RiskMin = 1
  Transport = 1
  Solo <- MCSolo
  Magnitude <- MCMagnitude
  Confidence <- MCConfidence
  Evidence <- MCEvidence
  Raw <- MCRaw
  ExactConf = 10
  VocabConf = 8
  SemanticMax = 5
  Threshold = 4
  Similarity <- MCSimilarity
  MarketTerm = {data, intel}
  PluggedConf = 9
  Need <- MCNeed
  Surplus <- MCSurplus
  MyMagnitude <- MCMyMagnitude
  DefaultMagnitude = 1
  Card <- MCCard
  File <- MCFile
  MaxItems = 2
INVARIANTS TypeOK CounterIsWorkable StakesBounded SemanticIsSmaller ListedIsUnderstood
PROPERTIES NeverPunished MoreNeverHurts
