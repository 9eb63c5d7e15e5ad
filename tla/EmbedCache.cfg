SPECIFICATION Spec
CONSTANTS
  server = server
  script = script
  t1 = t1
  t2 = t2
  t3 = t3
  nested = nested
  dashed = dashed
  other = other
  Process = {server, script}
  Thread = {t1, t2, t3}
  ProcessOf <- MCProcessOf
  Capability = {nested, dashed, other}
  Text <- MCText
  Query <- MCQuery
  MaxTroubles = 1
INVARIANTS CacheIsTransparent ComputedOnce
SYMMETRY MCSymmetry
