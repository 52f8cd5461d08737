SPECIFICATION FairSpec
CONSTANTS
  w1 = w1
  w2 = w2
  o1 = o1
  o2 = o2
  g1 = g1
  NoWorker = NoWorker
  Workers = {w1, w2}
  Orders = {o1, o2}
  Origins = {g1}
  OriginOf <- MCOriginOf
  NotBefore <- MCNotBefore
  ExpiresAt <- MCExpiresAt
  MaxConsecutiveFailures <- MCThreshold
  Cooldown <- MCCooldown
  Controls <- MCControls
  FailureCeiling = 1
  EarlierFailures = {0, 1}
  MaxTime = 2
INVARIANTS TypeOK AtMostOneRetrieval RetrievalUnderClosedCircuit ManifestImpliesEvidence UnusableOnlyPastCeiling
PROPERTIES SpoolOnlyGrowsToManifest OpensOnConsecutiveFailures LeaseIsReleased ImplementsOneShot
