SPECIFICATION Spec
CONSTANTS
  RequiredFamilyQuotas <- MCQuotas
  RequiredCandidates = 3
  MaxTestFixtures = 1
  Slug <- MCSlug
  Selection <- MCSelection
  Directories <- MCDirectories
  Fixtures <- MCFixtures
  InitialSources <- MCInitialSources
  Versions <- MCVersions
  EvidenceVersions <- MCEvidenceVersions
  InitialEvidence <- MCInitialEvidence
  Times = {10, 30}
  MaxEdits = 3
  MaxRenders = 1
INVARIANTS PlanTracesToReview CensusAgrees
