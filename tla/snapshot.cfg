SPECIFICATION Spec
CONSTANTS
    Builders = {1, 2}
    Nobody = 0
    NoManifest = NoManifest
    Damaged = Damaged
    NoRuntime = NoRuntime
    NoAnswer = NoAnswer
    SegmentSize = 2
    ScaleFields <- MCScaleFields
    Rank <- MCRank
    Replays <- MCReplays
    Acquisition <- MCAcquisition
    OptionSet <- MCOptionSet
    Selections <- MCSelections
    MaxFields = 3
    MaxBody = 2
    MaxEdits = 1
    MaxDamage = 1
    Queries <- MCQueries
    MaxRuntimePackets = 9
    ManifestSize = 1
    Size <- MCSize
INVARIANTS
    BuiltOpens
    OpenedInFull
    DeltasFollowCaptures
    AnswerIsHonest
    FetchedAsAdmitted
PROPERTIES
    NeverOverwritten
CHECK_DEADLOCK FALSE
