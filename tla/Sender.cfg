SPECIFICATION Spec
CONSTANTS
    Uploads = {u1, u2}
    Choices <- MCChoices
    Sizes = {9, 12}
    ZipOverhead = 1
    Skews <- MCSkews
    ChunkSize = 5
    MaxFile = 12
    MaxChunk = 10
    MaxTtl = 10080
    SafetyMargin = 1
INVARIANTS
    TokenHeld
    EntryTruthful
    RevokedPillTrue
    CapExact
PROPERTY UploadSettles
