SPECIFICATION Spec
CONSTANTS
    Uploads = {u1, u2}
    Choices <- MCChoices
    Sizes = {4, 10}
    ZipOverhead = 1
    Skews <- MCSkews
    ChunkSize = 5
    MaxFile = 10
    MaxChunk = 10
    MaxTtl = 10080
    SafetyMargin = 1
INVARIANT TokenStored
