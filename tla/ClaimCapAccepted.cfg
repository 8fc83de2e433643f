SPECIFICATION Spec
CONSTANTS
    Uploads = {u1}
    Choices <- MCChoices
    Sizes = {1020, 1021, 1024}
    ZipOverhead = 1
    Skews = {0}
    ChunkSize = 5
    MaxFile = 1024
    MaxChunk = 10
    MaxTtl = 10080
    SafetyMargin = 1
INVARIANT CapAccepted
