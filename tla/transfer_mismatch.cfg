\* What a mismatch leaves is not resumed.
SPECIFICATION Spec
CONSTANTS
    a = a
    b = b
    None = None
    Corrupt = Corrupt
    Block <- MCBlock
    Contents <- MCContents
    ChunkSize = 2
    WireCap = 2
    MaxFaults = 0
    MaxEdits = 2
    EditsDuringRun = TRUE
INVARIANT
    MismatchIsResumable
