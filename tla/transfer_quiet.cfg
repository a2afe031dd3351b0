\* The source only changes while no sender runs.
SPECIFICATION FairSpec
CONSTANTS
    a = a
    b = b
    None = None
    Corrupt = Corrupt
    Block <- MCBlock
    Contents <- MCContents
    ChunkSize = 2
    WireCap = 2
    MaxFaults = 3
    MaxEdits = 2
    EditsDuringRun = FALSE
INVARIANTS
    PartialIsPrefix
    NoMismatch
    SuccessIsCovered
PROPERTY
    SuccessArrives
