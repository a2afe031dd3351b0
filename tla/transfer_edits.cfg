\* The source may change at any time; retries heal once faults and edits stop.
SPECIFICATION FairSpec
CONSTANTS
    a = a
    b = b
    None = None
    Corrupt = Corrupt
    Block <- MCBlock
    Contents <- MCContents
    ChunkSize = 2
    WireCap = 2
    MaxFaults = 2
    MaxEdits = 2
    EditsDuringRun = TRUE
INVARIANTS
    TypeOK
    HashCoversPartial
    CleanFinish
    FramesInStep
PROPERTIES
    DeliversAtomically
    Heals
    AttemptsEnd
