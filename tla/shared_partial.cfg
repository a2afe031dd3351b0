\* Two receivers with one destination can save a file nobody offered.
SPECIFICATION Spec
CONSTANTS
    a = a
    b = b
    Hole = Hole
    None = None
    Receiver = {r1, r2}
    Contents <- MCContents
INVARIANT
    SavedIsOffered
CHECK_DEADLOCK FALSE
