\* A transfer breaks off, both users come back, the receiver with the old code.
SPECIFICATION RestartSpec
CONSTANTS
    None = None
    Conn = {c1, c2, c3, c4}
    Returning = {c3, c4}
    Code = {k1, k2}
    MaxRetries = 2
    TTL = 2
    ReaperEvery = 1
PROPERTY
    SameCodeRestarts
