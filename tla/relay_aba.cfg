\* Cleanup by code can remove the session of another sender.
SPECIFICATION Spec
CONSTANTS
    None = None
    Conn = {c1, c2, c3}
    Code = {k1}
    MaxRetries = 2
    TTL = 2
    ReaperEvery = 1
PROPERTY
    OnlyOwnSessionRemoved
