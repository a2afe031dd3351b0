\* A code outlives the TTL until the next sweep.
SPECIFICATION Spec
CONSTANTS
    None = None
    Conn = {c1}
    Code = {k1}
    MaxRetries = 2
    TTL = 2
    ReaperEvery = 1
INVARIANT
    CodeLifetimeIsTTL
