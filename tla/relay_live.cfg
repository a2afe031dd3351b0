\* Every handler ends and every code comes free.
SPECIFICATION FairSpec
CONSTANTS
    None = None
    Conn = {c1, c2}
    Code = {k1}
    MaxRetries = 2
    TTL = 2
    ReaperEvery = 1
PROPERTIES
    HandlersEnd
    CodeFreed
