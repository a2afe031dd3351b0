\* Senders and receivers in any mix, two codes.
SPECIFICATION Spec
CONSTANTS
    None = None
    Conn = {c1, c2, c3}
    Code = {k1, k2}
    MaxRetries = 2
    TTL = 2
    ReaperEvery = 1
SYMMETRY Symmetry
INVARIANTS
    TypeOK
    ClaimExclusive
    FoundHasAddrs
    HandoffHasRoom
    NoOrphans
    LifetimeBound
PROPERTIES
    ImplementsRendezvous
    RemovedForAReason
