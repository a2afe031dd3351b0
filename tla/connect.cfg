\* Two sessions, one sender racing into the other's receiver, codes alike or not.
SPECIFICATION Spec
CONSTANTS
    s1 = s1
    s2 = s2
    lo = lo
    lan = lan
    wan = wan
    k1 = k1
    k2 = k2
    Stranger = Stranger
    None = None
    Session <- MCSession
    Addr = {lo, lan}
    Conn <- MCConn
    Code = {k1, k2}
    Routes <- MCRoutes
    Codings <- MCCodings
    MaxAcceptTries = 2
    AcceptTimeout = 2
    PreambleTimeout = 1
    MaxResets = 0
INVARIANTS
    TypeOK
    HandshakesOnChosen
    AcceptBounded
    FailsForAReason
    DrainExact
PROPERTIES
    ImplementsPairing
    GivesUpLast
