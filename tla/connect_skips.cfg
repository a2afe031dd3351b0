\* The accept loop can close the very connection its sender chose.
SPECIFICATION Spec
CONSTANTS
    s1 = s1
    s2 = s2
    lo = lo
    lan = lan
    wan = wan
    k1 = k1
    k2 = k2
    Stranger = Stranger
    None = None
    Session <- MCSessionAlone
    Addr = {lo, lan, wan}
    Conn <- MCConnAlone
    Code = {k1, k2}
    Routes <- MCRoutesAlone
    Codings <- MCCodingsAlone
    MaxAcceptTries = 2
    AcceptTimeout = 2
    PreambleTimeout = 1
    MaxResets = 1
INVARIANT
    OnlyLosersSkipped
