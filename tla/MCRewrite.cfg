SPECIFICATION Spec
CONSTANTS
    Addr <- MCAddr
    Rest <- MCRest
    TotLen <- MCTotLen
INVARIANTS
    TypeOK
    IpSound
    L4Sound
    TunnelSound
