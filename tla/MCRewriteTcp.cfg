SPECIFICATION Spec
CONSTANTS
    Addr <- MCAddr
    Rest <- MCRest
    TotLen <- MCTotLen
INVARIANTS
    TcpSound
