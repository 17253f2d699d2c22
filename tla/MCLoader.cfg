SPECIFICATION Spec
CONSTANTS
    Iface = {veth, eth, far}
    Small = {veth, eth}
    MaxGen = 2
    Faults = TRUE
    NoIface = NoIface
INVARIANTS
    TypeOK
    LoadConsistent
    FailureDetaches
    UnloadDetaches
