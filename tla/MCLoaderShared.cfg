SPECIFICATION Spec
CONSTANTS
    Iface = {veth, eth, far}
    Small = {veth, eth}
    MaxGen = 2
    Faults = FALSE
    NoIface = NoIface
INVARIANTS
    PlanesShareMaps
