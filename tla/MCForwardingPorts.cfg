SPECIFICATION Spec
CONSTANTS
    Key = {k1}
    Ifindex = {1, 2, 9}
    Loaded = {1}
    DevmapSize = 4
    MaxEntries = 1
    Rules <- MCRules
    Op = {o1, o2}
    MaxFrames = 1
    NoRule = NoRule
    Idle = Idle
SYMMETRY Symmetric
INVARIANTS
    PortsProvisioned
