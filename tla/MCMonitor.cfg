SPECIFICATION Spec
CONSTANTS
    CPU = {c1, c2}
    Key = {k1, k2}
    Bucket <- MCBucket
    Elem = {e1, e2, e3}
    MaxEntries = 2
    MaxPackets = 3
    NoKey = NoKey
SYMMETRY Symmetric
INVARIANTS
    TypeOK
    TotalsTrue
    ListComplete
    RulesWithinTotals
