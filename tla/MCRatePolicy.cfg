SPECIFICATION FairSpec
CONSTANTS
    Second = 2
    Boot = 2
    MaxTime = 9
    MaxDrops = 3
    Policies <- MCPolicies
INVARIANTS
    TypeOK
    SlidingCap
    QuarantineEarned
    CleanSlate
PROPERTIES
    ImplementsQuarantine
    SelfRelease
