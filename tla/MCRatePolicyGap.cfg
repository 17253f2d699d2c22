SPECIFICATION Spec
CONSTANTS
    Second = 1
    Boot = 1
    MaxTime = 9
    MaxDrops = 3
    Policies <- MCPoliciesGap
INVARIANTS
    SustainedViolation
CHECK_DEADLOCK FALSE
