SPECIFICATION FairSpec
CONSTANTS
    Key = {1, 2}
    plain = plain
    nat = nat
    Rules = {plain, nat}
    FormRules = {plain}
    Start <- MCStart
    Defaults <- MCDefaults
    MaxFetch = 2
    MaxChanges = 2
    NoRule = NoRule
INVARIANTS
    TypeOK
    CursorOnRow
PROPERTIES
    ActsOnTarget
    Converges
\* The user may quit.
CHECK_DEADLOCK FALSE
