SPECIFICATION FairSpec
CONSTANTS
    CPU = {c1, c2}
    Second = 2
    Boot = 2
    MaxTime = 8
    MaxRun = 2
    MaxDrops = 3
    Elem = {1}
    WordSize = 16
    rate_pps = 1
    quarantine_threshold = 3
    quarantine_seconds = 1
INVARIANTS
    TypeOK
    CountWithinCap
    NoEndlessQuarantine
    DropsUndercount
    EarnedPerCpu
PROPERTIES
    DeadlineEnds
\* The clock and the drops are bounded: the bounded system stops.
CHECK_DEADLOCK FALSE
