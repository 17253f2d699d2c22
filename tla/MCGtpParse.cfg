SPECIFICATION Spec
CONSTANTS
    Frames <- MCFrames
    MaxExt = 4
INVARIANTS
    TypeOK
    StripExact
    MatchInBounds
    WellFormedMatched
