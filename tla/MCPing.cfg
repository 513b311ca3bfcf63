SPECIFICATION Spec
CONSTANTS
    Count = 4
    SeqSpace = 3
    Timeout = 2
    Interval = 1
INVARIANTS
    TypeOK
    EveryProbeAccountedFor
PROPERTIES
    TimeoutIsReal
    PingEnds
