SPECIFICATION Spec
CHECK_DEADLOCK FALSE
CONSTANTS
    Config <- MCConfig
    U8 = 4
    U16 = 6
    BASE_PORT = 2
    Router <- MCRouter
    Target = "target"
    Stranger <- MCStranger
    Distance = 2
    NoAddr = NoAddr
INVARIANTS
    ReportIsTrue
PROPERTIES
    TraceEnds
