SPECIFICATION LiveClientSpec
CONSTANTS
    M = 8
    MAX_RETRANSMITS = 2
    INITIAL_RTO = 1
    MAX_RTO = 3
    Iss = {5, 6}
    PeerIss = 5
    PeerBytes = 3
    AppBytes = 3
    MaxSend = 2
INVARIANTS
    RequestIntact
    ReadBeforeClose
PROPERTIES
    NothingUnread
    ReaderEnds
CHECK_DEADLOCK FALSE
