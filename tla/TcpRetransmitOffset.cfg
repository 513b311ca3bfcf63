SPECIFICATION LiveSpec
CONSTANTS
    M = 8
    MAX_RETRANSMITS = 2
    INITIAL_RTO = 1
    MAX_RTO = 3
    Iss = {6}
    PeerIss = 5
    PeerBytes = 2
    AppBytes = 3
    MaxSend = 2
INVARIANT
    PeerStreamPrefix
CHECK_DEADLOCK FALSE
