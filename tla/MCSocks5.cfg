SPECIFICATION Spec
CHECK_DEADLOCK FALSE
CONSTANTS
    Datagram <- MCDatagram
    Host = {"c", "s", "t", "x"}
    Peer = {"c", "s", "x"}
    V6 = {"x"}
    Lookup <- MCLookup
    NoClient = NoClient
    IDLE_TIMEOUT = 1
    MaxPackets = 3
    Request <- MCRequest
INVARIANTS
    ReplyIsTrue
    RelayIsFaithful
PROPERTIES
    SessionEnds
