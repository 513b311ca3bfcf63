SPECIFICATION LiveSpec
CONSTANTS
    Ip = {a, b}
    Mac = {m1}
    NullMac = NullMac
    CACHE_TTL = 1
    PENDING_RETRY_INTERVAL = 1
    MAX_RETRIES = 2
    MaxPackets = 3
INVARIANTS
    TypeOK
    EveryPacketAccountedFor
    QueueMatchesRequests
PROPERTIES
    GivesUpLast
    NobodyWaitsForever
