SPECIFICATION InstantSpec
CONSTANTS
    Thread = {t1}
    Name <- MCName
    Type <- MCType
    Ip <- MCIp
    Root = "."
    RootHints <- MCRootHints
    Answer <- MCAnswer
    Truth <- MCTruth
    Existing <- MCExisting
    Query <- WwwQuery
    MaxTtl = 2
    Ttl = 1
    RootTtl = 2
    First = t1
    Lossy = FALSE
    MAX_CNAME_DEPTH = 2
    MAX_ITERATIONS = 10
    MAX_GLUE_DEPTH = 2
INVARIANT
    AliasesFollowed
CHECK_DEADLOCK FALSE
