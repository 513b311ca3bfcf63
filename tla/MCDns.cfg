SPECIFICATION LiveSpec
CONSTANTS
    Thread = {t1, t2}
    Name <- MCName
    Type <- MCType
    Ip <- MCIp
    Root = "."
    RootHints <- MCRootHints
    Answer <- MCAnswer
    Truth <- MCTruth
    Existing <- MCExisting
    Query <- MixedQuery
    MaxTtl = 2
    Ttl = 1
    RootTtl = 2
    First = t1
    Lossy = TRUE
    MAX_CNAME_DEPTH = 2
    MAX_ITERATIONS = 3
    MAX_GLUE_DEPTH = 1
INVARIANTS
    TypeOK
    AnswersAreTrue
    NegativeIsTrue
    SomeoneToAsk
PROPERTY
    EveryQueryAnswered
CHECK_DEADLOCK FALSE
