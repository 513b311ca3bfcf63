SPECIFICATION Spec
CONSTANTS
    Bytes <- MCBytes
    WireLen = 5
    Messages <- MCMessages
INVARIANTS
    NamesFound
    MessagesFaithful
CHECK_DEADLOCK FALSE
