SPECIFICATION FairSpec
CONSTANTS
    NDEBUG = FALSE
    BlockCount = 2
    HeapBuf = {}
    NULL = NULL
    BlockSize = 26
    Conn = {c1}
    Script <- EveryKind
    Chunk <- AnySize
INVARIANTS
    RefusalDeserved
PROPERTIES
    SessionEarned
    HandshakeEnds
