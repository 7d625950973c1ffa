SPECIFICATION FairSpec
CONSTANTS
    NDEBUG = TRUE
    BlockCount = 1
    HeapBuf = {}
    NULL = NULL
    BlockSize = 13
    Conn = {c1}
    Script <- EveryKind
    Chunk <- AnySize
INVARIANTS
    TypeOK
    NoReadWhileWriting
    ClosedOnce
    SessionFreed
PROPERTIES
    PromiseSpec
    CloseCompletes
    WriteEnds
