SPECIFICATION Spec
CONSTANTS
    NDEBUG = FALSE
    BlockCount = 2
    HeapBuf = {}
    NULL = NULL
    BlockSize = 26
    Conn = {c1}
    Script <- OtherAddrs
    Chunk = {3, 9, 24}
INVARIANT
    RequestHasLayout
