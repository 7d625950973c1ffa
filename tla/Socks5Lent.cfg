SPECIFICATION Spec
CONSTANTS
    NDEBUG = TRUE
    BlockCount = 2
    HeapBuf = {}
    NULL = NULL
    BlockSize = 13
    Conn = {c1}
    Script <- OnlyGood
    Chunk = {3, 10}
INVARIANT
    BufferInUseIsLent
