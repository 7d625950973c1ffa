SPECIFICATION Spec
CONSTANTS
    NDEBUG = FALSE
    BlockCount = 2
    HeapBuf = {}
    NULL = NULL
    BlockSize = 13
    Conn = {c1}
    Script <- OnlyGood
    Chunk = {3, 10}
INVARIANT
    ForwardingStarts
