SPECIFICATION Spec
CONSTANTS
    NDEBUG = TRUE
    BlockCount = 1
    HeapBuf = {h1}
    NULL = NULL
    BlockSize = 20
    Conn = {c1, c2}
    Script <- InTens
    Chunk = {10}
INVARIANTS
    LentIsHeld
    Inv
CONSTRAINT OneDue
SYMMETRY ConnSymmetry
