SPECIFICATION Spec
CONSTANTS
    BlockCount = 3
    HeapBuf = {h1, h2}
    Client = {c1, c2}
    NULL = NULL
INVARIANTS
    TypeOK
    FreeListExact
    AccountsExact
PROPERTIES
    HeapOnlyWhenExhausted
    LendingSpec
