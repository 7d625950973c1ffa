SPECIFICATION Spec
CONSTANT NDEBUG = FALSE
INVARIANTS
    ZeroDisablesTimeout
