SPECIFICATION FairSpec
CONSTANTS
    Count = 6
    Node <- Numbers
    Key <- KeyOf
    Uses <- Numbers
INVARIANTS
    Linked
    RequestedOnTop
PROPERTIES
    SetSpec
    CallsReturn
