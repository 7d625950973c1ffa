SPECIFICATION FairSpec
CONSTANT NDEBUG = FALSE
INVARIANTS
    TypeOK
    ClosedMeansFreeable
    OnlyRefusedAborts
    WatchdogArmed
    ReadingMeansPolling
PROPERTIES
    StatusForward
    QuietWhenClosing
    WriteReportHonest
    PromiseSpec
    CloseCompletes
    WatchdogFires
