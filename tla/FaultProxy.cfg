SPECIFICATION FairDriverSpec
CONSTANTS
    Conns = {c1}
    Bodies <- AllBodies
    MaxLatencyMs = 60000
    MaxChunks = 3
INVARIANTS
    TypeOK
    HealthyIsTransparent
    CutIsolatesUpstream
    InOrder
PROPERTIES
    LostReplyStaysLost
    DelayedIsWritten
