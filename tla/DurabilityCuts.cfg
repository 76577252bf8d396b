SPECIFICATION FairSpec
CONSTANTS
    queue = queue
    kv = kv
    Campaigns <- AllCampaigns
INVARIANTS NoFalseAlarm AcceptedIsDurable FaultsAreLifted
PROPERTIES CutsMeetOperations RunEnds
CHECK_DEADLOCK FALSE
