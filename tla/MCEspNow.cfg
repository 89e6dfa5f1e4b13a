SPECIFICATION FairSpec
CONSTANTS
    Devices = {A, B}
    All = All
    Nobody = Nobody
    Magics = {1, 2}
    SendCount = 2
    QueueSize = 2
    MaxRestarts = 2
INVARIANTS TypeOK OneSender SenderWasHeard SendsItsCount TwoChains
PROPERTIES SenderFinishes
CHECK_DEADLOCK FALSE
