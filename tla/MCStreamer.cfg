CONSTANTS
    Followers = {f1}
    Payloads <- MCPayloads
    Offsets <- MCOffsets
    MaxToken = 3
    MaxBytes = 5
SPECIFICATION FairSpec
CHECK_DEADLOCK FALSE
INVARIANTS
    TypeOK
    SendsInOrder
    CompleteOnSuccess
    WaitsOnlyForMore
PROPERTIES
    FollowersReturn
