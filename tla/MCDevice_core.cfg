CONSTANTS
    NoCard = NoCard
    Card = {c1, c2}
    Helpers <- MCHelpers
    MaxRestarts = 1
    big = big
    small = small
    Model = {big, small}
    NoModel = NoModel
    Order <- MCOrder
    Shards <- MCShards
    ShardSize <- MCShardSize
    Downloaded <- MCDownloaded
    Counted = {big, small}
    OwnMemory = TRUE
    Catalogue = TRUE
    Configured = NoModel
    Budget = 10
    Reserve = 2
    Loads = {0, 4}
    Stale = 2
    MaxChanges = 2
SPECIFICATION DeviceSpec
INVARIANTS
    ClaimHolds
    KilledSaysKilled
    ClaimsBacked
PROPERTIES
    ClaimReleased
    ServedShown
CHECK_DEADLOCK FALSE
