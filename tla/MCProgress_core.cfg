CONSTANTS
    FetchLimit = 2
    SeedLimit = 2
    SeenCap = 3
    Tolerance = 0
    MaxMessages = 3
    MaxCrashes = 1
    MaxOthers = 0
    request = request
    later = later
    NoRequest = NoRequest
    big = big
    small = small
    NoModel = NoModel
    MaxMishaps = 1
SPECIFICATION MCSpec
PROPERTIES
    MessageDelivered
    OwnerNudges
    RequestSettles
CHECK_DEADLOCK FALSE
