CONSTANTS
    roomOne = roomOne
    roomTwo = roomTwo
    oldLead = oldLead
    otherLead = otherLead
    trigger = trigger
    Room = {roomOne, roomTwo}
    Message <- MCMessage
    RoomOf <- MCRoomOf
    Lead = {oldLead, otherLead}
    Trigger = {trigger}
    Owners = {}
    FetchLimit = 3
    SeedLimit = 3
    SeenCap = 3
    MaxMishaps = 1
SPECIFICATION AutomationSpec
INVARIANT HistoryNeverRuns
CHECK_DEADLOCK FALSE
