CONSTANTS
    roomOne = roomOne
    roomTwo = roomTwo
    oldLead = oldLead
    otherLead = otherLead
    trigger = trigger
    Room = {roomOne, roomTwo}
    Message <- MCMessage
    RoomOf <- MCRoomOf
    Lead = {oldLead, otherLead}
    Trigger = {trigger}
    Owners = {}
    FetchLimit = 1
    SeedLimit = 2
    SeenCap = 2
    MaxMishaps = 1
SPECIFICATION AutomationSpec
INVARIANT LeadsOnce
CHECK_DEADLOCK FALSE
