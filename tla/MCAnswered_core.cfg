CONSTANTS
    a = a
    b = b
    x = x
    y = y
    Owner = petrus
    NoOne = NoOne
    NoAnswer = NoAnswer
    NoIntent = NoIntent
    Intent = {i1, i2}
    Agent = {a, b}
    Waiter = {}
    Shapes <- MCShapes
    Principals <- MCPrincipals
    Faults = {}
    MaxFaults = 0
    MaxRestarts = 2
    holder = holder
    card = card
    Poller = {holder, bystander}
    Slot = {s1}
    NoSlot = NoSlot
    Card = {card}
    HolderOf <- MCHolderOf
    Sender = {tapper, tablet}
    Owners = {tapper}
    Person = {tapper, tablet}
    Limit = 2
    MaxMessages = 2
    MaxReboots = 1
SPECIFICATION AnsweredSpec
INVARIANTS
    OwnersSettle
    OneNotice
    FileAgrees
    HandlerOnce
PROPERTIES
    TapLands
    ImplementsRegister
CHECK_DEADLOCK FALSE
