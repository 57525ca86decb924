CONSTANTS
    a = a
    b = b
    x = x
    y = y
    Owner = petrus
    NoOne = NoOne
    NoAnswer = NoAnswer
    NoIntent = NoIntent
    Intent = {i1}
    Agent = {a, b}
    Waiter = {w1}
    Shapes <- MCShapes
    Principals <- MCPrincipals
    Faults = {"cut"}
    MaxFaults = 1
    MaxRestarts = 1
SPECIFICATION Spec
INVARIANTS
    FileAgrees
CHECK_DEADLOCK FALSE
