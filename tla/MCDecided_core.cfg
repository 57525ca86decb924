CONSTANTS
    q1 = q1
    q2 = q2
    q3 = q3
    n1 = n1
    n2 = n2
    Request = {q1, q2, q3}
    Nonce = {n1, n2}
    NonceOf <- MCNonceOf
    Mergeable = {q1, q2}
    Owner = petrus
    Deciders = {petrus, lead}
    NoOne = NoOne
    NoRequest = NoRequest
    MaxCrashes = 1
    groupmind = groupmind
    codewatch = codewatch
    pager = pager
    Channels <- MCChannels
    Configured = {groupmind, codewatch}
    a = a
    b = b
    x = x
    y = y
    NoAnswer = NoAnswer
    NoIntent = NoIntent
    Intent = {i1}
    Agent = {a, b}
    Waiter = {w1}
    Shapes <- MCShapes
    Principals <- MCPrincipals
    Faults = {"failed", "torn", "cut"}
    MaxFaults = 1
    MaxRestarts = 2
SPECIFICATION MCSpec
INVARIANTS
    AuthorisedDecisions
    NoStrandedWaiter
    MergedOnceIfApproved
    SummaryHonest
PROPERTIES
    DecisionFinal
    WaiterReleased
    ExecutorSettles
    EveryChannelReported
CHECK_DEADLOCK FALSE
