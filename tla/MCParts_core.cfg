CONSTANTS
    FetchLimit = 2
    SeedLimit = 2
    SeenCap = 3
    Tolerance = 1
    MaxMessages = 3
    MaxCrashes = 1
    MaxOthers = 1
    roomOne = roomOne
    roomTwo = roomTwo
    oldLead = oldLead
    otherLead = otherLead
    trigger = trigger
    hereHost = hereHost
    thereHost = thereHost
    chained = chained
    direct = direct
    looping = looping
    scripted = scripted
    intent = intent
    other = other
    big = big
    small = small
    s1 = s1
    s2 = s2
    task = task
    author = author
    RuleRoom = {roomOne, roomTwo}
    RuleMessage = {oldLead, otherLead, trigger}
    RuleRoomOf <- MCRuleRoomOf
    Lead = {oldLead, otherLead}
    Trigger = {trigger}
    Owners = {}
    RuleFetch = 1
    RuleSeed = 2
    RuleCap = 2
    AutomationMishaps = 2
    MaxItems = 2
    SourceOwn = {2}
    SourceCap = 1
    SourceCrashes = 1
    Daemon = {hereHost, thereHost}
    SendRequest = {chained, direct, looping, scripted}
    Origin <- MCOrigin
    Adapter <- MCAdapter
    MaxForwardHops = 1
    MaxKeys = 1
    PendingItem = {intent, other}
    Host = {hereHost, thereHost}
    HostOf <- MCHostOf
    Blocked = {}
    MaxLevel = 2
    PendingMishaps = 1
    BoxEntry = {e1, e2}
    NoEntry = NoEntry
    Asker = {picker, tool}
    Picker = {picker}
    RequireChoice = {}
    MaxEvents = 1
    Source = {s1, s2}
    HardlinkSet <- MCHardlinkSet
    File = {shard, ref}
    Sticky = {ref}
    Added = {note}
    MaxAdded = 1
    TidyFaults = 2
    SwitchRequest = {intent, other}
    NoRequest = NoRequest
    ModelName = {big, small}
    Wanted <- MCWanted
    NoModel = NoModel
    SwitchMishaps = 2
    ArchiveCaller = {cli}
    PageSize = 2
    Budget = {1, 2, 3}
    ArchiveMessages = 6
    MaxAborts = 1
    Port = {port}
    ServerPid = {engineOne}
    RecheckTicks = 2
    MaxTokens = 1
    MaxStarts = 2
    MaxChanges = 1
    Run = {hourly, manual}
    Durable = {1, 3}
    Window = 2
    QueueCap = 2
    MaxQueue = 3
    MaxStops = 1
    Agents = {s1, s2, s3}
    Pid = {p1, p2}
    MaxHooks = 4
    AcpCaller = {acpServer, cli}
    AcpSession = {c1, c2}
    MaxSessions = 1
    MessageLimit = 1
    Timeout = 1
    MaxDeaths = 1
    Task = {task}
    Voter = {author, second, third}
    AuthorOf <- MCAuthorOf
    VoteThreshold = 2
    ReviewThreshold = 2
    MaxReviewRounds = 2
    MaxCalls = 5
SPECIFICATION PartsSpec
INVARIANTS
    SeenMeansHandled
    ReplayOnlyInterrupted
    DispatchedOnce
    HistoryGuarded
    AccountedOnce
    DeliveredMeansSubmitted
    AllClearIsClear
    EscalationsOnce
    AppliedChecked
    NothingLost
    PathsServed
    RecoverHeals
    NeverReplayed
    NoSilentHole
    RateNeverOverstates
    ServerShown
    OneHolder
    LimitsHold
CHECK_DEADLOCK FALSE
