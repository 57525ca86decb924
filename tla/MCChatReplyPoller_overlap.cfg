CONSTANTS
    here = here
    there = there
    i1 = i1
    owner = owner
    tablet = tablet
    agent = agent
    Poller = {here}
    Slot = {s1, s2}
    NoSlot = NoSlot
    Intent = {i1}
    HolderOf <- MCHolderOf
    Sender = {owner, tablet, agent}
    Owners = {owner}
    Person = {owner, tablet}
    Limit = 1
    MaxMessages = 2
    MaxRestarts = 1
SPECIFICATION Spec
PROPERTIES
    HistoryIgnored
CHECK_DEADLOCK FALSE
