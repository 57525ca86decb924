CONSTANTS
    NoCard = NoCard
    Card = {c1, c2}
    Helpers <- MCHelpers
    MaxRestarts = 0
SPECIFICATION Spec
INVARIANTS
    GroupKilled
CHECK_DEADLOCK FALSE
