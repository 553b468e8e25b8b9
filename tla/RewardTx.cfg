\* Transactions of two concurrent requests, three in all, split at their locks
\* and served by fair lock queues.
CONSTANTS
    Tasks = {1, 2}
    Sessions = {s1}
    r1 = r1
    r2 = r2
    Requests = {r1, r2}
    MaxBegun = 3
    StartCoins = 50
    TaskCoins = 5
    FocusCoins = 10
    Themes = {}
    Sounds = {}
    Price <- MCPrice
    RewardIds = {}
    RewardPrices = {}
    MinPrice = 10
    MaxRewards = 100
    Default = Default
    TaskXP = 10
    FocusXP = 20
    CycleLen = 2
    TaskGoals = {1}
    FocusGoals = {1}
    None = None
SPECIFICATION MCSpec
INVARIANT OnlyBulkDeadlocks
PROPERTIES
    Serialisable
    EveryRequestEnds
CHECK_DEADLOCK FALSE
