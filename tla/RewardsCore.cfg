\* Tasks and focus sessions; the shop has nothing to sell.
CONSTANTS
    Tasks = {t1, t2}
    Sessions = {s1, s2}
    StartCoins = 50
    TaskCoins = 5
    FocusCoins = 10
    Themes = {}
    Sounds = {}
    Price <- MCPrice
    RewardIds = {}
    RewardPrices = {}
    MinPrice = 10
    MaxRewards = 100
    Default = Default
    TaskXP = 10
    FocusXP = 20
    CycleLen = 2
    TaskGoals = {1, 2}
    FocusGoals = {1, 2}
    None = None
SPECIFICATION Spec
SYMMETRY Symmetry
INVARIANTS
    StatsMatchLedger
    ClaimedIffPaid
    SessionsCounted
    FocusConsistent
    AchievementsCurrent
CHECK_DEADLOCK FALSE
