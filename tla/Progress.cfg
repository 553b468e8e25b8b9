\* Four tasks earn rewards on four dates, in time zones a day apart.
CONSTANTS
    Tasks = {t1, t2, t3, t4}
    Sessions = {}
    StartCoins = 50
    TaskCoins = 5
    FocusCoins = 10
    Themes = {}
    Sounds = {}
    Price <- MCPrice
    RewardIds = {}
    RewardPrices = {}
    MinPrice = 10
    MaxRewards = 100
    Default = Default
    TaskXP = 10
    FocusXP = 20
    CycleLen = 2
    TaskGoals = {}
    FocusGoals = {}
    None = None
    DayLen = 2
    Zones <- MCZones
    FirstNeed = 8
    NeedStep = 4
    MaxLevel = 3
    MaxNow = 4
SPECIFICATION ProgressSpec
SYMMETRY Symmetry
INVARIANTS
    StreaksAreRuns
    SetbackBoundsStreak
    LevelFollowsPoints
CHECK_DEADLOCK FALSE
