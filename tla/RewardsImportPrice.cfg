\* The documented price range of personal rewards, against the import.
CONSTANTS
    Tasks = {t1}
    Sessions = {s1}
    StartCoins = 10
    TaskCoins = 5
    FocusCoins = 10
    Themes = {ocean, violet}
    Sounds = {bell}
    Price <- MCPrice
    RewardIds = {r1, r2}
    RewardPrices = {1, 5}
    MinPrice = 5
    MaxRewards = 1
    Default = Default
    TaskXP = 10
    FocusXP = 20
    CycleLen = 4
    TaskGoals = {1}
    FocusGoals = {1}
    None = None
SPECIFICATION Spec
SYMMETRY RewardSymmetry
INVARIANT PersonalPriceInRange
CHECK_DEADLOCK FALSE
