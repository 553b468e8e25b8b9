\* Two schedulers that may stop for any time or die, and one reminder.
CONSTANTS
    t1 = t1
    Tasks = {t1}
    Reminders = {r1}
    TaskOf <- MCTaskOf
    Workers = {w1, w2}
    MaxAttempts = 3
    MaxEdits = 2
    None = None
SPECIFICATION FairSpec
INVARIANTS
    AttemptsBoundMails
    RecordsAreTrue
    WaitingIsServed
    DuplicateNeedsLoss
PROPERTY EventuallySettled
