\* One task, a clock of four minutes, up to two rows in a request.
CONSTANTS
    MaxTime = 3
    MaxOffset = 2
    FreeLimit = 1
    MaxRows = 2
    MaxId = 2
    None = None
SPECIFICATION Spec
INVARIANTS
    RemindersAgree
