\* Four requests of two commands with lost responses, crashes and lost sessions.
CONSTANTS
    Requests = {q1, q2, q3, q4}
    Commands = {c1, c2}
    Keys = {k1, k2, k3}
    None = None
SPECIFICATION CmdSpec
SYMMETRY Symmetry
INVARIANTS
    EffectsAsMeantWhileSignedIn
    ConfirmedIsNew
CHECK_DEADLOCK FALSE
